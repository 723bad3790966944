# A TLA+ verification project for beadle

beadle is an email agent. `beadle-email` is an MCP server and command line over
a mailbox; `beadle-daemon` polls the same mailbox, and for mail whose sender
holds the `x` permission and whose origin is proved it plans and runs a
*pipeline* of commands and mails the result back. This project models the parts
whose correctness depends on interleavings, failures, restarts and bounds,
checks them with TLC on small instances, and proves the most important
properties with TLAPS for every instance.

Modules are translated from the Go source; `PROJECT.json` maps every definition
to its lines. Each property is paired there with a mutant: a changed definition
that is a plausible bug of that code and that TLC finds with that property.

## 1. Inventory

| component | state | operations | module |
|---|---|---|---|
| pipeline executor, `internal/daemon/pipeline.go` | `Pipeline` struct, `pipe` and its truncation flag, the record on disk | `Run`, `fireElse`, `save`; at startup `sweepStalePipelines` | `Executor`, abstract: `PipelineLifecycle` |
| pipeline store, `persist.go` | a directory of `<id>.json` and `.tmp-<id>.json`; the prune goroutine | `Save`, `LoadRunning`, `Prune`, `StartPruning`, `StopPruning` | `PipelineStore`, `PruneLoop` |
| inbox poller, `internal/email/poller.go`; marker, `internal/mcp/poll_tools.go` | `raw`, `stopCh`, `wg`, `lastSeen`, `lastCheck`; marker bucket | `Start`, `Stop`, `SetInterval`, `loop`, `poll`, `notify`, `set_poll_interval` | `Poller` |
| mail handler, `internal/daemon/handler.go` | `workerSem`, `wg`, `ctx`; mailbox and contacts it reads | `OnNewMail`, `verifyTrust`, `fetchBody`, `Stop` | `MailHandler` |
| daemon process, `cmd/beadle-daemon/main.go` | the above, wired together | start, signal, deferred stops, restart | `MailDaemon` (composes `Poller` and `MailHandler`) |
| compound runner, `internal/daemon/runner.go` | processes, `io.Pipe`s, waiters, `cappedWriter` | `runCompound` | `CompoundRun` |
| single-binary and Claude runners, `runner.go`, `templates.go`, `mission.go`, `spawner.go` | temporary files, a mission of ethos, a child process | `CLIRunner.Run`, `ClaudeRunner.Run`, `WorkerSpawner.Run` | `StageRun` |
| command files, `command.go`, `signature.go`, `config.go`; `init`, `sign`, `verify` | `*.yaml`, `.signing` files, `daemon.json`, the loaded registry | `LoadCommands`, `ValidateArgs`, `runSign`, `runInit`, `runVerify` | `CommandFile`, `CommandSigning`, `CommandDaemon` (composes it with `StageRun`) |
| sending, `internal/email/chain.go`, `smtp.go`, `send.go` and the four surfaces that call them | one message, its recipients and form, what each transport took | `send_email`, `reply_message`, `send`, `reply`; `TrySendChain`, `SMTPSend`, `resendRequest` | `SendMail`, abstract: `Outbox` |
| OpenPGP keys and secrets, `internal/pgp`, `internal/secret` | gpg's key listing; credential stores | `CheckKeyExpiry`, `DetachSignBody`, `Get`, the password chains | `Keys` |
| contacts, `internal/contacts` | `contacts.json`, `contacts.json.tmp` | `Find`, `FindByAddress`, `CheckPermission`, `Add`, `Remove`, `write` | `Contacts` (operators), `MailTools` (file steps), `MailHandler` (the daemon's view) |
| identity and email configuration, `internal/identity`, `email/config.go` | `ethos.yaml`, the active and default files, `email.json` per identity | `Resolve`, `EnsureIdentityDir`, `LoadIdentityConfig`, `switch_identity`, `identity set` | `Identity` (operators), `MailTools` (file steps) |
| IMAP client, `internal/email/imap.go`, and message formats | folder, flags, UIDs; parts and signatures of a message | list, search with fallbacks, fetch, move, flag; trust classification | `Mailbox` (operators), `MailTools` (exchanges) |
| MCP tools and email commands, `internal/mcp/tools.go`, `cmd/beadle-email` | a call in progress | the tools and commands that show or change mail, contacts or the identity | `MailTools`, `SendMail`, `EnableRepo` |
| enable and disable, `internal/enable`, `permissions`, `claudemd` | `CLAUDE.md`, guide, marker, `settings.json`, `.beadle-granted.json`, three locks | `Enable`, `Disable`, purge, rollback | `EnableRepo`, `ClaudeMd` (operators) |
| WebSocket bridge; session roster; tables; install, doctor and registration; test servers | | | not modelled, see section 6 |

How they interact. The poller's goroutine counts unread mail, stores the count,
and calls the handler *on its own goroutine*. The handler opens a second
connection, lists as many of the newest unread messages as the count has grown
by, passes each through the contact, permission and trust gates, and starts a
worker goroutine per message if the semaphore has a slot. Each worker runs an
executor; the executor runs stages of the commands that were loaded, and
verified, when the daemon started, and saves its record through the store,
whose prune goroutine removes aged records meanwhile without a lock. Shutdown
stops poller, handler and prune goroutine, in that order. The next process
finds only the directory, the mailbox and the contacts.

Beside the daemon, an MCP server and any number of command lines work on the
same mailbox and the same files. They share no lock: contacts, identity and
email configuration are read and replaced file by file. Only the files of an
enabled repository are locked, because other tools edit them as well.

What is hard there: a crash between any two saves; saves that fail and are only
logged; a count taken on one connection and used on another; `Stop` racing
`SetInterval`; `Prune` deciding and removing in two steps; pipes between
processes that die in any order; a server that took a message and whose answer
is lost; four files that must change together and are written one by one; a
file that is signed, edited and loaded by three processes; permissions checked
on one version of a file and applied to another. `PROJECT.json` lists these
hazards line by line with the properties that would catch them.

## 2. The modules

**Executor** (with **PipelineLifecycle**). One worker per pipeline. `pc` is the
place in `Run`; between two values of it there is at most one effect that the
outside sees (a save, a runner call), so a crash can fall between any two. All
error returns go through `Fail`, which is status, error and save, then
`FireElse`. `Save` either replaces the record or fails and leaves it. `Crash`
loses the memory of every worker; `Boot` and `Sweep` are `LoadRunning` and
`sweepStalePipelines`, with records that cannot be read or written. A command
call is represented by the way it fares (`Kinds`); wording of contracts and
errors is left out. Marshalling the metadata into the first pipe cannot fail
(a map of strings) and is left out.
`PipelineLifecycle` is what an observer of the directory and of the outgoing
mail is promised; `Executor` implements it.

**PipelineStore.** The directory at the granularity of system calls: open and
truncate the temp file, write, rename, each of which may fail or be the last
thing the process does. The prune pass reads a directory listing, looks at one
entry, and removes it in a later step. The clock is two flags, "older than an
hour" for temp files and "older than the retention" for records.

**PruneLoop.** `StartPruning` and `StopPruning` called by any number of
goroutines. `StopPruning` holds the mutex while it waits; a critical section
without a wait is one step.

**Poller.** Each critical section of `p.mu` is one step, so `Stop` is three
steps and `SetInterval` several, as in the code. The goroutine's poll is count,
record, notify, publish. A woken waiter that finds the wait group reused is Go's
panic, kept as `panicked`. A failed `SaveConfig` in `set_poll_interval` leaves
everything as it is and is a stuttering step. `Shutdown` follows the last tool
call: the MCP server (mcp-go, external) drains its calls before `Serve` returns.

**MailHandler** and **MailDaemon.** Messages have a sender and a *seal*: no
signature, Proton's headers, a bad signature, one by the registered key, one by
another key. `VerifyTrust` is the code's decision table. `MailDaemon` makes the
poller's `Notify` call `BeginCallback` and hold back `Publish` until the
callback is over, and adds signal, kill and restart. `Disturb` says what the
outside world may do in a run. The daemon never marks mail as read.

**CompoundRun.** `os/exec` is modelled from its use: per process a goroutine
that feeds stdin and one that drains stdout, and a `Wait` that returns when
process and copiers have ended. `io.Pipe` is unbuffered: a write is over when it
is read or an end is closed. Data is counted in chunks.

**SendMail** (with **Outbox**, **Contacts**, **Keys**). One message. A surface
is the sequence of its stages (`Route`): the two tools check permissions and
look for encryption keys, the two commands do neither. `Resolve`, `Gate` and
`EncryptKeys` use the operators of `Contacts`, which are the code's loops over
the file; the property `RecipientsWritable` compares them with the documented
precedence, stated separately (`Selected`). After `Chain` every SMTP exchange
is a step that may fail, and the server's taking of the message is a step of its
own, so its answer can be lost at the final reply or at QUIT. A header part is
represented by whether it holds a CR or LF (`taint`). The quoted body of a reply
is left out. `Outbox` is what the caller is promised about one message.

**StageRun.** One stage under either runner, one step per call to the system, to
ethos or to the child; each may fail, the removal of a temporary file included
(`stuck` names those). The child prints and ends when it likes;
a timeout or a shutdown is an end with exit status 1.

**CommandFile**, **CommandSigning** and **CommandDaemon.** A recipe is a record
of the fields that are validated, with absent ones distinguishable from
defaults, because defaults are written into a command *after* its bytes were
taken. gpg is the operator `VerifySignature` over the listing of a key. `sign`
reads the file twice and renames in the end, and the editor may save between
any two of these steps. One `sign` command runs at a time. `CommandDaemon` lets
the daemon start, load and run stages while all of this goes on; commands with
`steps` belong to `CompoundRun`.

**Mailbox**, **Identity**, **Filter** and **MailTools.** A handler is the
sequence of its stages (`Handlers`), a call holds the index of its stage in
`pc`, and one action is one stage, so two callers interleave wherever the code
does I/O. `Filter` is the loop that keeps the elements that pass a test. The MCP server and the
command line run the same stages with the code's differences: the server fails
without an identity where the command line goes on with the root files, only
the server checks permissions, only the server has an override. The three
identity files are read in one step. File descriptors follow the inode: a
writer whose temp file was renamed by another writes on into `contacts.json`.
All configurations name one mailbox with one folder; single-message tools are
not given the UID 0. Text of headers and bodies is abstracted to the parts,
signatures and flags the code decides on. A signature is good, bad or cannot be
split from the message; `Verify` is the exit status of gpg, which may fail for
any message at any time: its binary may be absent, an import or the export of
keys may fail, the key may be unknown.

**ClaudeMd** and **EnableRepo.** `CLAUDE.md` is a sequence of lines, some inside
code blocks, with or without a final newline; an import appended to an
unterminated line without a separator would run together with it (`joined`).
What is the user's is kept in the ghost `prose`: all lines but the imports that
stood at top level. Lock A is beadle's own, taken for
the whole call; locks B (`CLAUDE.md`) and C (`settings.json`) are taken by every
tool for one read-modify-replace. Every write may fail and every process may
die between two of them. The owner edits between calls; edits of
`settings.json` by hand while a call is running ignore lock C and are not
modelled. The refusal to enable a home directory changes nothing and is left
out.

## 3. The runs

| run | instance | shows |
|---|---|---|
| `executor` | one pipeline, plans of up to 3 calls of 6 kinds, 4 states of the reply command | all safety properties of `Run` and the sweep, refinement of `PipelineLifecycle`, end of `Stop` if calls of runners return |
| `store` | one pipeline, 2 crashes, saves of any duration | no torn record, nothing lost early, nothing kept for ever |
| `prune_loop` | 3 callers, 3 goroutines over time | one reachable goroutine, every stop returns |
| `poller` | 1 caller at a time, 2 intervals, counts 0, 1, 9, 10, 60 | the poller is what was asked for; the marker follows the count |
| `daemon_safe` | 2 messages, 1 worker, every disturbance, non-local IMAP host | only authorised mail is acted on |
| `daemon_live` | 2 messages, 2 workers, 1 restart | all authorised mail acted on, none twice, shutdown ends if workers do |
| `compound` | 3 processes, 1 chunk each, pipes of 1 chunk, a cap of 0 | result whole or flagged, cause named, nothing left, clean-up never stuck |
| `compound_hang` (violation) | 2 processes that read all of their input | a run that never returns |
| `send` | 4 surfaces, 3 contact books, 6 requests, 6 originals, 4 key listings, 1 edit of the contacts, an attachment limit of 3 | copies explained, recipients writable, headers well formed, refinement of `Outbox` |
| `enable` | 2 processes of beadle and another tool, 2 rules, 3 calls, 2 crashes or write errors, 1 edit by others; symmetric in the processes | marker implies import, grants recorded, the user's lines and others' rules kept, outcomes true |
| `commands` | 2 files, 2 keys, 3 recipes, 2 edits, 2 signings, 2 starts, 1 stage, output of up to twice the cap | what runs was signed by the owner, green signatures load, signatures expire, stage answers true |
| `tools` | an MCP server and a command line, 4 messages, pages of 1, 2 and 5 from 0, 1 and 3, 1 `switch_identity` | authorised reading, truthful listings, earned trust, true counts, edits kept |

Why the bounds are enough. In `Executor` pipelines share nothing but the
process, and the theorems hold for any number; three calls give a first, a
middle and a last stage, which is what the carried truncation flag needs.
Restarts and crashes are unbounded there. In `PipelineStore` files of different
pipelines are different, and one pipeline has two entries for a pass to look
at; two crashes let one interrupt the recovery from the other. `MaxLoops` only
bounds how often the prune goroutine is started anew. Two polling slots are
needed for the race of section 4 and never exhausted with one caller. Two
messages are the smallest mailbox in which the wrong one can be listed, one
worker slot the smallest pool that can be full; the fetch cap of 20 is scaled
down with them. Three steps have one in the middle, with an `io.Pipe` on both
sides; a cap of 0 chunks is the smallest output that is cut.

In `send` the books differ in who may be written to through an exact entry, a
narrow and a wide pattern, so an edit can give and take away the permission of
each recipient; attachments of 2 and 1 units fill the limit exactly, 2 and 2
exceed it only together. In `enable` three calls are an enable, a disable and
the call of a third party between or after them; two faults are a marker that
cannot be written and a rollback that fails or dies as well. In `commands` two keys are an owner and another, and a file can be signed, edited
and signed again. `tools` does not start from one state but from several
(`MCSetups`), each with the calls that meet in it: readers with identity
changes, listings with moves and arrivals, editors with editors, and the first
copy of the root files with whoever else needs it. Pages start inside, at and
behind the end of four messages.

Deadlock is checked for `executor`, `store`, `send`, `enable` and `commands`;
the end of a call and a state in which nobody has anything to do are explicit
stuttering steps there. The other specifications have states in which the system has
really stopped (a process that has exited for good, a call that has returned,
callers that have made all their calls).

Fairness. Weak fairness of a goroutine that can run is what Go's scheduler
gives. Strong fairness is used where a `select` is taken again and again with a
closed channel ready, where a mutex is passed among waiters (Go's mutex starves
nobody), and for the mail server or the file system answering again in the end. Nothing
is assumed of callers, signals, mail, the owner or crashes, and nothing of calls
that leave the executor: no fairness makes the planner or a runner return
(`Calls` in `Executor`, `Work` in `MailDaemon`), because their timeouts do not
bound them, as `compound_hang` shows. `StopEnds` therefore says that *if* no
worker stays in such a call for ever then `Stop` returns, and `ShutdownEnds`
that *if* every worker ends again and again then the daemon exits: what the
executor, the handler and the poller do on their own always comes to an end. The
conditions fail on the trace of `compound_hang`, and then `Stop` waits for ever
(`handler.go:86`). `AuthorisedMailRuns` needs neither: a mail handed to a worker
has been acted on, and one for which no worker is free is dropped. `send`, `enable`, `commands` and `tools` are
about safety: nothing in them waits for another process except for the locks
of `enable`, which are always taken in the order A, then B or C, never B and C
together.

## 4. Findings

- `compound_hang`: the timeout kills processes, not copiers; a stdout copier
  blocked in an `io.Pipe` write whose reader has gone keeps `Wait` from
  returning. The start-failure path closes all pipe ends; the normal one does not.

The following were met while modelling. They are behaviours of the models that
a property had to state as an exception or that a run excludes; each is given
as a trace.

Polling and acting on mail:

- *Overlapping `SetInterval`* (`poller.go:164`). `SetInterval` is stop, store
  and start in separate critical sections. Callers 1 and 2 both finish their
  stop; 1 stores and starts goroutine A with channel a; 2 stores and starts
  goroutine B with channel b, overwriting a. The next `Stop` closes b, and
  waits for A as well, for ever. `StopPruning` has the same shape, documents
  the race and avoids it by holding its mutex; `prune_loop` and its proof show
  that this is enough. `poller` therefore has one caller at a time.
- *A failed first poll* (`poller.go:266`). A poll that fails sets `lastCheck`.
  After a restart with mail already waiting: first poll fails, second poll finds
  the count n, takes 0 as the previous count because it is not "first", and
  prompts for all n. The daemon then acts again on mail of its previous run. In
  `daemon_live` the first poll of a process succeeds.
- *Count, then list* (`handler.go:124`). The poll counts message 1; message 2
  arrives; the callback lists one message, the newest, and acts on 2. The next
  poll counts one more and the callback lists 2 again: 1 is missed, 2 is acted
  on twice. In `daemon_live` no mail arrives between count and list.
- *A failed callback* (`handler.go:108`). The poll stores the new count; the
  callback's connection fails and it returns; the next poll finds the count
  unchanged. Nothing prompts for that mail again until more arrives.

Pipelines and stages:

- A pipeline that ran to its end and whose last save failed is labelled "daemon
  stopped while pipeline was running" by the next startup's sweep.
- `Prune` may remove the temp file that the next save of the same pipeline has
  just reopened: that save's rename fails, is logged, and the older record stays.
- A mission stays open after a worker's error, and also when ethos has created
  it and its id cannot be read; nothing closes it later.

Sending: the relay takes a message, and the final reply or the answer to QUIT is
lost. Unsigned mail is then sent a second time through Resend; signed mail is
reported as failed. `CopiesExplained` says that this, and a lost Resend
response, are the only ways to two copies or to a false failure.

Files without a lock:

- *Contacts.* Two processes load the book, edit it and rename: the later rename
  drops the earlier edit. Both write to `contacts.json.tmp`; the second opens
  (and empties) it between the first one's write and rename, so the half-written
  file gets the final name, and every later load fails. `EditsKept` holds for
  edits that neither another editor nor a first copy overlapped.
- *Migration.* `EnsureIdentityDir` creates the copy and then fills it. A crash in
  between leaves an empty file, which counts as present and which every later
  call rejects. A second process in that moment reads an empty file or gets
  "file exists"; a copy that fails is removed by name. With three callers this
  costs an edit that no editor overlapped: A's first copy is there when B looks,
  then fails and is removed; B finds no book and makes one; C has begun the copy
  anew meanwhile, and B's rename puts its book over it; A now adds a contact and
  is told so; C's copy fails and removes the file by its name. That is why
  `EditsKept` excepts first copies as well as editors. The attempt to prove it
  with editors alone showed this; the run has only two callers.
- *`identity set`* empties `ethos.yaml` before it writes it; whoever resolves in
  between falls through to the global identity. `ReadAuthorised` counts that
  identity as one that was to be used.
- *`sign`.* An editor's save between the two reads is caught by the round trip;
  a save between the second read and the rename is overwritten.

Listings: when the search for unread mail of a repository fails, the retry
covers all repositories without a degraded notice; the fallback to recent mail
ignores the offset, and the command line's `--json` output drops the notice.
`ListingTruthful` judges a retried listing by the query it was widened to.

Trust: the documents say that `untrusted` means a signature that is invalid or
by an unknown key (`README.md:277`, `channel.go:16`, `trust.go:24`) and
`unverified` that there is none. `Verify` takes gpg's exit status and returns no
error when gpg cannot be started, when the attached key cannot be imported or
when the export of the keyring fails (`verify.go:67`, `74-76`, `95-97`,
`200-208`), so a good signature is labelled `untrusted` wherever gpg is missing
or broken; and a signed message that cannot be fetched again or split stays
`unverified`. `TrustEarned` claims no more than that: `verified` needs a good
signature, `untrusted` some signature gpg could be asked about.

Enabling: if `settings.json` is deleted by hand, or a crash falls between record
and settings, the record lists more than was granted. A rule that the owner then
adds by hand and that is listed there is removed by the next disable.
`ForeignSurvives` counts such a rule as beadle's.

## 5. Proofs

Every theorem is of the form `Spec => []P` (or an action property, or a
refinement) and holds for every value of the constants that the assumptions
allow. Each proof module defines an inductive invariant `IInv`, which TLC checked
on the run's instance before it was proved, proves it per action, and derives
the properties from it. The last column is what makes the properties inductive.

| module | theorem: property | what the inductive invariant adds |
|---|---|---|
| `ExecutorProofs` | `TypeCorrect`; `AtMostOneAnswer`: `OneAnswer`; `NoStageTwice`: `StagesOnceInOrder`; `NoRunBeforeValidation`; `CompletedRecordsAreTrue`: `CompletedIsTrue`; `Refinement`: `ImplementsLifecycle` | per worker, that stage, status in memory and place in `Run` agree, which runners have been invoked there, which answers sent, what the record may say; for the process, that nothing is active while it is down or sweeping |
| | `PipeAndFlagAgree`: `PipeCarriesItsFlag`; `NoSilentEnd`: `DoneMeansAnswered`; `SweepLeavesNoneRunning`: `NoStaleRunning` | a second layer: truncated outputs lie before the current stage and the pipe's source is the last process stage; every "running" record has a worker that will save again, a sweep to come, or a failed file operation to account for it |
| `PipelineStoreProofs` | `RecordsWhole`: `FinalNeverTorn`; `NothingLostEarly`: `OnlyAgedEndedRemoved` | what is about to be renamed is what the save wrote, or gone; a record is "ended" only when its worker has nothing but "ended" left to save, so what `Prune` read stays true until it removes |
| | `AtMostOneLoop`: `OneReachableLoop`; `WaitGroupNotMisused`; `Settled` | the mutex is held exactly by a waiting caller; while it is free every live goroutine is the one `pruneStop` names |
| `CompoundRunProofs` | `WholeOutput`: `SuccessIsWhole`; `ErrorNamesTheCause`: `CauseNotVictim`; `NoLeak`: `NothingLeaks` | what the last step wrote is in its pipe, in the copier's hands or counted; a process is killed only after the timeout or after an error was noticed; `Wait` has returned only for what has ended |
| `CommandDaemonProofs` | `OnlySignedRuns`: `RunsAsSigned`; `SignedFilesLoad`: `GreenLoads`; `NoEverlastingSignature`: `SignaturesExpire`; `StagesAnswerTruly`: `StageAnswerTrue` | every signature in any file was really made; between its steps `sign` holds a signature over what it will write, by a key that passed the expiry check and that time alone can only expire; per position of a stage, what child, files and mission may be |
| `SendMailProofs` | `NoUnexplainedCopy`: `CopiesExplained`; `OnlyWritableRecipients`: `RecipientsWritable`; `CopiesWellFormed`: `CopyWellFormed`; `KeepsThePromise`: `ImplementsOutbox` | per position of the chain, which copies are out and which answers lost; past the gate, that the contacts this call loaded were in force during it and let all recipients be written to |
| `MailDaemonProofs` | `OnlyAuthorisedRuns`: `OnlyAuthorised` | the contacts a callback goes by, and those of the file, have been in force since it began (`SinceInv`) |
| | `NothingTwice`: `AtMostOnce` | there is one polling goroutine at most and a callback runs on it (`LoopInv`); all messages acted on are among the first k, of which at most as many are unread as the stored count says (`CountInv`) |
| | `PollerSettles`: `SettledPoller` | what is left of the goroutine at each place of a call, from one that only this call can stop to none (`CallInv`), and the poller between calls (`PhaseInv`) |
| `MailToolsProofs` | `ReadIsAuthorised`: `ReadAuthorised` | at each stage, that the identity and the book a call holds were in force during it, and after the gate that this book lets the identity read what it is about to show (`ReadInv`) |
| | `ListingsAreTruthful`: `ListingTruthful` | the folder is in the order of its UIDs (`BoxInv`); a call that has the folder in hand has its matches, its page of them or the way there (`Ready`, `ListInv`) |
| | `TrustIsEarned`: `TrustEarned` | every level of every row is earned at once (`TrustInv`), not only in the answer |
| | `CountsAreTrue`: `CountsTrue` | ids are what was asked for, each once, and what was hit is among them (`CountInv`) |
| | `EditsAreKept`: `EditsKept` | files and books in hand are whole, torn or absent (`FilesInv`, `HeldInv`); a torn file has been spoilt or is being filled (`TornInv`); an unspoilt file has one writer, who owns the temp file (`WriterInv`); nobody changes the file of an editor that is alone (`AloneInv`) |
| `EnableRepoProofs` | `LooksEnabledIsEnabled`: `MarkerMeansImport`; `NoOrphanGrant`: `GrantsRecorded`; `OthersKeepTheirs`: `ForeignSurvives`; `ReportsAreTrue`: `OutcomeHonest` | who holds which lock at which step; what was read under a lock still stands while it is held; what the stages so far brought about stands while lock A is held; beadle's rules are recorded and nobody else's are; `CLAUDE.md` without its top-level imports is what it was at the start |

How the arguments go, where there is more to them than cases over actions:

- *Executor.* `Frame` shows that a worker's part of the invariant depends on its
  own state only. The refinement then goes step by step: a save is `Record` or a
  stutter, invoking the reply is `SendResult` or `SendApology`.
- *Sending.* The refinement maps a message to the form its caller asked for
  (`FormOf`) and shows every exchange to be a stutter except those in which a
  server takes the message or the caller is answered.
  `OnlyWritableRecipients` needs that the loop of `FindByAddress` finds the
  documented contact (`FoundIsSelected`), `CopiesWellFormed` that tagging a
  tagged subject changes nothing (`TaggedOnce`).
- *Command files.* `SealedLoads` is the agreement between `sign` and `load`: a
  signature over a recipe whose defaults validate, by a key whose records all
  carry an expiry, is accepted until one of them passes.
- *Acting once.* The handler keeps no record of what it has done; it is told by
  how much the unread count rose and lists that many of the newest unread
  messages. `Covers(k, n)` says that everything acted on is among the first k
  messages and that at most n of these are still unread. It holds for the stored
  count, is passed on by `PollRecords` to the previous count, and by `notify` to
  what the window leaves out; `NewestBeyond` then counts: a window of c messages
  out of which all but c cover what was done starts beyond k. Mail that arrives
  between count and list, mail marked unread again and a failed first poll each
  break the chain, which is why the theorem excludes them (`Disturb`).
- *Poller.* `PollerSettles` is about the poller of the MCP server, a second
  instance `M` of `Poller` in the same module, with any intervals and counts but
  one `set_poll_interval` call at a time (`Sequential`): with two it is false
  (section 4).
- *Tools.* There are some thirty actions and five properties. Each action is
  described once, by the stage it is at and the fields of the call it writes
  (`Moves`), and what a stage may do to the fields a property is about is one
  operator per property (`FlowWork`, `TrustWork`, `CountWork`, `ReadWork`,
  `ListWork`, `EditWork`, together `Works`). From there a property sees no
  actions, only a call that starts, stops or works while the others are steady
  (`Acts`). `Layout` and `Places` say where the stages stand in each handler, so
  that order in the handler becomes arithmetic on `pc`. For `EditsKept`, where
  calls meet in the file system, `StepTouches` sorts every step into seven kinds
  by what it does to the files (`FileActs`).
  The page of a listing is proved from the loops: `Only` keeps order and is
  complete, `window` is the page counted from the newest (`PageOf`),
  `parseUIDs` keeps each id once, and `RemoveContact` takes out exactly the
  contact `Find` found.
- *Enabling.* A step of one process leaves the others' part of the invariant
  alone if it changes what a lock guards only under that lock (`Calm`,
  `OthersKeep`), so every action is treated once, for its own process (`Fine`).
  About the text of `CLAUDE.md`: taking out or appending a plain top-level line
  moves no other line into or out of a code block (`Removing`, `Adding`). Both
  follow from `FollowStep`, which runs the scanner over the file with and
  without the line side by side. That the user's lines are the same before and
  after (`ProseStays`) is an equation between what two ways of taking lines out
  leave: taking out first one line and then all other imports is taking them out
  at once (`TwoShrink`), and what goes determines what is left (`SameRest`).

*Loops.* `FindByAddress`, `fencedRanges`, `remove`, `Only` and `parseUIDs` are
recursive functions.
What they compute is proved by induction on a set of indices: `LeastNatural`
gives a least element from the well-foundedness of `<`, `InductionTo` turns that
into induction up to `n`, and `LoopRuns` says that a function defined by its
value at 0 and by its step exists and has these values.

*Assumptions* are those on the constants, which TLC evaluates in the runs. They
say what type the inputs have, and of `EnableRepo` also that `prose` is given as
the file's lines without its top-level imports, which is what that ghost means
(the instance for TLC writes these lines out); of `MailTools` that UIDs grow and
that the contacts files start whole with no name in a book twice, as `Store.Add`
keeps them.

*Only model-checked.* The liveness properties and `CleanupNotStuck`: fairness
and `ENABLED` are outside the prover's reach.
`ValidatedBeforeRun`, `NoMisuse`, `SettledPruning` and the type invariants of
`Executor` and `PruneLoop` are the other way round, established by the proofs
alone.

## 6. Not modelled

- *WebSocket bridge* (`internal/mcp/ws.go`): two copy loops around an external
  protocol library whose own goroutines decide how a session ends; what the
  code in the repository decides is too little to check.
- *Session roster*: reads ethos's session files for display; nothing decides on
  them.
- *Formatting*: tables, widths, wording of answers and of the contracts, prompts
  and missions given to a worker.
- *Parsing of text*: MIME, headers, addresses, Markdown and YAML are represented
  by the parts the code decides on. That the parsers find these parts is a
  matter for tests.
- *`install`, `doctor`, registration with Claude*: one-shot calls of other
  programs.
- *Read-only tools* (`list_folders`, `list_contacts`, `find_contact`, `whoami`):
  no state and no decision of their own.
- *Test servers and fixtures.*
- *Two `sign` commands at once*, which share one `.signing` file, and edits of
  `settings.json` by hand while a call holds its lock.
