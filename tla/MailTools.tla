------------------------------ MODULE MailTools -----------------------------
(***************************************************************************)
(* The tools and commands that read mail, change mail and edit contacts:   *)
(* internal/mcp/tools.go and identity_tools.go in the MCP server, and      *)
(* email_cmd.go, contact_cmd.go and identity_cmd.go on the command line.   *)
(* They share a mailbox, the files of each identity and the repository's   *)
(* choice of an identity, and nothing locks any of these.                  *)
(*                                                                         *)
(* A handler is the sequence of its stages; a call holds its place in it.  *)
(* A failed stage ends the call with an error.  What a caller asks for is  *)
(* chosen at the stage that uses it.                                       *)
(***************************************************************************)
EXTENDS Contacts, Identity, Mailbox

CONSTANTS
    Callers,     \* callers, each making one call at a time
    Tools,       \* the callers served by the MCP server; others: command line
    Setups,      \* what the behaviours start from: plan, names and files, and
                 \* how many calls a caller makes
    Emails,      \* the addresses of the identities
    FirstInbox,  \* the messages in the inbox at the start, oldest first
    Queries,     \* [repo, unread, words]
    Pages,       \* [count, offset]
    IdLists,     \* the ids a batch may name, 0 for one that is invalid
    PartNumbers, \* the parts a caller may name
    Newcomers,   \* the contacts that may be added, without permissions
    MaxSwitches  \* uses of switch_identity

Root == "root"
None == "none"
Book(b) == [st |-> "ok", book |-> b]
Absent == [st |-> "absent", book |-> <<>>]
Torn == [st |-> "torn", book |-> <<>>]

\* A book is a slice; Store.Add lets no name into it twice.
IsBook(b) ==
    /\ b \in Seq(Range(b))
    /\ \A i, j \in DOMAIN b : b[i].name = b[j].name => i = j

ASSUME IdentityAssumption ==
    /\ Tools \subseteq Callers
    /\ {Root, None, Broken} \cap Emails = {}
    /\ {"", "absent", "empty", Broken} \cap Handles = {}
    /\ EmailOf \in [Handles -> Emails \cup {Broken}]

\* UIDs grow.
ASSUME MailAssumption ==
    /\ DOMAIN Mail \subseteq Nat \ {0}
    /\ FirstInbox \in Seq(DOMAIN Mail)
    /\ \A i \in DOMAIN FirstInbox : FirstInbox[i] = i

ASSUME InputAssumption ==
    /\ Queries \subseteq [repo : BOOLEAN, unread : BOOLEAN, words : BOOLEAN]
    /\ Pages \subseteq [count : Nat, offset : Nat]
    /\ \A ids \in IdLists : ids \in Seq(Nat)

\* The files start whole, save that a configuration may be torn.
ASSUME SetupAssumption ==
    \A s \in Setups :
        /\ {s.names.repo, s.names.active} \subseteq Handles \cup {"absent", "empty", Broken}
        /\ s.names.default \in Emails \cup {"absent", "empty"}
        /\ DOMAIN s.names = {"repo", "active", "default"}
        /\ DOMAIN s.files = Emails \cup {Root}
        /\ \A e \in Emails \cup {Root} :
             /\ DOMAIN s.files[e] = {"email.json", "contacts.json"}
             /\ \/ s.files[e]["contacts.json"] = Absent
                \/ \E b \in {s.files[e]["contacts.json"].book} :
                      IsBook(b) /\ s.files[e]["contacts.json"] = Book(b)

VARIABLES
    plan, left,      \* what each caller calls in this behaviour, how often
    names,           \* the files that name an identity
    override,        \* the MCP server's identityOverride
    files,           \* email.json and contacts.json, per identity and root
    tmp,             \* contacts.json.tmp, per identity and root
    inbox, seen,     \* the folder, and the messages marked as seen
    uidnext,         \* the UID of the next message to arrive
    call,            \* the call in progress or just answered
    switches,
    force, alone,    \* observed: identities and books in force during the
                     \* call; no other editor or first copy of the same file
                     \* during it
    spoilt           \* observed: files that concurrent writers, or a copy
                     \* that broke off, have had their hands on

fileVars == <<files, tmp, spoilt>>
mailVars == <<inbox, seen, uidnext>>
idVars == <<names, override, switches>>
vars == <<plan, left, idVars, fileVars, mailVars, call, force, alone>>

-----------------------------------------------------------------------------
(* The handlers *)

resolveIdentityAndConfig ==
    <<"identity", "stat", "create", "fill", "stat", "create", "fill", "config">>
resolveContext == resolveIdentityAndConfig \o <<"contacts">>
resolveConfig == resolveIdentityAndConfig
resolveContactsPath ==
    <<"identity", "stat", "create", "fill", "stat", "create", "fill">>

SearchMessages == <<"select", "search", "retry", "fetch">>

\* Mutant: the rename comes first.
RenameThenWrite == <<"open", "rename", "write">>

\* Store.write
write == <<"open", "write", "rename">>

listMessages == resolveContext \o SearchMessages \o <<"signatures", "redact">>
searchMessages == resolveContext \o SearchMessages \o <<"signatures", "redact">>
readMessage == resolveContext \o <<"message", "gate", "signatures", "expose">>
downloadAttachment == resolveContext \o <<"raw", "gate", "extract", "expose">>
verifySignature == resolveIdentityAndConfig \o <<"raw", "verify">>
showMIME == resolveIdentityAndConfig \o <<"raw">>
checkTrust == resolveContext \o <<"raw">>
moveMessage == resolveIdentityAndConfig \o <<"id", "move">>
batchMoveMessages == resolveIdentityAndConfig \o <<"ids", "move">>
markMessage == resolveIdentityAndConfig \o <<"id", "mark">>
batchMarkMessages == resolveIdentityAndConfig \o <<"ids", "mark">>
addContact == resolveContext \o <<"add">> \o write
removeContact == resolveContext \o <<"remove">> \o write

listCmd == resolveConfig \o SearchMessages
searchCmd == resolveConfig \o SearchMessages
readCmd == resolveConfig \o <<"message">>
moveCmd == resolveConfig \o <<"id", "move">>
markCmd == <<"ids">> \o resolveConfig \o <<"mark">>
contactAddCmd == resolveContactsPath \o <<"contacts", "add">> \o write
contactRemoveCmd == resolveContactsPath \o <<"contacts", "remove">> \o write
identitySetCmd == <<"truncate", "name">>

Handlers ==
    [list_messages |-> listMessages, search_messages |-> searchMessages,
     read_message |-> readMessage, download_attachment |-> downloadAttachment,
     verify_signature |-> verifySignature, show_mime |-> showMIME,
     check_trust |-> checkTrust, move_message |-> moveMessage,
     batch_move |-> batchMoveMessages, mark_message |-> markMessage,
     batch_mark |-> batchMarkMessages, add_contact |-> addContact,
     remove_contact |-> removeContact, list |-> listCmd, search |-> searchCmd,
     read |-> readCmd, move |-> moveCmd, mark |-> markCmd,
     contact_add |-> contactAddCmd, contact_remove |-> contactRemoveCmd,
     identity_set |-> identitySetCmd]

Searches == {"search_messages", "search"}
Listings == Searches \cup {"list_messages", "list"}
Editors == {"add_contact", "remove_contact", "contact_add", "contact_remove"}
Changers == {"move_message", "batch_move", "mark_message", "batch_mark", "move", "mark"}

NoQuery == [repo |-> FALSE, unread |-> FALSE, words |-> FALSE]

Idle ==
    [tool |-> None, pc |-> 0, ok |-> FALSE,
     id |-> None, file |-> "email.json", fd |-> None, buf |-> Absent, \* resolving
     book |-> <<>>, new |-> <<>>, want |-> <<>>,                \* contacts
     q |-> NoQuery, page |-> [count |-> 0, offset |-> 0],       \* listing
     view |-> <<>>, sel |-> <<>>, at |-> <<>>, unseen |-> {}, degraded |-> FALSE,
     total |-> 0, rows |-> <<>>, check |-> <<>>, trust |-> <<>>, shown |-> {},
     ids |-> <<>>, asked |-> {}, hit |-> {}, n |-> 0, exact |-> TRUE] \* changes

\* pc is the stage a call is at, 0 when it is over.
Running(c) == call[c].pc > 0
At(c, stage) == Running(c) /\ Handlers[call[c].tool][call[c].pc] = stage

\* The call r of c after n stages, to the end if there are no more.
After(c, n, r) ==
    LET pc == call[c].pc + n
        over == pc > Len(Handlers[call[c].tool])
    IN  [r EXCEPT !.pc = IF over THEN 0 ELSE pc, !.ok = over]

Skip(c, n, r) == call' = [call EXCEPT ![c] = After(c, n, r)]
Go(c, r) == Skip(c, 1, r)

\* The call ends with an error.
Fail(c) == call' = [call EXCEPT ![c] = [Idle EXCEPT !.tool = call[c].tool]]

Mine(c) == files[call[c].id]

-----------------------------------------------------------------------------
(* Identity, migration, configuration, contacts *)

Begin(c, t) ==
    /\ call[c] = Idle /\ left[c] > 0 /\ t \in plan[c]
    /\ left' = [left EXCEPT ![c] = @ - 1]
    /\ call' = [call EXCEPT ![c] = [Idle EXCEPT !.tool = t, !.pc = 1]]
    /\ UNCHANGED <<plan, idVars, fileVars, mailVars>>

\* The answer has been read.
Finish(c) ==
    /\ call[c].tool # None /\ ~Running(c)
    /\ call' = [call EXCEPT ![c] = Idle]
    /\ UNCHANGED <<plan, left, idVars, fileVars, mailVars>>

Unmoved == UNCHANGED <<plan, left, idVars, fileVars, mailVars>>

\* The override wins in the MCP server.  Without an identity a tool fails; a
\* command goes on with the root files, which need no migration.
ResolveIdentity(c) ==
    LET who == IF c \in Tools /\ override # None THEN override ELSE Resolve(names)
    IN  /\ At(c, "identity")
        /\ IF who # Broken THEN Go(c, [call[c] EXCEPT !.id = who])
           ELSE IF c \in Tools THEN Fail(c) ELSE Skip(c, 7, [call[c] EXCEPT !.id = Root])
        /\ Unmoved

\* EnsureIdentityDir, for email.json and then for contacts.json.
Stat(c) ==
    LET f == call[c].file
    IN  /\ At(c, "stat")
        /\ IF copyNeeded(Mine(c)[f].st, files[Root][f].st)
             THEN Go(c, [call[c] EXCEPT !.buf = files[Root][f]])
             ELSE Skip(c, 3, [call[c] EXCEPT !.file = "contacts.json"])
        /\ Unmoved

\* The stages that are left of EnsureIdentityDir.
Unmigrated(c) == IF call[c].file = "email.json" THEN 5 ELSE 2

\* O_EXCL: somebody else's copy is an error, which a command survives on the
\* root files.
Create(c) ==
    LET f == call[c].file
    IN  /\ At(c, "create")
        /\ IF Mine(c)[f] = Absent
             THEN /\ files' = [files EXCEPT ![call[c].id][f] = Torn]
                  /\ Go(c, [call[c] EXCEPT !.fd = "file"])
             ELSE /\ UNCHANGED files
                  /\ IF c \in Tools THEN Fail(c)
                     ELSE Skip(c, Unmigrated(c), [call[c] EXCEPT !.id = Root, !.buf = Absent])
        /\ UNCHANGED <<plan, left, idVars, tmp, spoilt, mailVars>>

Fill(c) ==
    LET f == call[c].file
    IN  /\ At(c, "fill")
        /\ files' = IF call[c].fd = "gone" THEN files
                    ELSE [files EXCEPT ![call[c].id][f] = call[c].buf]
        /\ spoilt' = IF call[c].buf = Torn THEN spoilt \cup {call[c].id} ELSE spoilt
        /\ Go(c, [call[c] EXCEPT !.fd = None, !.buf = Absent, !.file = "contacts.json"])
        /\ UNCHANGED <<plan, left, idVars, tmp, mailVars>>

\* The copy that broke off is removed by name.
FillFails(c) ==
    /\ At(c, "fill")
    /\ files' = [files EXCEPT ![call[c].id][call[c].file] = Absent]
    /\ IF c \in Tools THEN Fail(c)
       ELSE Skip(c, Unmigrated(c) - 1,
                 [call[c] EXCEPT !.id = Root, !.buf = Absent, !.fd = None])
    /\ UNCHANGED <<plan, left, idVars, tmp, spoilt, mailVars>>

LoadConfig(c) ==
    LET got == LoadIdentityConfig(Mine(c)["email.json"].st, files[Root]["email.json"].st)
    IN  /\ At(c, "config")
        /\ IF got = "ok" THEN Go(c, call[c]) ELSE Fail(c)
        /\ Unmoved

\* Store.Load: no file is an empty book, a torn one is an error.
Load(c) ==
    LET got == Mine(c)["contacts.json"]
    IN  /\ At(c, "contacts")
        /\ IF got.st = "torn" THEN Fail(c) ELSE Go(c, [call[c] EXCEPT !.book = got.book])
        /\ Unmoved

switchIdentity(h) ==
    /\ switches < MaxSwitches /\ \E c \in Tools : "switch_identity" \in plan[c]
    /\ switches' = switches + 1
    /\ IF h = "" THEN override' = None
       ELSE override' = IF fromEthos(h) = Broken THEN override ELSE fromEthos(h)
    /\ UNCHANGED <<plan, left, names, fileVars, mailVars, call>>

\* identity set: WriteFile empties the file before it writes it.
TruncateConfig(c) ==
    /\ At(c, "truncate")
    /\ names' = [names EXCEPT !.repo = "empty"]
    /\ Go(c, call[c])
    /\ UNCHANGED <<plan, left, override, switches, fileVars, mailVars>>

NameIdentity(c, h) ==
    /\ At(c, "name")
    /\ names' = [names EXCEPT !.repo = h]
    /\ IF Resolve([names EXCEPT !.repo = h]) = Broken THEN Fail(c) ELSE Go(c, call[c])
    /\ UNCHANGED <<plan, left, override, switches, fileVars, mailVars>>

-----------------------------------------------------------------------------
(* Listings *)

\* What SELECT, or a failed SEARCH, leaves to be fetched by recency.
Recent(view, n, count) == InRange(view, recencySet(n, clampCount(count, n)))

\* The call r about the folder as it is: its messages and the unread ones.
Snapshot(r) == [r EXCEPT !.at = inbox, !.unseen = Range(inbox) \ seen]

\* SELECT and, without criteria and offset, the recency path.
Select(c, q, p) ==
    LET n == Len(inbox)
        asked == Snapshot([call[c] EXCEPT !.q = q, !.page = p, !.view = inbox])
    IN  /\ At(c, "select")
        /\ q.words <=> call[c].tool \in Searches
        /\ CASE n = 0 -> Skip(c, 4, asked)
             [] n > 0 /\ ~HasCriteria(q) /\ p.offset = 0 ->
                  Skip(c, 3, [asked EXCEPT !.sel = Recent(inbox, n, p.count), !.total = n])
             [] OTHER -> Go(c, asked)
        /\ Unmoved

\* Go on with the page of the matches of q, if there is any.
Found(c, stages, q) ==
    LET uids == UIDSearch(q, inbox, seen)
        sel == window(uids, call[c].page.count, call[c].page.offset)
    IN  Skip(c, IF sel = <<>> THEN stages + 1 ELSE stages,
             Snapshot([call[c] EXCEPT !.q = q, !.sel = sel, !.total = Len(uids)]))

Search(c) == At(c, "search") /\ Found(c, 2, call[c].q) /\ Unmoved

\* SEARCH fails.  An unread listing is retried without the repository or
\* fails; any other shows recent mail and says so.  The server may have
\* announced messages that are gone, so that the count of SELECT is too high.
searchFallback(c) ==
    LET q == call[c].q
        view == call[c].view
        recent(v) == [call[c] EXCEPT !.sel = Recent(v, Len(view), call[c].page.count),
                                     !.total = Len(view), !.degraded = TRUE]
    IN  /\ At(c, "search")
        /\ CASE q.unread /\ q.repo -> Go(c, call[c])
             [] q.unread /\ ~q.repo -> Fail(c)
             [] OTHER -> \E v \in {view, Only(view, Range(inbox))} :
                           Skip(c, 2, recent(v))
        /\ Unmoved

Retry(c) ==
    /\ At(c, "retry")
    /\ Found(c, 1, [call[c].q EXCEPT !.repo = FALSE])
    /\ Unmoved

\* fetchSummaries: what is gone by now is missing.
Fetch(c) ==
    LET rows == Only(call[c].sel, Range(inbox))
    IN  /\ At(c, "fetch")
        /\ Go(c, [call[c] EXCEPT !.rows = rows, !.sel = <<>>, !.view = <<>>,
                    !.check = [i \in DOMAIN rows |-> HasSig(Mail[rows[i]].top)],
                    !.trust = [i \in DOMAIN rows |-> ClassifyTrust(Mail[rows[i]].top)]])
        /\ Unmoved

\* A broken connection at any stage that talks to the server.
ServerFails(c) ==
    /\ \E s \in {"select", "retry", "fetch", "message", "raw", "move", "mark"} : At(c, s)
    /\ Fail(c)
    /\ Unmoved

-----------------------------------------------------------------------------
(* One message *)

\* FetchMessage and parseMessage; a message that is gone is an error.
FetchMessage(c, u) ==
    \E decrypts \in BOOLEAN :
        LET e == Plaintext(Mail[u], decrypts)
        IN  /\ At(c, "message")
            /\ u \in Range(inbox)
            /\ Go(c, [call[c] EXCEPT !.rows = <<u>>, !.check = <<HasSig(e)>>,
                                     !.trust = <<ClassifyTrust(e)>>])
            /\ Unmoved

FetchRaw(c, u) ==
    /\ At(c, "raw")
    /\ u \in Range(inbox)
    /\ Go(c, [call[c] EXCEPT !.rows = <<u>>,
                !.trust = <<IF call[c].tool = "check_trust"
                              THEN ClassifyTrust(Mail[u].top) ELSE "unverified">>])
    /\ Unmoved

May(c, u) == "r" \in RightsOf(call[c].book, Mail[u].from, call[c].id)

\* Deny before anything of the message is exposed.
Gate(c) ==
    /\ At(c, "gate")
    /\ IF May(c, call[c].rows[1]) THEN Go(c, call[c]) ELSE Fail(c)
    /\ Unmoved

\* Where there is a signature the message is fetched again and verified.  A
\* failed fetch, or an error of Verify, leaves the level as it was (outside
\* done); gpg may do its work for some messages (fit) and not for others.
VerifySignatures(c) ==
    LET rows == call[c].rows
        can == {i \in DOMAIN rows : call[c].check[i] /\ rows[i] \in Range(inbox)}
    IN  /\ At(c, "signatures")
        /\ \E done \in SUBSET can : \E fit \in SUBSET done :
             Go(c, [call[c] EXCEPT !.check = <<>>, !.trust = [i \in DOMAIN rows |->
                      IF i \in done THEN Verify(Mail[rows[i]].top, i \in fit)
                                     ELSE call[c].trust[i]]])
        /\ Unmoved

\* verify_signature reports an error of Verify, and otherwise gpg's verdict.
VerifyRaw(c) ==
    /\ At(c, "verify")
    /\ \/ \E gpg \in BOOLEAN :
            LET level == Verify(Mail[call[c].rows[1]].top, gpg)
            IN  level # "unverified" /\ Go(c, [call[c] EXCEPT !.trust = <<level>>])
       \/ Fail(c)
    /\ Unmoved

Extract(c, k) ==
    /\ At(c, "extract")
    /\ IF HasPart(Mail[call[c].rows[1]].top, k) THEN Go(c, call[c]) ELSE Fail(c)
    /\ Unmoved

Expose(c) ==
    /\ At(c, "expose")
    /\ Go(c, [call[c] EXCEPT !.shown = Range(call[c].rows)])
    /\ Unmoved

\* renderMessages keeps the subjects of senders who may be read.
Redact(c) ==
    /\ At(c, "redact")
    /\ Go(c, [call[c] EXCEPT !.shown = {u \in Range(call[c].rows) : May(c, u)}])
    /\ Unmoved

-----------------------------------------------------------------------------
(* Changes to the mailbox *)

OneId(c, u) ==
    At(c, "id") /\ Go(c, [call[c] EXCEPT !.ids = <<u>>, !.asked = {u}]) /\ Unmoved

\* Invalid ids are reported before anything is dialled; no ids at all are an
\* empty success for a tool and an error on the command line.
ManyIds(c, ids) ==
    LET uids == parseUIDs(ids)
    IN  /\ At(c, "ids")
        /\ CASE ids = <<>> /\ c \in Tools -> Skip(c, Len(Handlers[call[c].tool]), call[c])
             [] uids = <<>> /\ ~(ids = <<>> /\ c \in Tools) -> Fail(c)
             [] OTHER -> Go(c, [call[c] EXCEPT !.ids = uids, !.asked = Range(ids)])
        /\ Unmoved

\* A server without UIDPLUS does not say what moved: the count is then 0.
MoveMessages(c) ==
    LET hit == Range(call[c].ids) \cap Range(inbox)
    IN  /\ At(c, "move")
        /\ inbox' = Only(inbox, Range(inbox) \ hit)
        /\ \E exact \in BOOLEAN :
             Go(c, [call[c] EXCEPT !.hit = hit, !.exact = exact,
                                   !.n = IF exact THEN Cardinality(hit) ELSE 0])
        /\ UNCHANGED <<plan, left, idVars, fileVars, seen, uidnext>>

\* STORE echoes every message it touched.
SetSeenBatch(c, flag) ==
    LET hit == Range(call[c].ids) \cap Range(inbox)
    IN  /\ At(c, "mark")
        /\ seen' = IF flag THEN seen \cup hit ELSE seen \ hit
        /\ Go(c, [call[c] EXCEPT !.hit = hit, !.n = Cardinality(hit)])
        /\ UNCHANGED <<plan, left, idVars, fileVars, inbox, uidnext>>

Arrive ==
    /\ uidnext \in DOMAIN Mail
    /\ \E c \in Callers : plan[c] \cap Listings # {}
    /\ inbox' = Append(inbox, uidnext)
    /\ uidnext' = uidnext + 1
    /\ UNCHANGED <<plan, left, idVars, fileVars, seen, call>>

-----------------------------------------------------------------------------
(* Changes to the contacts *)

\* want is what the file should then hold.
Add(c, n) ==
    LET perms == IF c \in Tools /\ n.grant # <<>> THEN call[c].id :> n.grant ELSE <<>>
        card == [name |-> n.name, email |-> n.email, aliases |-> n.aliases,
                 key |-> FALSE, perms |-> perms]
        held == Mine(c)["contacts.json"].book
    IN  /\ At(c, "add")
        /\ IF /\ \A i \in DOMAIN perms : WellFormed(perms[i])
              /\ CanAdd(call[c].book, card)
             THEN Go(c, [call[c] EXCEPT !.new = Append(call[c].book, card), !.want = Append(held, card)])
             ELSE Fail(c)
        /\ Unmoved

\* The tool takes the name of the first contact the query finds; the command
\* takes the query for a name.
RemoveFound(c, q) ==
    LET book == call[c].book
        found == IF c \in Tools THEN Find(book, q)
                 ELSE Only(book, {x \in Range(book) : x.name = q})
        held == Mine(c)["contacts.json"].book
    IN  /\ At(c, "remove")
        /\ IF found = <<>> THEN Fail(c)
           ELSE Go(c, [call[c] EXCEPT !.new = RemoveContact(book, found[1].name),
                                      !.want = Only(held, Range(held) \ {found[1]})])
        /\ Unmoved

SameFile(c, d) == c # d /\ call[c].id = call[d].id

\* WriteFile(contacts.json.tmp): all writers share the name.
OpenTmp(c) ==
    /\ At(c, "open")
    /\ tmp' = [tmp EXCEPT ![call[c].id] = Torn]
    /\ spoilt' = IF \E d \in Callers : SameFile(c, d) /\ (At(d, "write") \/ At(d, "rename"))
                   THEN spoilt \cup {call[c].id} ELSE spoilt
    /\ Go(c, [call[c] EXCEPT !.fd = "tmp", !.file = "contacts.json"])
    /\ UNCHANGED <<plan, left, idVars, files, mailVars>>

\* The data goes where the open file is by now.  Of two writers one may leave
\* its tail behind the other's data.
WriteTmp(c) ==
    LET id == call[c].id
    IN  /\ At(c, "write")
        /\ \E data \in {Book(call[c].new)} \cup (IF id \in spoilt THEN {Torn} ELSE {}) :
             /\ tmp' = IF call[c].fd = "tmp" THEN [tmp EXCEPT ![id] = data] ELSE tmp
             /\ files' = IF call[c].fd = "file"
                           THEN [files EXCEPT ![id]["contacts.json"] = data] ELSE files
        /\ Go(c, [call[c] EXCEPT !.fd = None])
        /\ UNCHANGED <<plan, left, idVars, spoilt, mailVars>>

WriteFails(c) ==
    /\ \E s \in {"open", "write"} : At(c, s)
    /\ Fail(c)
    /\ Unmoved

\* What is open under the two names changes its place.
Moved(fd) == CASE fd = "tmp" -> "file" [] fd = "file" -> "gone" [] OTHER -> fd

Rename(c) ==
    LET id == call[c].id
        after(d) == IF call[d].id = id /\ call[d].file = "contacts.json"
                      THEN [call[d] EXCEPT !.fd = Moved(@)] ELSE call[d]
    IN  /\ At(c, "rename")
        /\ tmp[id] # Absent
        /\ files' = [files EXCEPT ![id]["contacts.json"] = tmp[id]]
        /\ tmp' = [tmp EXCEPT ![id] = Absent]
        /\ call' = [d \in Callers |-> IF d = c THEN After(c, 1, after(c)) ELSE after(d)]
        /\ UNCHANGED <<plan, left, idVars, spoilt, mailVars>>

\* The file is gone already, or the rename fails and the file is removed.
RenameFails(c) ==
    /\ At(c, "rename")
    /\ tmp' = [tmp EXCEPT ![call[c].id] = Absent]
    /\ Fail(c)
    /\ UNCHANGED <<plan, left, idVars, files, spoilt, mailVars>>

-----------------------------------------------------------------------------
\* The process of a caller dies; the override dies with the MCP server.
Crash(c) ==
    /\ Running(c)
    /\ spoilt' = IF At(c, "fill") /\ call[c].fd = "file"
                   THEN spoilt \cup {call[c].id} ELSE spoilt
    /\ call' = [call EXCEPT ![c] = Idle]
    /\ override' = IF c \in Tools THEN None ELSE override
    /\ UNCHANGED <<plan, left, names, switches, files, tmp, mailVars>>

-----------------------------------------------------------------------------
(* Observers *)

Speaks(f) == f \notin {"absent", "empty"}

\* Whom the server should act as: the override, or whoever the first file
\* that says anything names.
Named ==
    CASE override # None -> override
      [] override = None /\ Speaks(names.repo) -> fromEthos(names.repo)
      [] override = None /\ ~Speaks(names.repo) /\ Speaks(names.active) ->
           fromEthos(names.active)
      [] OTHER -> fromDefault(names)

InForce ==
    {[id |-> e, book |-> files[e]["contacts.json"].book, named |-> e = Named] : e \in Emails}

Readers == {"list_messages", "search_messages", "read_message", "download_attachment"}

Editing(c, d) ==
    /\ SameFile(c, d)
    /\ Running(d)
    /\ \/ call[d].tool \in Editors
       \/ At(d, "fill") /\ call[d].file = "contacts.json"

Observe ==
    /\ force' = [c \in Callers |->
         IF c \in Tools /\ call'[c].tool \in Readers THEN force[c] \cup InForce' ELSE {}]
    /\ alone' = [c \in Callers |->
         call'[c].tool \in Editors =>
             alone[c] /\ ~\E d \in Callers : Editing(c, d)']

Init ==
    /\ \E s \in Setups :
         plan = s.plan /\ names = s.names /\ files = s.files /\ left = s.calls
    /\ override = None /\ switches = 0
    /\ tmp = [e \in Emails \cup {Root} |-> Absent]
    /\ inbox = FirstInbox /\ seen = {} /\ uidnext = Len(FirstInbox) + 1
    /\ call = [c \in Callers |-> Idle]
    /\ force = [c \in Callers |-> {}]
    /\ alone = [c \in Callers |-> TRUE]
    /\ spoilt = {}

Resolving(c) ==
    \/ ResolveIdentity(c) \/ Stat(c) \/ Create(c) \/ Fill(c) \/ FillFails(c)
    \/ LoadConfig(c) \/ Load(c)
    \/ TruncateConfig(c) \/ \E h \in Handles : NameIdentity(c, h)

Listing(c) ==
    \/ \E q \in Queries, p \in Pages : Select(c, q, p)
    \/ Search(c) \/ searchFallback(c) \/ Retry(c) \/ Fetch(c) \/ ServerFails(c)

Reading(c) ==
    \/ \E u \in DOMAIN Mail : FetchMessage(c, u) \/ FetchRaw(c, u)
    \/ Gate(c) \/ VerifySignatures(c) \/ VerifyRaw(c)
    \/ \E k \in PartNumbers : Extract(c, k)
    \/ Expose(c) \/ Redact(c)

Changing(c) ==
    \/ \E u \in DOMAIN Mail : OneId(c, u)
    \/ \E ids \in IdLists : ManyIds(c, ids)
    \/ MoveMessages(c)
    \/ \E flag \in BOOLEAN : SetSeenBatch(c, flag)
    \/ \E n \in Newcomers : Add(c, n)
    \/ \E q \in Names \cup Exact : RemoveFound(c, q)
    \/ OpenTmp(c) \/ WriteTmp(c) \/ WriteFails(c) \/ Rename(c) \/ RenameFails(c)

Step ==
    \/ \E c \in Callers : \/ \E t \in DOMAIN Handlers : Begin(c, t)
                          \/ Resolving(c) \/ Listing(c) \/ Reading(c) \/ Changing(c)
                          \/ Finish(c) \/ Crash(c)
    \/ \E h \in Handles \cup {""} : switchIdentity(h)
    \/ Arrive

Next == Step /\ Observe

Spec == Init /\ [][Next]_vars

-----------------------------------------------------------------------------
(* Properties *)

Answered(c, kinds) ==
    call[c].tool \in kinds /\ ~Running(c) /\ call[c].ok

\* Whatever switch_identity, identity set and editors of the contacts do in
\* the middle of it, a tool shows the subject, body or attachment of a message
\* only if an identity that was to be used at some time of the call may read
\* its sender, by that identity's own book as it stood at some time of the call.
ReadAuthorised ==
    \A c \in Tools : Answered(c, Readers) =>
        \A u \in call[c].shown : \E v, w \in force[c] :
            v.named /\ v.id = w.id /\ "r" \in RightsOf(w.book, Mail[u].from, w.id)

\* The messages of seq with at least offset and fewer than offset + count
\* newer ones.
PageOf(matches, p) ==
    {matches[i] : i \in {j \in DOMAIN matches :
        Len(matches) - j \in p.offset..(p.offset + p.count - 1)}}

\* A listing that does not call itself degraded shows exactly the page asked
\* for, of the folder at one moment and in its order, save for messages that
\* have left the folder since; its total counts all matches.  An unread
\* listing never shows read mail and is never degraded.
ListingTruthful ==
    \A c \in Callers : Answered(c, Listings) =>
        LET r == call[c]
            matches == UIDSearch(r.q, r.at, Range(r.at) \ r.unseen)
            page == PageOf(matches, r.page)
        IN  /\ ~r.degraded =>
                 /\ r.total = Len(matches)
                 /\ Range(r.rows) \subseteq page
                 /\ page \cap Range(inbox) \subseteq Range(r.rows)
            /\ r.q.unread => ~r.degraded
            /\ Len(r.rows) <= r.page.count
            /\ \A i, j \in DOMAIN r.rows : i < j => r.rows[i] < r.rows[j]

\* A message is called verified only when gpg had the key and accepted its own
\* signature, untrusted only when it has a signature of its own that could be
\* put to gpg, and trusted only for Proton's headers, whatever is moved or
\* fails between the two fetches.  "untrusted" does not say that the signature
\* is a bad one: Verify says the same when gpg could not check it.
TrustEarned ==
    \A c \in Callers : Answered(c, DOMAIN Handlers) =>
        \A i \in DOMAIN call[c].trust :
            LET m == Mail[call[c].rows[i]]
                level == call[c].trust[i]
            IN  /\ level = "verified" => m.top.ct = "signed" /\ m.top.sig = "good"
                /\ level = "untrusted" => m.top.ct = "signed" /\ m.top.sig # "mangled"
                /\ level = "trusted" => m.top.proton \/ m.inner.proton

\* "a repeated id never manufactures a shortfall": what is reported as changed
\* was changed by this call, full success means all of it, and where the
\* server says what it did the shortfall is the number of messages that were
\* not there, whoever else moves mail meanwhile.
CountsTrue ==
    \A c \in Callers : Answered(c, Changers) =>
        LET r == call[c]
            requested == Len(r.ids)
        IN  /\ r.n <= Cardinality(r.hit)
            /\ r.n = requested => r.hit = r.asked
            /\ r.exact => requested - r.n = Cardinality(r.asked \ r.hit)

\* contacts.json is whole unless one writer opened the temporary file before
\* another had renamed it, or the first copy into the identity's directory is unfinished
\* or broke off; and an edit that is acknowledged, and that neither another
\* editor of the file nor a first copy overlapped, is exactly the change of
\* the file.
EditsKept ==
    /\ \A e \in Emails \cup {Root} :
         files[e]["contacts.json"].st = "torn" =>
             \/ e \in spoilt
             \/ \E c \in Callers : call[c].id = e /\ At(c, "fill")
    /\ \A c \in Callers :
         Answered(c, Editors) /\ alone[c] /\ call[c].id \notin spoilt =>
             files[call[c].id]["contacts.json"] = Book(call[c].want)
=============================================================================
