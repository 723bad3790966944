--------------------------- MODULE CommandSigning ---------------------------
(***************************************************************************)
(* The life of command files: an editor writes them, "beadle-daemon sign"  *)
(* signs one in several steps, "init" names the owner's key, keys expire,  *)
(* and the daemon loads what it trusts at its start.                       *)
(***************************************************************************)
EXTENDS CommandFile

CONSTANTS
    Paths, Order,   \* the *.yaml files and their directory order
    Recipes,        \* what an editor may write
    Listings,       \* what a key may look like
    MaxEdits, MaxSigns, MaxStarts

ASSUME SigningAssumption ==
    /\ MaxEdits \in Nat /\ MaxSigns \in Nat /\ MaxStarts \in Nat
    /\ Order \in Seq(Paths) /\ Listings \subseteq Seq(KeyRecords)

VARIABLES
    docs, signing,          \* each path's file; its .signing file, if any
    config,                 \* daemon.json: "absent", "bad" or the owner's key
    keys,                   \* the listing of each key
    pc, job,                \* the sign command: step; path, key, what it read
    green,                  \* ghost: path -> key it was reported signed by, untouched since
    made,                   \* ghost: every signature ever made
    owner, commands,        \* the daemon: its owner key, the loaded commands
    edits, signs, starts

diskVars == <<docs, signing, config, keys>>
signVars == <<pc, job, green, made>>
loadVars == <<owner, commands>>
signBounds == <<edits, signs, starts>>
signingVars == <<diskVars, signVars, loadVars, signBounds>>

None == "none"
NoFile == [kind |-> "none"]
NoJob == [path |-> None]

SigningInit ==
    /\ docs \in [Paths -> {Document(r, Unsigned) : r \in Recipes}]
    /\ signing = [p \in Paths |-> NoFile]
    /\ config = "absent" /\ keys \in [OwnerKeys -> Listings]
    /\ pc = "idle" /\ job = NoJob
    /\ green = [p \in Paths |-> None] /\ made = {}
    /\ owner = None /\ commands = {}
    /\ edits = 0 /\ signs = 0 /\ starts = 0

\* An editor saves another recipe, keeping the old signature or not, or is
\* caught halfway.
Edit(p) ==
    /\ edits < MaxEdits /\ edits' = edits + 1
    /\ \/ docs' = [docs EXCEPT ![p] = Garbage]
       \/ \E r \in Recipes : docs' = [docs EXCEPT ![p] =
             Document(r, IF docs[p] = Garbage THEN Unsigned ELSE docs[p].sig)]
    /\ green' = [green EXCEPT ![p] = None]
    /\ UNCHANGED <<signing, config, keys, pc, job, made, loadVars, signs, starts>>

\* Time passes: one record of a key reaches its expiry.
Expire(k) ==
    /\ edits < MaxEdits /\ edits' = edits + 1
    /\ \E i \in DOMAIN keys[k] :
         keys[k][i].exp = "future" /\ keys' = [keys EXCEPT ![k][i].exp = "past"]
    /\ UNCHANGED <<docs, signing, config, signVars, loadVars, signs, starts>>

\* runInit: the key must be usable unless told otherwise, and an existing
\* file is only replaced by force.  The file may also be broken by hand.
RunInit ==
    /\ edits < MaxEdits /\ edits' = edits + 1
    /\ \/ \E k \in OwnerKeys, force, noVerify, runs \in BOOLEAN :
            /\ noVerify \/ CheckKeyExpiry(runs, keys[k]) = "ok"
            /\ force \/ config = "absent"
            /\ config' = k
       \/ config # "absent" /\ config' = "bad"
    /\ UNCHANGED <<docs, signing, keys, signVars, loadVars, signs, starts>>

-----------------------------------------------------------------------------
SignOnly == UNCHANGED <<config, keys, loadVars, edits, starts>>
GiveUp == /\ pc' = "idle" /\ job' = NoJob
          /\ signing' = [p \in Paths |-> NoFile]
          /\ UNCHANGED <<docs, green, made, signs>> /\ SignOnly

\* checkSignerMatchesAuthorizer.
MayUse(k, force) == config = "absent" \/ (config \in OwnerKeys /\ (config = k \/ force))

\* runSign up to the first read of the file.
BeginSign(p, k) ==
    /\ pc = "idle" /\ signs < MaxSigns /\ signs' = signs + 1
    /\ \E force \in BOOLEAN : MayUse(k, force)
    /\ pc' = "decode" /\ job' = [path |-> p, key |-> k, original |-> docs[p]]
    /\ UNCHANGED <<docs, signing, green, made>> /\ SignOnly

\* The second read decodes; a COPY is validated, the bytes before defaults
\* are signed, if the key may sign.
DecodeAndSign ==
    /\ pc = "decode"
    /\ LET d == docs[job.path]
       IN  \E runs \in BOOLEAN :
             LET i == DetachSignBody(runs, keys[job.key])
             IN  IF d = Garbage \/ ~ValidateCommand(Defaults(d.recipe)) \/ i = 0 THEN GiveUp
                 ELSE /\ pc' = "write"
                      /\ job' = [path |-> job.path, key |-> job.key, original |-> job.original,
                                 canon |-> CanonicalCommandBytes(d),
                                 sig |-> Sig(job.key, i, CanonicalCommandBytes(d))]
                      /\ made' = made \cup {[sig |-> job'.sig, exp |-> keys[job.key][i].exp]}
                      /\ UNCHANGED <<docs, signing, green, signs>> /\ SignOnly

\* The signature goes into the bytes of the first read.
WriteSigning ==
    /\ pc = "write"
    /\ \/ GiveUp
       \/ /\ signing' = [signing EXCEPT ![job.path] =
               IF job.original = Garbage THEN Garbage ELSE spliceSignature(job.original, job.sig)]
          /\ pc' = "verify"
          /\ UNCHANGED <<docs, job, green, made, signs>> /\ SignOnly

\* verifyRoundTrip: what would be loaded is what was signed, and it verifies.
verifyRoundTrip ==
    /\ pc = "verify"
    /\ LET d == signing[job.path]
       IN  \E runs \in BOOLEAN :
             IF \/ d = Garbage
                \/ CanonicalCommandBytes(d) # job.canon
                \/ VerifySignature(d, job.key, keys, runs) # "good"
               THEN GiveUp
               ELSE pc' = "rename" /\ UNCHANGED <<docs, signing, job, green, made, signs>> /\ SignOnly

RenameSigned ==
    /\ pc = "rename"
    /\ \/ GiveUp
       \/ /\ docs' = [docs EXCEPT ![job.path] = signing[job.path]]
          /\ signing' = [signing EXCEPT ![job.path] = NoFile]
          /\ green' = [green EXCEPT ![job.path] = job.key]
          /\ pc' = "idle" /\ job' = NoJob
          /\ UNCHANGED <<made, signs>> /\ SignOnly

\* resolveDaemonOwnerKeyID and loadDaemonCommands: without a readable owner
\* nothing is loaded at all.  gpg may fail for any of the files.
StartDaemon ==
    /\ starts < MaxStarts /\ starts' = starts + 1
    /\ IF config \notin OwnerKeys THEN owner' = None /\ commands' = {}
       ELSE /\ owner' = config
            /\ \E runs \in [Paths -> BOOLEAN] :
                 commands' = LoadCommands(docs, Order, config, keys, runs)
    /\ UNCHANGED <<diskVars, signVars, edits, signs>>

SigningNext ==
    \/ \E p \in Paths : Edit(p) \/ \E k \in OwnerKeys : BeginSign(p, k)
    \/ \E k \in OwnerKeys : Expire(k)
    \/ RunInit \/ DecodeAndSign \/ WriteSigning \/ verifyRoundTrip \/ RenameSigned

-----------------------------------------------------------------------------
\* A file reported as signed, untouched since, verifies and is loaded while the
\* key is current: sign, verify and load agree on what is signed (runSign).
GreenLoads ==
    \A p \in Paths :
        green[p] # None /\ (\A i \in DOMAIN keys[green[p]] : keys[green[p]][i].exp # "past") =>
            /\ runVerify(docs[p], green[p], keys, TRUE) = "good"
            /\ loadCommand(docs[p], green[p], keys, TRUE)

\* No signature outlives its key for ever: every record that signed has an
\* expiry, whichever one gpg chose (CheckKeyExpiry).
SignaturesExpire == \A m \in made : m.exp # "none"
=============================================================================
