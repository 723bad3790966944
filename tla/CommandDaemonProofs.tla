------------------------ MODULE CommandDaemonProofs ------------------------
(***************************************************************************)
(* Proofs about CommandDaemon.tla, and through it about CommandSigning and *)
(* StageRun, for any number of command files, keys, recipes, restarts and  *)
(* stages, whatever is edited, signed or expires in between.               *)
(***************************************************************************)
EXTENDS CommandDaemon, TLAPS, WellFoundedInduction

\* A signature a document may carry: none, or one that was really made.
Known(s) == s = Unsigned \/ \E m \in made : m.sig = s

WellDoc(d) ==
    \/ d = Garbage
    \/ d = Document(d.recipe, d.sig) /\ Known(d.sig)

NoPast(k) == \A i \in DOMAIN keys[k] : keys[k][i].exp # "past"

\* What sign has established about a signature it made over canon with key k,
\* and what time alone cannot take away from it.
Sealed(s, k, canon) ==
    /\ s = Sig(k, s.rec, canon)
    /\ k \in OwnerKeys /\ s.rec \in DOMAIN keys[k]
    /\ ValidateCommand(Defaults(canon))
    /\ NoPast(k) => parseColonExpiry(keys[k])

KeysInv == keys \in [OwnerKeys -> Seq(KeyRecords)]

DocsInv ==
    /\ docs = [p \in Paths |-> docs[p]]
    /\ signing = [p \in Paths |-> signing[p]]
    /\ green = [p \in Paths |-> green[p]]
    /\ \A p \in Paths :
         /\ WellDoc(docs[p])
         /\ green[p] # None =>
              /\ docs[p] = Document(docs[p].recipe, docs[p].sig)
              /\ Sealed(docs[p].sig, green[p], docs[p].recipe)

JobInv ==
    /\ pc \in {"idle", "decode", "write", "verify", "rename"}
    /\ pc # "idle" => job.path \in Paths /\ job.key \in OwnerKeys /\ WellDoc(job.original)
    /\ pc \in {"write", "verify", "rename"} =>
         Sealed(job.sig, job.key, job.canon) /\ Known(job.sig)
    /\ pc = "verify" =>
         \/ signing[job.path] = Garbage
         \/ signing[job.path] = Document(signing[job.path].recipe, job.sig)
    /\ pc = "rename" => signing[job.path] = Document(job.canon, job.sig)

\* A loaded command is one the owner of that start signed, as written.
Covered(o, w) == \E m \in made : m.sig.by = o /\ m.sig.over = w

LoadedInv ==
    \A c \in commands : Covered(owner, c.written) /\ c.cmd.runner \in {"claude", "cli"}

SignInv == KeysInv /\ DocsInv /\ JobInv /\ LoadedInv /\ RunsAsSigned /\ SignaturesExpire

ClaudeSteps == {"env", "mcp", "contract", "create", "prompt", "spawn", "worker", "close"}
CliSteps == {"resolve", "start", "output"}

\* A stage, by the runner's position.
StageInv ==
    /\ step \in {"idle", "returned"} \cup ClaudeSteps \cup CliSteps
    /\ step \in ClaudeSteps => call.runner = "claude"
    /\ step \in CliSteps => call.runner = "cli" /\ mission = "none"
    /\ step = "idle" => mission = "none"
    /\ step \notin {"returned", "worker", "output", "close"} => child = NoChild
    /\ step \in {"worker", "output", "close"} =>
         /\ child.printed \in Nat
         /\ child = [state |-> child.state, printed |-> child.printed,
                      exit |-> child.exit, said |-> child.said]
    /\ step = "output" => child.said = "fine"
    /\ step = "close" => child.state = "ended" /\ WorkerSucceeded(child)
    /\ step \in {"mcp", "contract", "create", "prompt", "spawn", "worker", "close",
                 "start", "output"} => call.env \subseteq EnvVars
    /\ StageAnswerTrue

IInv == SignInv /\ StageInv

USE DEF diskVars, signVars, loadVars, signBounds, signingVars, stageVars, SignOnly
-----------------------------------------------------------------------------
\* A nonempty set of naturals has a least element.
LEMMA LeastNatural ==
  ASSUME NEW T \in SUBSET Nat, T # {}
  PROVE  \E x \in T : \A y \in T : x <= y
<1>1. IsWellFoundedOn(OpToRel(<, Nat), Nat)
  BY NatLessThanWellFounded
<1>2. PICK x \in T : \A y \in T : ~ (<<y, x>> \in OpToRel(<, Nat))
  BY <1>1, WFMin
<1>3. \A y \in T : ~ (y < x)
  BY <1>2 DEF OpToRel
<1> QED
  BY <1>3

\* A nonempty set of naturals up to n has a greatest element.
LEMMA GreatestNatural ==
  ASSUME NEW n \in Nat, NEW S \in SUBSET (0..n), S # {}
  PROVE  \E x \in S : \A y \in S : y <= x
<1> DEFINE T == {n - x : x \in S}
<1>1. T \in SUBSET Nat /\ T # {}
  <2>1. \A x \in S : n - x \in Nat
    OBVIOUS
  <2> QED
    BY <2>1
<1>2. PICK t \in T : \A u \in T : t <= u
  BY <1>1, LeastNatural
<1>3. PICK x \in S : t = n - x
  BY <1>2
<1>4. \A y \in S : n - x <= n - y
  BY <1>2, <1>3
<1> QED
  BY <1>3, <1>4

\* The record gpg signs with, after CheckKeyExpiry has passed, is one of the
\* listing, and it does expire.
LEMMA SigningRecord ==
  ASSUME NEW l \in Seq(KeyRecords), NEW runs, DetachSignBody(runs, l) # 0
  PROVE  /\ parseColonExpiry(l)
         /\ DetachSignBody(runs, l) \in DOMAIN l
         /\ l[DetachSignBody(runs, l)].exp # "none"
<1> DEFINE subs == SigningSubs(l)
           usable == {i \in subs : l[i].exp \in {"none", "future"}}
<1>1. parseColonExpiry(l) /\ DetachSignBody(runs, l) = gpgSelects(l)
  BY DEF DetachSignBody, CheckKeyExpiry
<1>2. CASE subs = {}
  <2>1. \E i \in Primary(l) : l[i].signs /\ l[i].exp # "past"
    BY <1>1, <1>2 DEF gpgSelects
  <2>2. gpgSelects(l) = CHOOSE i \in Primary(l) : l[i].signs /\ l[i].exp # "past"
    BY <1>2, <2>1 DEF gpgSelects
  <2>3. gpgSelects(l) \in Primary(l)
    BY <2>1, <2>2
  <2>4. \A i \in Primary(l) : i \in DOMAIN l /\ l[i].exp = "future"
    BY <1>1 DEF parseColonExpiry, Primary
  <2> QED
    BY <1>1, <2>3, <2>4
<1>3. CASE subs # {}
  <2>1. usable # {}
    BY <1>1, <1>3 DEF gpgSelects
  <2>2. gpgSelects(l) = CHOOSE i \in usable : \A j \in usable : j <= i
    BY <1>3, <2>1 DEF gpgSelects
  <2>3. Len(l) \in Nat /\ usable \in SUBSET (0..Len(l))
    BY DEF SigningSubs
  <2>4. \E i \in usable : \A j \in usable : j <= i
    BY <2>1, <2>3, GreatestNatural
  <2>5. gpgSelects(l) \in usable
    BY <2>2, <2>4
  <2>6. \A i \in subs : i \in DOMAIN l /\ l[i].exp # "none"
    BY <1>1 DEF parseColonExpiry, SigningSubs
  <2> QED
    BY <1>1, <2>5, <2>6
<1> QED
  BY <1>2, <1>3

\* The daemon takes a file only for a signature over the file as written, by
\* the one key its keyring holds.
LEMMA GoodMeansSigned ==
  ASSUME NEW d, NEW k, NEW runs, VerifySignature(d, k, keys, runs) = "good"
  PROVE  d.sig # Unsigned /\ d.sig.by = k /\ d.sig.over = d.recipe
<1> DEFINE ring == newIsolatedKeyring(k)
           lines == gpgVerify(ring, keys, CanonicalCommandBytes(d), d.sig)
<1>1. d.sig # Unsigned /\ classifyStatusLines(lines) = "good"
  BY DEF VerifySignature
<1>2. "GOODSIG" \in lines
  BY <1>1 DEF classifyStatusLines
<1>3. d.sig.by \in ring /\ d.sig.over = CanonicalCommandBytes(d)
  BY <1>2 DEF gpgVerify
<1> QED
  BY <1>1, <1>3 DEF newIsolatedKeyring, CanonicalCommandBytes

\* While its key is current, a sealed document verifies and loads.
LEMMA SealedLoads ==
  ASSUME NEW r, NEW s, NEW k, Sealed(s, k, r), NoPast(k)
  PROVE  /\ VerifySignature(Document(r, s), k, keys, TRUE) = "good"
         /\ loadCommand(Document(r, s), k, keys, TRUE)
         /\ runVerify(Document(r, s), k, keys, TRUE) = "good"
<1> DEFINE d == Document(r, s)
           ring == newIsolatedKeyring(k)
<1>1. /\ d.recipe = r /\ d.sig = s /\ d # Garbage
      /\ s.by = k /\ s.over = r /\ s # Unsigned
  BY DEF Document, Garbage, Sealed, Sig, Unsigned
<1>2. ring = {k}
  BY DEF newIsolatedKeyring, Sealed
<1>3. CheckKeyExpiry(TRUE, keys[k]) = "ok"
  BY DEF CheckKeyExpiry, Sealed
<1>4. gpgVerify(ring, keys, r, s) = {"GOODSIG"}
  BY <1>1, <1>2 DEF gpgVerify, NoPast, Sealed
<1>5. classifyStatusLines({"GOODSIG"}) = "good"
  BY DEF classifyStatusLines
<1>6. VerifySignature(d, k, keys, TRUE) = "good"
  BY <1>1, <1>2, <1>3, <1>4, <1>5 DEF VerifySignature, CanonicalCommandBytes
<1>7. ValidateCommand(Defaults(d.recipe))
  BY <1>1 DEF Sealed
<1> HIDE DEF d
<1>8. loadCommand(d, k, keys, TRUE) /\ runVerify(d, k, keys, TRUE) = "good"
  BY <1>1, <1>6, <1>7 DEF loadCommand, runVerify
<1> QED
  BY <1>6, <1>8 DEF d

\* Signatures are made and never unmade.
LEMMA KnownGrows ==
  ASSUME made \subseteq made'
  PROVE  /\ \A s : Known(s) => Known(s)'
         /\ \A d : WellDoc(d) => WellDoc(d)'
         /\ \A o, w : Covered(o, w) => Covered(o, w)'
BY DEF Known, WellDoc, Covered

\* Nothing the signing command or an editor does reaches a started daemon.
LEMMA LoadedFrame ==
  ASSUME SignInv, made \subseteq made', UNCHANGED <<owner, commands, ran>>
  PROVE  LoadedInv' /\ RunsAsSigned'
<1>1. LoadedInv'
  BY KnownGrows DEF SignInv, LoadedInv
<1>2. RunsAsSigned'
  BY DEF SignInv, RunsAsSigned
<1> QED
  BY <1>1, <1>2

\* A seal depends on the keys only.
LEMMA SealedFrame ==
  ASSUME UNCHANGED keys
  PROVE  \A s, k, c : Sealed(s, k, c) => Sealed(s, k, c)'
BY DEF Sealed, NoPast

\* An editor's save: the file is no longer the one that was signed.
LEMMA EditStep ==
  ASSUME SignInv, NEW p \in Paths, Edit(p), UNCHANGED ran
  PROVE  SignInv'
<1> USE DEF SignInv
<1>1. UNCHANGED <<signing, config, keys, pc, job, made, owner, commands>>
  BY DEF Edit
<1>2. PICK d : docs' = [docs EXCEPT ![p] = d] /\ WellDoc(d)
  <2>1. CASE docs' = [docs EXCEPT ![p] = Garbage]
    BY <2>1 DEF WellDoc
  <2>2. CASE \E r \in Recipes : docs' = [docs EXCEPT ![p] =
               Document(r, IF docs[p] = Garbage THEN Unsigned ELSE docs[p].sig)]
    <3> DEFINE s == IF docs[p] = Garbage THEN Unsigned ELSE docs[p].sig
    <3>1. PICK r \in Recipes : docs' = [docs EXCEPT ![p] = Document(r, s)]
      BY <2>2
    <3>2. Known(s)
      BY DEF DocsInv, WellDoc, Known
    <3> HIDE DEF s
    <3>3. WellDoc(Document(r, s))
      BY <3>2 DEF WellDoc, Document
    <3> QED
      BY <3>1, <3>3
  <2> QED
    BY <2>1, <2>2 DEF Edit
<1>3. green' = [green EXCEPT ![p] = None]
  BY DEF Edit
<1>4. /\ docs' = [q \in Paths |-> IF q = p THEN d ELSE docs[q]]
      /\ green' = [q \in Paths |-> IF q = p THEN None ELSE green[q]]
  BY <1>2, <1>3 DEF DocsInv
<1>5. DocsInv'
  <2>1. ASSUME NEW q \in Paths
        PROVE  /\ WellDoc(docs[q])'
               /\ green'[q] # None =>
                    /\ docs'[q] = Document(docs'[q].recipe, docs'[q].sig)
                    /\ Sealed(docs[q].sig, green[q], docs[q].recipe)'
    <3>1. CASE q = p
      <4>1. green'[q] = None /\ docs'[q] = d
        BY <1>4, <3>1
      <4>2. WellDoc(d)'
        BY <1>1, <1>2, KnownGrows
      <4> QED
        BY <4>1, <4>2 DEF WellDoc
    <3>2. CASE q # p
      <4>1. green'[q] = green[q] /\ docs'[q] = docs[q]
        BY <1>4, <3>2
      <4>2. WellDoc(docs[q])'
        BY <1>1, <4>1 DEF DocsInv, WellDoc, Known
      <4>3. green[q] # None => Sealed(docs[q].sig, green[q], docs[q].recipe)'
        BY <1>1, <4>1 DEF DocsInv, Sealed, NoPast
      <4> QED
        BY <4>1, <4>2, <4>3 DEF DocsInv
    <3> QED
      BY <3>1, <3>2
  <2>2. /\ docs' = [q \in Paths |-> docs'[q]]
        /\ green' = [q \in Paths |-> green'[q]]
        /\ signing' = [q \in Paths |-> signing'[q]]
    BY <1>1, <1>4 DEF DocsInv
  <2> QED
    BY <2>1, <2>2 DEF DocsInv
<1>6. JobInv'
  BY <1>1 DEF JobInv, Sealed, NoPast, WellDoc, Known
<1>7. KeysInv' /\ SignaturesExpire'
  BY <1>1 DEF KeysInv, SignaturesExpire
<1> QED
  BY <1>1, <1>5, <1>6, <1>7, LoadedFrame

\* The expiry of a record may end what a seal promises, and never breaks it.
LEMMA ExpireStep ==
  ASSUME SignInv, NEW k \in OwnerKeys, Expire(k), UNCHANGED ran
  PROVE  SignInv'
<1> USE DEF SignInv
<1>1. UNCHANGED <<docs, signing, config, pc, job, green, made, owner, commands>>
  BY DEF Expire
<1>2. PICK i \in DOMAIN keys[k] :
        keys[k][i].exp = "future" /\ keys' = [keys EXCEPT ![k][i].exp = "past"]
  BY DEF Expire
<1> DEFINE l == [keys[k] EXCEPT ![i] = [keys[k][i] EXCEPT !.exp = "past"]]
<1>3. /\ keys[k] \in Seq(KeyRecords) /\ keys[k][i] \in KeyRecords
      /\ DOMAIN keys[k] = 1..Len(keys[k]) /\ Len(keys[k]) \in Nat
  BY DEF KeysInv
<1>4. [keys[k][i] EXCEPT !.exp = "past"] \in KeyRecords
  BY <1>3 DEF KeyRecords
<1>5. l \in Seq(KeyRecords) /\ DOMAIN l = DOMAIN keys[k] /\ l[i].exp = "past"
  BY <1>2, <1>3, <1>4 DEF KeyRecords
<1>6. keys' = [keys EXCEPT ![k] = l]
  BY <1>2
<1> HIDE DEF l
<1>7. KeysInv'
  BY <1>5, <1>6 DEF KeysInv
<1>8. \A s, j, c : Sealed(s, j, c) => Sealed(s, j, c)'
  <2> SUFFICES ASSUME NEW s, NEW j, NEW c, Sealed(s, j, c)
               PROVE  Sealed(s, j, c)'
    OBVIOUS
  <2>1. CASE j = k
    <3>1. keys'[j] = l
      BY <1>6, <2>1 DEF KeysInv
    <3>2. ~ NoPast(j)'
      BY <1>5, <2>1, <3>1 DEF NoPast
    <3> QED
      BY <1>5, <2>1, <3>1, <3>2 DEF Sealed
  <2>2. CASE j # k
    <3>1. j \in OwnerKeys /\ keys'[j] = keys[j]
      BY <1>6, <2>2 DEF KeysInv, Sealed
    <3> QED
      BY <3>1 DEF Sealed, NoPast
  <2> QED
    BY <2>1, <2>2
<1>9. DocsInv'
  BY <1>1, <1>8 DEF DocsInv, WellDoc, Known
<1>10. JobInv'
  BY <1>1, <1>8 DEF JobInv, WellDoc, Known
<1>11. SignaturesExpire'
  BY <1>1 DEF SignaturesExpire
<1> QED
  BY <1>1, <1>7, <1>9, <1>10, <1>11, LoadedFrame

\* Neither init nor giving up a signing job touches a signed file.
LEMMA QuietSteps ==
  ASSUME SignInv, RunInit \/ GiveUp, UNCHANGED ran
  PROVE  SignInv'
<1> USE DEF SignInv
<1>1. UNCHANGED <<docs, keys, green, made, owner, commands>>
  BY DEF RunInit, GiveUp
<1>2. \/ pc' = "idle" /\ signing' = [p \in Paths |-> NoFile]
      \/ UNCHANGED <<pc, job, signing>>
  BY DEF RunInit, GiveUp
<1>3. DocsInv'
  <2>1. signing' = [p \in Paths |-> signing'[p]]
    BY <1>2 DEF DocsInv
  <2> QED
    BY <1>1, <2>1 DEF DocsInv, WellDoc, Known, Sealed, NoPast
<1>4. JobInv'
  BY <1>1, <1>2 DEF JobInv, Sealed, NoPast, WellDoc, Known
<1>5. KeysInv' /\ SignaturesExpire'
  BY <1>1 DEF KeysInv, SignaturesExpire
<1> QED
  BY <1>1, <1>3, <1>4, <1>5, LoadedFrame

\* Starting a signing job remembers the file as the first read saw it.
LEMMA BeginSignStep ==
  ASSUME SignInv, NEW p \in Paths, NEW k \in OwnerKeys, BeginSign(p, k), UNCHANGED ran
  PROVE  SignInv'
<1> USE DEF SignInv
<1>1. UNCHANGED <<docs, signing, keys, green, made, owner, commands>>
  BY DEF BeginSign
<1>2. pc' = "decode" /\ job' = [path |-> p, key |-> k, original |-> docs[p]]
  BY DEF BeginSign
<1>3. DocsInv'
  BY <1>1 DEF DocsInv, WellDoc, Known, Sealed, NoPast
<1>4. JobInv'
  <2>1. job'.path = p /\ job'.key = k /\ job'.original = docs[p]
    BY <1>2
  <2>2. WellDoc(docs[p])'
    BY <1>3 DEF DocsInv
  <2> QED
    BY <1>1, <1>2, <2>1, <2>2 DEF JobInv, WellDoc, Known
<1>5. KeysInv' /\ SignaturesExpire'
  BY <1>1 DEF KeysInv, SignaturesExpire
<1> QED
  BY <1>1, <1>3, <1>4, <1>5, LoadedFrame

\* Signing: the record exists and expires, the recipe validates.
LEMMA DecodeStep ==
  ASSUME SignInv, DecodeAndSign, UNCHANGED ran
  PROVE  SignInv'
<1> USE DEF SignInv
<1> DEFINE d == docs[job.path]
           i(runs) == DetachSignBody(runs, keys[job.key])
<1>1. CASE GiveUp
  BY <1>1, QuietSteps
<1>2. CASE ~ GiveUp
  <2> DEFINE canon == CanonicalCommandBytes(d)
  <2>1. PICK runs \in BOOLEAN :
          /\ d # Garbage /\ ValidateCommand(Defaults(d.recipe)) /\ i(runs) # 0
          /\ pc' = "write"
          /\ job' = [path |-> job.path, key |-> job.key, original |-> job.original,
                     canon |-> canon, sig |-> Sig(job.key, i(runs), canon)]
          /\ made' = made \cup {[sig |-> job'.sig, exp |-> keys[job.key][i(runs)].exp]}
    BY <1>2 DEF DecodeAndSign
  <2>2. UNCHANGED <<docs, signing, green, keys, owner, commands>> /\ pc = "decode"
    BY <1>2 DEF DecodeAndSign
  <2> DEFINE n == i(runs)
             s == Sig(job.key, n, canon)
             m == [sig |-> s, exp |-> keys[job.key][n].exp]
  <2>3. job.path \in Paths /\ job.key \in OwnerKeys /\ WellDoc(job.original)
    BY <2>2 DEF JobInv
  <2>4. keys[job.key] \in Seq(KeyRecords)
    BY <2>3 DEF KeysInv
  <2>5. /\ parseColonExpiry(keys[job.key]) /\ n \in DOMAIN keys[job.key]
        /\ keys[job.key][n].exp # "none"
    BY <2>1, <2>4, SigningRecord
  <2>6. /\ job'.path = job.path /\ job'.key = job.key /\ job'.original = job.original
        /\ job'.canon = canon /\ job'.sig = s
        /\ canon = d.recipe
    BY <2>1 DEF CanonicalCommandBytes
  <2>7. made' = made \cup {m}
    BY <2>1, <2>6
  <2>8. m.sig = s /\ m.exp # "none" /\ s = Sig(job.key, s.rec, canon) /\ s.rec = n
    BY <2>5 DEF Sig
  <2> HIDE DEF s, m, n, canon, d
  <2>9. SignaturesExpire'
    BY <2>7, <2>8 DEF SignaturesExpire
  <2>12. DocsInv'
    BY <2>2, <2>7 DEF DocsInv, WellDoc, Known, Sealed, NoPast
  <2>13. JobInv'
    <3>1. WellDoc(job.original)'
      BY <2>3, <2>6, <2>7 DEF WellDoc, Known
    <3>2. Sealed(job.sig, job.key, job.canon)'
      BY <2>1, <2>2, <2>3, <2>5, <2>6, <2>8 DEF Sealed
    <3>3. Known(job.sig)'
      BY <2>6, <2>7, <2>8 DEF Known
    <3> QED
      BY <2>1, <2>3, <2>6, <3>1, <3>2, <3>3 DEF JobInv
  <2>14. KeysInv'
    BY <2>2 DEF KeysInv
  <2> QED
    BY <2>2, <2>7, <2>9, <2>12, <2>13, <2>14, LoadedFrame
<1> QED
  BY <1>1, <1>2

\* The signing file, its check and the rename.
LEMMA WriteSteps ==
  ASSUME SignInv, WriteSigning \/ verifyRoundTrip \/ RenameSigned, UNCHANGED ran
  PROVE  SignInv'
<1> USE DEF SignInv
<1>1. CASE GiveUp
  BY <1>1, QuietSteps
<1>2. CASE WriteSigning /\ ~ GiveUp
  <2> DEFINE f == IF job.original = Garbage THEN Garbage
                  ELSE spliceSignature(job.original, job.sig)
  <2>1. /\ pc = "write" /\ pc' = "verify"
        /\ signing' = [signing EXCEPT ![job.path] = f]
        /\ UNCHANGED <<docs, job, green, made, keys, owner, commands>>
    BY <1>2 DEF WriteSigning
  <2>2. job.path \in Paths /\ WellDoc(job.original)
    BY <2>1 DEF JobInv
  <2>3. f = Garbage \/ f = Document(f.recipe, job.sig)
    BY <2>2 DEF WellDoc, spliceSignature, Document
  <2> HIDE DEF f
  <2>4. signing' = [p \in Paths |-> signing'[p]] /\ signing'[job.path] = f
    BY <2>1, <2>2 DEF DocsInv
  <2>5. DocsInv'
    BY <2>1, <2>4 DEF DocsInv, WellDoc, Known, Sealed, NoPast
  <2>6. JobInv'
    BY <2>1, <2>3, <2>4 DEF JobInv, WellDoc, Known, Sealed, NoPast
  <2>7. KeysInv' /\ SignaturesExpire'
    BY <2>1 DEF KeysInv, SignaturesExpire
  <2> QED
    BY <2>1, <2>5, <2>6, <2>7, LoadedFrame
<1>3. CASE verifyRoundTrip /\ ~ GiveUp
  <2>1. /\ pc = "verify" /\ pc' = "rename"
        /\ signing[job.path] # Garbage
        /\ CanonicalCommandBytes(signing[job.path]) = job.canon
        /\ UNCHANGED <<docs, signing, job, green, made, keys, owner, commands>>
    BY <1>3 DEF verifyRoundTrip
  <2>2. signing[job.path] = Document(job.canon, job.sig)
    BY <2>1 DEF JobInv, CanonicalCommandBytes
  <2>3. DocsInv'
    BY <2>1 DEF DocsInv, WellDoc, Known, Sealed, NoPast
  <2>4. JobInv'
    BY <2>1, <2>2 DEF JobInv, WellDoc, Known, Sealed, NoPast
  <2>5. KeysInv' /\ SignaturesExpire'
    BY <2>1 DEF KeysInv, SignaturesExpire
  <2> QED
    BY <2>1, <2>3, <2>4, <2>5, LoadedFrame
<1>4. CASE RenameSigned /\ ~ GiveUp
  <2> DEFINE f == job.path
             d == Document(job.canon, job.sig)
  <2>1. /\ pc = "rename" /\ pc' = "idle"
        /\ docs' = [docs EXCEPT ![f] = signing[f]]
        /\ signing' = [signing EXCEPT ![f] = NoFile]
        /\ green' = [green EXCEPT ![f] = job.key]
        /\ UNCHANGED <<made, keys, owner, commands>>
    BY <1>4 DEF RenameSigned
  <2>2. /\ f \in Paths /\ signing[f] = d
        /\ Sealed(job.sig, job.key, job.canon) /\ Known(job.sig)
    BY <2>1 DEF JobInv
  <2>3. d.recipe = job.canon /\ d.sig = job.sig /\ d = Document(d.recipe, d.sig)
    BY DEF Document
  <2> HIDE DEF d, f
  <2>4. /\ docs' = [p \in Paths |-> IF p = f THEN d ELSE docs[p]]
        /\ green' = [p \in Paths |-> IF p = f THEN job.key ELSE green[p]]
        /\ signing' = [p \in Paths |-> signing'[p]]
    BY <2>1, <2>2 DEF DocsInv
  <2>5. ASSUME NEW p \in Paths
        PROVE  /\ WellDoc(docs[p])'
               /\ green'[p] # None =>
                    /\ docs'[p] = Document(docs'[p].recipe, docs'[p].sig)
                    /\ Sealed(docs[p].sig, green[p], docs[p].recipe)'
    <3>1. CASE p = f
      <4>1. docs'[p] = d /\ green'[p] = job.key
        BY <2>4, <3>1
      <4>2. WellDoc(docs[p])'
        BY <2>1, <2>2, <2>3, <4>1 DEF WellDoc, Known
      <4>3. Sealed(docs[p].sig, green[p], docs[p].recipe)'
        <5>1. /\ docs'[p].sig = job.sig /\ docs'[p].recipe = job.canon
              /\ green'[p] = job.key /\ keys' = keys
          BY <2>1, <2>3, <4>1
        <5>2. Sealed(job.sig, job.key, job.canon)
          BY <2>2
        <5> QED
          BY <5>1, <5>2 DEF Sealed, NoPast
      <4> QED
        BY <2>3, <4>1, <4>2, <4>3
    <3>2. CASE p # f
      <4>1. docs'[p] = docs[p] /\ green'[p] = green[p]
        BY <2>4, <3>2
      <4>2. WellDoc(docs[p])'
        BY <2>1, <4>1 DEF DocsInv, WellDoc, Known
      <4>3. green[p] # None => Sealed(docs[p].sig, green[p], docs[p].recipe)'
        <5>1. keys' = keys
          BY <2>1
        <5> QED
          BY <4>1, <5>1 DEF DocsInv, Sealed, NoPast
      <4> QED
        BY <4>1, <4>2, <4>3 DEF DocsInv
    <3> QED
      BY <3>1, <3>2
  <2>6. DocsInv'
    <3>1. docs' = [p \in Paths |-> docs'[p]] /\ green' = [p \in Paths |-> green'[p]]
      BY <2>4
    <3> QED
      BY <2>4, <2>5, <3>1 DEF DocsInv
  <2>7. JobInv'
    BY <2>1 DEF JobInv
  <2>8. KeysInv' /\ SignaturesExpire'
    BY <2>1 DEF KeysInv, SignaturesExpire
  <2> QED
    BY <2>1, <2>6, <2>7, <2>8, LoadedFrame
<1> QED
  BY <1>1, <1>2, <1>3, <1>4

\* A start loads only what the owner named in daemon.json has signed.
LEMMA StartStep ==
  ASSUME SignInv, StartDaemon, UNCHANGED ran
  PROVE  SignInv'
<1> USE DEF SignInv
<1>1. UNCHANGED <<docs, signing, config, keys, pc, job, green, made>>
  BY DEF StartDaemon
<1>2. LoadedInv'
  <2>1. CASE config \notin OwnerKeys
    BY <2>1 DEF StartDaemon, LoadedInv
  <2>2. CASE config \in OwnerKeys
    <3>1. PICK runs \in [Paths -> BOOLEAN] :
            owner' = config /\ commands' = LoadCommands(docs, Order, config, keys, runs)
      BY <2>2 DEF StartDaemon
    <3> SUFFICES ASSUME NEW c \in commands'
                 PROVE  /\ \E m \in made' : m.sig.by = owner' /\ m.sig.over = c.written
                        /\ c.cmd.runner \in {"claude", "cli"}
      BY DEF LoadedInv, Covered
    <3>2. PICK i \in DOMAIN Order :
            /\ loadCommand(docs[Order[i]], config, keys, runs[Order[i]])
            /\ c = [name |-> docs[Order[i]].recipe.name, written |-> docs[Order[i]].recipe,
                    cmd |-> Defaults(docs[Order[i]].recipe)]
      <4> DEFINE good == {i \in DOMAIN Order :
                            loadCommand(docs[Order[i]], config, keys, runs[Order[i]])}
                 first == {i \in good : \A j \in good :
                             docs[Order[j]].recipe.name = docs[Order[i]].recipe.name
                               => i <= j}
                 entry(r) == [name |-> r.name, written |-> r, cmd |-> Defaults(r)]
      <4>1. c \in {entry(docs[Order[i]].recipe) : i \in first}
        BY <3>1 DEF LoadCommands
      <4>2. PICK i \in first : c = entry(docs[Order[i]].recipe)
        BY <4>1
      <4> QED
        BY <4>2
    <3> DEFINE d == docs[Order[i]]
    <3>3. /\ d # Garbage /\ VerifySignature(d, config, keys, runs[Order[i]]) = "good"
          /\ ValidateCommand(Defaults(d.recipe))
          /\ c.written = d.recipe /\ c.cmd = Defaults(d.recipe)
      BY <3>2 DEF loadCommand
    <3>4. Order[i] \in Paths
      BY SigningAssumption
    <3>5. Known(d.sig)
      BY <3>3, <3>4 DEF DocsInv, WellDoc
    <3>6. d.sig # Unsigned /\ d.sig.by = config /\ d.sig.over = d.recipe
      BY <3>3, GoodMeansSigned
    <3>7. \E m \in made' : m.sig.by = owner' /\ m.sig.over = c.written
      BY <1>1, <3>1, <3>3, <3>5, <3>6 DEF Known
    <3>8. c.cmd.runner \in {"claude", "cli"}
      <4>1. RunnerFields(c.cmd)
        BY <3>3 DEF ValidateCommand
      <4> QED
        BY <4>1 DEF RunnerFields
    <3> QED
      BY <3>7, <3>8
  <2> QED
    BY <2>1, <2>2
<1>3. DocsInv'
  BY <1>1 DEF DocsInv, WellDoc, Known, Sealed, NoPast
<1>4. JobInv'
  BY <1>1 DEF JobInv, WellDoc, Known, Sealed, NoPast
<1>5. KeysInv' /\ SignaturesExpire' /\ RunsAsSigned'
  BY <1>1 DEF KeysInv, SignaturesExpire, RunsAsSigned
<1> QED
  BY <1>2, <1>3, <1>4, <1>5

\* Everything that happens to the files and the keys, and a start.
LEMMA SigningSteps ==
  ASSUME SignInv, SigningNext \/ StartDaemon, UNCHANGED ran
  PROVE  SignInv'
BY EditStep, ExpireStep, QuietSteps, BeginSignStep, DecodeStep, WriteSteps, StartStep
DEF SigningNext

\* A stage runs a command the daemon holds.
LEMMA RunStep ==
  ASSUME SignInv, RunStage
  PROVE  SignInv' /\ call'.runner \in {"claude", "cli"}
<1> USE DEF SignInv
<1>1. UNCHANGED <<docs, signing, config, keys, pc, job, green, made, owner, commands>>
  BY DEF RunStage
<1>2. PICK c \in commands :
        /\ call' = [runner |-> c.cmd.runner, env |-> c.cmd.env, servers |-> c.cmd.servers,
                     binary |-> c.cmd.name]
        /\ ran' = ran \cup {[owner |-> owner, written |-> c.written]}
  BY DEF RunStage, Begin
<1>3. c.cmd.runner \in {"claude", "cli"} /\ Covered(owner, c.written)
  BY DEF LoadedInv
<1>4. RunsAsSigned'
  <2> SUFFICES ASSUME NEW r \in ran'
               PROVE  \E m \in made : m.sig.by = r.owner /\ m.sig.over = r.written
    BY <1>1 DEF RunsAsSigned
  <2>1. CASE r \in ran
    BY <2>1 DEF RunsAsSigned
  <2>2. CASE r = [owner |-> owner, written |-> c.written]
    BY <1>3, <2>2 DEF Covered
  <2> QED
    BY <1>2, <2>1, <2>2
<1>5. DocsInv'
  BY <1>1 DEF DocsInv, WellDoc, Known, Sealed, NoPast
<1>6. JobInv'
  BY <1>1 DEF JobInv, WellDoc, Known, Sealed, NoPast
<1>7. KeysInv' /\ SignaturesExpire' /\ LoadedInv'
  BY <1>1 DEF KeysInv, SignaturesExpire, LoadedInv, Covered
<1> QED
  BY <1>2, <1>3, <1>4, <1>5, <1>6, <1>7

-----------------------------------------------------------------------------
\* The runner's deferred removals leave nothing but what refused to go.
LEMMA RemoveAll ==
  ASSUME RemoveTemps(temps)
  PROVE  temps' \subseteq stuck'
BY DEF RemoveTemps

\* A failure may be returned at any step before the child runs or after it
\* has ended.
LEMMA FailedStep ==
  ASSUME StageInv, NEW m, Failed(m), child.state # "running",
         call.runner = "cli" => m = "none"
  PROVE  StageInv'
<1>1. /\ step' = "returned" /\ temps' \subseteq stuck' /\ UNCHANGED <<call, child>>
      /\ mission' = m /\ result'.ok = FALSE
  BY RemoveAll DEF Failed, Return, NoResult
<1> QED
  BY <1>1 DEF StageInv, StageAnswerTrue, ClaudeSteps, CliSteps

\* Every step of a runner keeps its stage in order.
LEMMA StageSteps ==
  ASSUME StageInv, StageNext
  PROVE  StageInv'
<1> USE DEF ClaudeSteps, CliSteps
<1>0. NoChild.state # "running"
  BY DEF NoChild
<1>1. CASE ClaudeEnv
  <2>1. CASE Failed(mission)
    BY <1>0, <1>1, <2>1, FailedStep DEF ClaudeEnv, StageInv
  <2>2. CASE ~ Failed(mission)
    BY <1>1, <2>2 DEF ClaudeEnv, Goto, StageInv, StageAnswerTrue
  <2> QED
    BY <2>1, <2>2
<1>2. CASE BuildMCPConfig
  <2>1. CASE Failed(mission)
    BY <1>0, <1>2, <2>1, FailedStep DEF BuildMCPConfig, StageInv
  <2>2. CASE ~ Failed(mission)
    BY <1>2, <2>2 DEF BuildMCPConfig, Goto, StageInv, StageAnswerTrue
  <2> QED
    BY <2>1, <2>2
<1>3. CASE WriteContract
  <2>1. CASE Failed(mission)
    BY <1>0, <1>3, <2>1, FailedStep DEF WriteContract, StageInv
  <2>2. CASE ~ Failed(mission)
    BY <1>3, <2>2 DEF WriteContract, Goto, StageInv, StageAnswerTrue
  <2> QED
    BY <2>1, <2>2
<1>4. CASE CreateMission
  <2>1. step = "create" /\ child = NoChild /\ call.runner = "claude"
    BY <1>4 DEF CreateMission, StageInv
  <2>2. CASE Failed("none") \/ Failed("open")
    BY <1>0, <2>1, <2>2, FailedStep
  <2>3. CASE ~ (Failed("none") \/ Failed("open"))
    BY <1>4, <2>1, <2>3 DEF CreateMission, Goto, StageInv, StageAnswerTrue
  <2> QED
    BY <2>2, <2>3
<1>5. CASE BuildSystemPrompt
  <2>1. CASE Failed(mission)
    BY <1>0, <1>5, <2>1, FailedStep DEF BuildSystemPrompt, StageInv
  <2>2. CASE ~ Failed(mission)
    BY <1>5, <2>2 DEF BuildSystemPrompt, Goto, StageInv, StageAnswerTrue
  <2> QED
    BY <2>1, <2>2
<1>6. CASE Spawn
  <2>1. CASE Failed(mission)
    BY <1>0, <1>6, <2>1, FailedStep DEF Spawn, StageInv
  <2>2. CASE ~ Failed(mission)
    BY <1>6, <2>2 DEF Spawn, Starts, StageInv, StageAnswerTrue
  <2> QED
    BY <2>1, <2>2
<1>7. CASE StartBinary
  <2>1. CASE Failed(mission)
    BY <1>0, <1>7, <2>1, FailedStep DEF StartBinary, StageInv
  <2>2. CASE ~ Failed(mission)
    BY <1>7, <2>2 DEF StartBinary, Starts, StageInv, StageAnswerTrue
  <2> QED
    BY <2>1, <2>2
<1>8. CASE ResolveBinary
  <2>1. CASE Failed(mission)
    BY <1>0, <1>8, <2>1, FailedStep DEF ResolveBinary, StageInv
  <2>2. CASE ~ Failed(mission)
    BY <1>8, <2>2 DEF ResolveBinary, Goto, StageInv, StageAnswerTrue
  <2> QED
    BY <2>1, <2>2
<1>9. CASE ChildPrints \/ ChildEnds
  <2>1. child.state = "running" /\ UNCHANGED <<step, call, temps, stuck, mission, result>>
    BY <1>9 DEF ChildPrints, ChildEnds
  <2>2. step \in {"worker", "output"}
    BY <1>0, <2>1 DEF StageInv, StageAnswerTrue
  <2>3. child.printed \in Nat /\ child.printed + 1 \in Nat
    BY <2>2 DEF StageInv
  <2>4. /\ child'.printed \in Nat
        /\ child' = [state |-> child'.state, printed |-> child'.printed,
                      exit |-> child'.exit, said |-> child'.said]
        /\ step = "output" => child'.said = "fine"
    <3>1. CASE ChildPrints
      <4>1. child = [state |-> child.state, printed |-> child.printed,
                     exit |-> child.exit, said |-> child.said]
        BY <2>2 DEF StageInv
      <4>2. child' = [child EXCEPT !.printed = @ + 1]
        BY <3>1 DEF ChildPrints
      <4>3. child' = [state |-> child.state, printed |-> child.printed + 1,
                      exit |-> child.exit, said |-> child.said]
        BY <4>1, <4>2
      <4> QED
        BY <2>3, <4>3 DEF StageInv
    <3>2. CASE ChildEnds
      <4>1. PICK x \in {0, 1}, said \in {"fine", "error", "unreadable"} :
              /\ call.runner = "cli" => said = "fine"
              /\ child' = [state |-> "ended", printed |-> child.printed,
                            exit |-> x, said |-> said]
        BY <3>2 DEF ChildEnds
      <4> QED
        BY <2>3, <4>1 DEF StageInv
    <3> QED
      BY <1>9, <3>1, <3>2
  <2> QED
    BY <2>1, <2>2, <2>4 DEF StageInv, StageAnswerTrue
<1>10. CASE WorkerEnds
  <2>1. step = "worker" /\ child.state = "ended" /\ call.runner = "claude"
    BY <1>10 DEF WorkerEnds, StageInv
  <2>2. CASE Failed(mission)
    BY <2>1, <2>2, FailedStep
  <2>3. CASE ~ Failed(mission)
    BY <1>10, <2>1, <2>3 DEF WorkerEnds, Goto, StageInv, StageAnswerTrue
  <2> QED
    BY <2>2, <2>3
<1>11. CASE CloseMission
  <2>1. /\ step = "close" /\ step' = "returned" /\ temps' \subseteq stuck'
        /\ mission' # "none" /\ UNCHANGED <<call, child>>
        /\ result' = [ok |-> TRUE, out |-> child.printed, truncated |-> FALSE]
    BY <1>11, RemoveAll DEF CloseMission, Return
  <2>2. /\ child.state = "ended" /\ call.runner = "claude" /\ call.env \subseteq EnvVars
        /\ child.printed \in Nat /\ child.printed > 0 /\ child.exit = 0 /\ child.said = "fine"
    BY <2>1 DEF StageInv, WorkerSucceeded, parseWorkerOutput
  <2>3. result'.out = child.printed /\ result'.truncated = FALSE
    BY <2>1
  <2>4. ~ (child.printed < child.printed)
    BY <2>2
  <2> HIDE DEF StageInv
  <2>5. StageAnswerTrue'
    BY <2>1, <2>2, <2>3, <2>4 DEF StageAnswerTrue
  <2> QED
    BY <2>1, <2>5 DEF StageInv
<1>12. CASE RunOutput
  <2>1. step = "output" /\ child.state = "ended" /\ call.runner = "cli" /\ mission = "none"
    BY <1>12 DEF RunOutput, StageInv
  <2>2. CASE Failed(mission)
    BY <2>1, <2>2, FailedStep
  <2>3. CASE ~ Failed(mission)
    <3>1. /\ child.exit = 0 /\ step' = "returned" /\ temps' \subseteq stuck'
          /\ UNCHANGED <<call, child, mission>> /\ result' = Captured(child)
      BY <1>12, <2>3, RemoveAll DEF RunOutput, Return
    <3>2. /\ child.printed \in Nat /\ child.said = "fine" /\ call.env \subseteq EnvVars
      BY <2>1 DEF StageInv
    <3>3. result'.truncated = TRUE <=> result'.out < child.printed
      <4> DEFINE t == child.printed > OutputCap
                 o == IF child.printed < OutputCap THEN child.printed ELSE OutputCap
      <4>1. result' = [ok |-> TRUE, out |-> o, truncated |-> t]
        BY <3>1 DEF Captured
      <4>2. (t = TRUE \/ t = FALSE) /\ (t <=> o < child.printed)
        BY <3>2, StageAssumption
      <4> HIDE DEF t, o
      <4>3. result'.out = o /\ result'.truncated = t
        BY <4>1
      <4> QED
        BY <4>2, <4>3
    <3>4. StageAnswerTrue'
      BY <2>1, <3>1, <3>2, <3>3 DEF StageAnswerTrue, Captured
    <3> QED
      BY <3>1, <3>4 DEF StageInv
  <2> QED
    BY <2>2, <2>3
<1>13. CASE Collect
  BY <1>13 DEF Collect, StageInv, StageAnswerTrue
<1> QED
  BY <1>1, <1>2, <1>3, <1>4, <1>5, <1>6, <1>7, <1>8, <1>9, <1>10, <1>11, <1>12, <1>13
  DEF StageNext

-----------------------------------------------------------------------------
LEMMA Initially == Init => IInv
<1> SUFFICES ASSUME Init PROVE IInv
  OBVIOUS
<1> USE DEF Init, SigningInit, StageInit
<1>1. KeysInv
  BY SigningAssumption DEF KeysInv
<1>2. DocsInv
  <2>1. \A p \in Paths : \E r \in Recipes : docs[p] = Document(r, Unsigned)
    OBVIOUS
  <2>2. \A r : WellDoc(Document(r, Unsigned))
    BY DEF WellDoc, Document, Known
  <2>3. \A p \in Paths : WellDoc(docs[p])
    BY <2>1, <2>2
  <2> QED
    BY <2>3 DEF DocsInv
<1>3. JobInv /\ LoadedInv /\ RunsAsSigned /\ SignaturesExpire
  BY DEF JobInv, LoadedInv, RunsAsSigned, SignaturesExpire
<1>4. StageInv
  BY DEF StageInv, StageAnswerTrue, ClaudeSteps, CliSteps
<1> QED
  BY <1>1, <1>2, <1>3, <1>4 DEF IInv, SignInv

LEMMA StepKeeps == IInv /\ [Next]_vars => IInv'
<1> SUFFICES ASSUME IInv, [Next]_vars PROVE IInv'
  OBVIOUS
<1>0. SignInv /\ StageInv
  BY DEF IInv
<1>1. ASSUME UNCHANGED stageVars PROVE StageInv'
  BY <1>0, <1>1 DEF StageInv, StageAnswerTrue
<1>2. ASSUME UNCHANGED <<signingVars, ran>> PROVE SignInv'
  <2>1. DocsInv'
    BY <1>0, <1>2 DEF SignInv, DocsInv, WellDoc, Known, Sealed, NoPast
  <2>2. JobInv'
    BY <1>0, <1>2 DEF SignInv, JobInv, WellDoc, Known, Sealed, NoPast
  <2>3. KeysInv' /\ SignaturesExpire' /\ LoadedInv' /\ RunsAsSigned'
    BY <1>0, <1>2 DEF SignInv, KeysInv, SignaturesExpire, LoadedInv, Covered, RunsAsSigned
  <2> QED
    BY <2>1, <2>2, <2>3 DEF SignInv
<1>3. CASE (SigningNext \/ StartDaemon) /\ UNCHANGED <<stageVars, ran, stages>>
  BY <1>0, <1>1, <1>3, SigningSteps DEF IInv
<1>4. CASE RunStage
  <2>1. SignInv' /\ call'.runner \in {"claude", "cli"}
    BY <1>0, <1>4, RunStep
  <2>2. /\ step = "idle" /\ UNCHANGED <<mission, child>>
        /\ step' = IF call'.runner = "claude" THEN "env" ELSE "resolve"
    BY <1>4 DEF RunStage, Begin
  <2>3. StageInv'
    BY <1>0, <2>1, <2>2 DEF StageInv, StageAnswerTrue, ClaudeSteps, CliSteps
  <2> QED
    BY <2>1, <2>3 DEF IInv
<1>5. CASE StageNext /\ UNCHANGED <<signingVars, ran, stages>>
  BY <1>0, <1>2, <1>5, StageSteps DEF IInv
<1>6. CASE UNCHANGED vars
  BY <1>0, <1>1, <1>2, <1>6 DEF vars, IInv
<1> QED
  BY <1>3, <1>4, <1>5, <1>6 DEF Next, Quiescent

\* The inductive invariant: where every signature in a file comes from, what a
\* finished signing promises of its file, and what each step of a runner has
\* established (runSign, loadCommand, ClaudeRunner.Run, CLIRunner.Run).
THEOREM Inductive == Spec => []IInv
BY Initially, StepKeeps, PTL DEF Spec

\* The daemon runs only what its owner signed, as written (Executor.Run).
THEOREM OnlySignedRuns == Spec => []RunsAsSigned
<1>1. IInv => RunsAsSigned
  BY DEF IInv, SignInv
<1> QED
  BY <1>1, Inductive, PTL

\* What sign reported as signed verifies and loads while its key is current,
\* although sign, verify and load read the file separately (runSign).
THEOREM SignedFilesLoad == Spec => []GreenLoads
<1>1. IInv => GreenLoads
  <2> SUFFICES ASSUME IInv, NEW p \in Paths, green[p] # None, NoPast(green[p])
               PROVE  /\ runVerify(docs[p], green[p], keys, TRUE) = "good"
                      /\ loadCommand(docs[p], green[p], keys, TRUE)
    BY DEF GreenLoads, NoPast
  <2>1. /\ docs[p] = Document(docs[p].recipe, docs[p].sig)
        /\ Sealed(docs[p].sig, green[p], docs[p].recipe)
    BY DEF IInv, SignInv, DocsInv
  <2> QED
    BY <2>1, SealedLoads
<1> QED
  BY <1>1, Inductive, PTL

\* No signature is made with a record that never expires (CheckKeyExpiry).
THEOREM NoEverlastingSignature == Spec => []SignaturesExpire
<1>1. IInv => SignaturesExpire
  BY DEF IInv, SignInv
<1> QED
  BY <1>1, Inductive, PTL

\* A stage's answer is true and it leaves nothing behind, for any output cap,
\* any environment and any failure (ClaudeRunner.Run, CLIRunner.Run).
THEOREM StagesAnswerTruly == Spec => []StageAnswerTrue
<1>1. IInv => StageAnswerTrue
  BY DEF IInv, StageInv
<1> QED
  BY <1>1, Inductive, PTL
=============================================================================
