---------------------------- MODULE CommandFile ----------------------------
(***************************************************************************)
(* Command files (internal/daemon/command.go and signature.go): what a     *)
(* recipe must satisfy, what its signature covers and when the daemon      *)
(* takes it.  A document is a recipe with a signature, or Garbage when it  *)
(* does not decode.  The canonical bytes of a recipe are the recipe as     *)
(* written, before any default, without the signature.                     *)
(***************************************************************************)
EXTENDS Keys

CONSTANTS
    OwnerKeys,      \* the keys of the system keyring
    ToolNames,      \* the built-in tools a recipe may grant itself
    ArgNames        \* the argument names the fence allows

Garbage == [kind |-> "garbage"]
Unsigned == [by |-> "nobody"]
Document(r, s) == [kind |-> "document", recipe |-> r, sig |-> s]
Sig(k, i, c) == [by |-> k, rec |-> i, over |-> c]

CanonicalCommandBytes(d) == d.recipe

\* spliceSignature: the old signature key goes, all other lines stay.
spliceSignature(d, s) == [d EXCEPT !.sig = s]

Defaults(r) ==
    [r EXCEPT !.runner = IF @ = "" THEN "claude" ELSE @,
              !.mode = IF @ = "" THEN "process" ELSE @]

RunnerFields(r) ==
    CASE r.runner = "claude" -> r.prompt /\ r.rounds > 0 /\ ~r.binary /\ r.steps = <<>> /\ ~r.fixed
      [] r.runner = "cli"    -> (r.binary \/ r.steps # <<>>) /\ ~(r.binary /\ r.steps # <<>>) /\ r.tools = {}
      [] OTHER               -> FALSE

ArgsDeclared(args) ==
    /\ \A i \in DOMAIN args :
         /\ args[i].name \in ArgNames
         /\ args[i].type \in {"string", "enum", "int", "bool"}
         /\ args[i].type = "enum" => args[i].values # {}
    /\ \A i, j \in DOMAIN args :
         i # j /\ args[i].pos > 0 => args[i].pos # args[j].pos

\* ValidateCommand on a recipe that has its defaults.
ValidateCommand(r) ==
    /\ r.name # "" /\ r.mode \in {"process", "passthrough"}
    /\ RunnerFields(r) /\ r.tools \subseteq ToolNames
    /\ r.schema \in {"text", "object"} /\ r.timeout # "bad"
    /\ ArgsDeclared(r.args)
    /\ \A i \in DOMAIN r.steps :
         r.steps[i].binary /\ r.steps[i].stdin = (IF i = 1 THEN "pipe" ELSE "stdout")

\* ValidateArgs: no unknown name, no required one missing, every value of its
\* type, no longer than allowed, among the values of an enum.
ValidateArgs(r, given) ==
    LET decl == {r.args[i] : i \in DOMAIN r.args}
        fits(a, v) ==
          CASE a.type = "string" -> v.type = "string" /\ (a.max > 0 => v.len <= a.max)
            [] a.type = "enum"   -> v.type = "string" /\ v.text \in a.values
            [] OTHER             -> v.type = a.type
    IN  /\ DOMAIN given \subseteq {a.name : a \in decl}
        /\ \A a \in decl : IF a.name \in DOMAIN given THEN fits(a, given[a.name]) ELSE ~a.required

-----------------------------------------------------------------------------
\* Mutant: the whole system keyring is trusted.
SystemKeyring(owner) == OwnerKeys

\* importOwnerKey and assertSingleOwnerKey: a fresh keyring with one key.
newIsolatedKeyring(owner) == {owner} \cap OwnerKeys

\* gpg --verify (external): the status lines about one signature.
gpgVerify(ring, keys, canon, s) ==
    CASE s.by \notin ring -> {"ERRSIG", "NO_PUBKEY"}
      [] s.by \in ring /\ s.over # canon -> {"BADSIG"}
      [] OTHER -> {IF keys[s.by][s.rec].exp = "past" THEN "EXPKEYSIG" ELSE "GOODSIG"}

classifyStatusLines(lines) ==
    CASE "NO_PUBKEY" \in lines -> "wrong key"
      [] "NO_PUBKEY" \notin lines /\ "GOODSIG" \in lines -> "good"
      [] {"NO_PUBKEY", "GOODSIG"} \cap lines = {} /\ "EXPKEYSIG" \in lines -> "expired"
      [] OTHER -> "invalid"

\* "broken" is an operational failure, everything else a verdict.
VerifySignature(d, owner, keys, runs) ==
    LET ring == newIsolatedKeyring(owner)
    IN  CASE d.sig = Unsigned -> "missing"
          [] d.sig # Unsigned /\ ~runs -> "broken"
          [] d.sig # Unsigned /\ runs /\ ring = {} -> "invalid"
          [] d.sig # Unsigned /\ runs /\ ring # {} /\ CheckKeyExpiry(runs, keys[owner]) # "ok" -> "expired"
          [] OTHER -> classifyStatusLines(gpgVerify(ring, keys, CanonicalCommandBytes(d), d.sig))

\* "beadle-daemon verify": the daemon's own check, without validation.
runVerify(d, signer, keys, runs) ==
    IF d = Garbage THEN "error" ELSE VerifySignature(d, signer, keys, runs)

\* Mutant: defaults are filled in before the signature is checked.
DefaultsFirst(d, owner, keys, runs) ==
    /\ d # Garbage
    /\ ValidateCommand(Defaults(d.recipe))
    /\ VerifySignature([d EXCEPT !.recipe = Defaults(d.recipe)], owner, keys, runs) = "good"

\* The signature is checked on what was written, then the recipe validated.
loadCommand(d, owner, keys, runs) ==
    /\ d # Garbage
    /\ VerifySignature(d, owner, keys, runs) = "good"
    /\ ValidateCommand(Defaults(d.recipe))

\* LoadCommands: of two files with one name the first in order wins.
LoadCommands(docs, order, owner, keys, runs) ==
    LET good == {i \in DOMAIN order : loadCommand(docs[order[i]], owner, keys, runs[order[i]])}
        first == {i \in good : \A j \in good :
                    docs[order[j]].recipe.name = docs[order[i]].recipe.name => i <= j}
        entry(r) == [name |-> r.name, written |-> r, cmd |-> Defaults(r)]
    IN  {entry(docs[order[i]].recipe) : i \in first}
=============================================================================
