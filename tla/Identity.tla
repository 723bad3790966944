------------------------------ MODULE Identity ------------------------------
(***************************************************************************)
(* Which identity a process acts as (internal/identity) and which          *)
(* configuration it then reads (internal/email/config.go), as functions of *)
(* the files on disk.  An identity is its e-mail address.                  *)
(*                                                                         *)
(* names.repo is the repository's ethos.yaml, names.active the global      *)
(* active file and names.default the default-identity file: a handle (an   *)
(* address for names.default), "absent", "empty", or Broken when it cannot *)
(* be read, does not parse or uses the deprecated field.                   *)
(***************************************************************************)
EXTENDS Naturals, Sequences, FiniteSets

CONSTANTS
    Handles,     \* the handles a file may name
    EmailOf      \* [Handles -> addresses]; Broken: a handle with a path
                 \* separator, or without a readable ethos file

Broken == "broken"

\* Mutant: a config that does not parse counts as no config.
ReadLeniently(f) == IF f \in {"absent", "empty", Broken} THEN "" ELSE f

\* An absent or empty file names nobody; one that does not parse is an error.
readRepoEthosConfig(f) == IF f \in {"absent", "empty"} THEN "" ELSE f

\* The repository's own file first, then the global one.
resolveHandle(names) ==
    LET repo == readRepoEthosConfig(names.repo)
    IN  IF repo # "" THEN repo
        ELSE IF names.active \in {"absent", "empty"} THEN "" ELSE names.active

fromEthos(h) == IF h = Broken THEN Broken ELSE EmailOf[h]

fromDefault(names) ==
    IF names.default \in {"absent", "empty"} THEN Broken ELSE names.default

\* A handle that is named but unusable is an error, never the default.
Resolve(names) ==
    LET h == resolveHandle(names)
    IN  IF h # "" THEN fromEthos(h) ELSE fromDefault(names)

\* Config files are "absent", "torn" or "ok"; so is the result, which only
\* "ok" lets go on.  The root file stands in for an absent one, not for a
\* torn one.
LoadIdentityConfig(own, root) == IF own = "absent" THEN root ELSE own

\* EnsureIdentityDir copies a file of the root directory once.
copyNeeded(dst, src) == dst = "absent" /\ src # "absent"
=============================================================================
