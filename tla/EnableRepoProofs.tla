-------------------------- MODULE EnableRepoProofs --------------------------
(***************************************************************************)
(* Proofs about EnableRepo.tla, for any processes, rules, files, faults    *)
(* and edits by others.                                                    *)
(***************************************************************************)
EXTENDS EnableRepo, TLAPS, WellFoundedInduction

BeadleOps == {"enable", "disable", "purge"}
ToolOps == {"register", "unregister"}
Dis == {"disable", "purge"}
Outs == {"run", "ok", "error", "both"}
Text == STRING \cup {"import", "other"}
Files == [lines : Seq(Text), ended : BOOLEAN]

TypeInv ==
    /\ op \in [All -> {"idle"} \cup BeadleOps \cup ToolOps]
    /\ at \in [All -> 1..5] /\ phase \in [All -> 0..3] /\ out \in [All -> Outs]
    /\ DOMAIN view = All /\ DOMAIN seen = All /\ DOMAIN added = All /\ DOMAIN before = All
    /\ host \in Files

\* Which operation a process may be in, and how far.
LastStage(o) == IF o = "enable" THEN 5 ELSE IF o \in Dis THEN 3 ELSE 1

OpOk(p) ==
    /\ IF p = Tool THEN op[p] \notin BeadleOps ELSE op[p] \notin ToolOps
    /\ op[p] = "idle" => out[p] = "run" /\ phase[p] = 0
    /\ at[p] <= LastStage(op[p])

\* The stages that hold a lock, and the step they are at.
InRegister(p, k) == /\ out[p] = "run" /\ phase[p] = k
                    /\ op[p] = "register" \/ (op[p] = "enable" /\ at[p] = 3)
InPrune(p, k) == /\ out[p] = "run" /\ phase[p] = k
                 /\ op[p] = "unregister" \/ (op[p] \in Dis /\ at[p] = 3)
InGrant(p, k) == out[p] = "run" /\ phase[p] = k /\ op[p] = "enable" /\ at[p] = 4
InMarker(p, k) == out[p] = "run" /\ phase[p] = k /\ op[p] = "enable" /\ at[p] = 5
InRevoke(p, k) == out[p] = "run" /\ phase[p] = k /\ op[p] \in Dis /\ at[p] = 1

HoldsB(p) == InRegister(p, 1) \/ InPrune(p, 1) \/ InPrune(p, 2)
HoldsC(p) == \/ InGrant(p, 1) \/ InGrant(p, 2) \/ InRevoke(p, 1) \/ InRevoke(p, 2)
             \/ InMarker(p, 2) \/ InMarker(p, 3)

LockOk(p) ==
    /\ p \in Procs /\ op[p] # "idle" => lockA = p
    /\ HoldsB(p) => lockB = p
    /\ HoldsC(p) => lockC = p

\* What was read under a lock is still so.
ViewOk(p) ==
    /\ InRegister(p, 1) \/ InPrune(p, 1) => view[p] = host
    /\ InPrune(p, 2) => host.lines = <<>>

SeenOk(p) ==
    /\ InGrant(p, 1) \/ InRevoke(p, 1) \/ InMarker(p, 2) =>
         allow = seen[p].allow /\ record = seen[p].record
    /\ InGrant(p, 2) =>
         /\ allow = seen[p].allow /\ record = seen[p].record \cup Changed(p)
         /\ grants \subseteq seen[p].record
    /\ InRevoke(p, 2) => record = seen[p].record /\ grants = {}
    /\ InMarker(p, 3) => record = seen[p].record /\ grants \cap added[p] = {}

\* What the stages of a call have brought about.
EnableOk(p) ==
    /\ at[p] > 2 => guide = "whole"
    /\ at[p] > 3 => present(host.lines, ImportLine)
    /\ at[p] < 5 => grants = before[p].grants
    /\ InMarker(p, 0) => Rules \subseteq allow
    /\ InMarker(p, 0) \/ InMarker(p, 1) \/ InMarker(p, 2) =>
         /\ grants = before[p].grants \cup added[p]
         /\ before[p].grants \cap added[p] = {} /\ added[p] \subseteq record
    /\ InMarker(p, 3) => grants = before[p].grants
    /\ out[p] = "ok" => at[p] = 5 /\ marker /\ Rules \subseteq allow
    /\ out[p] = "error" => grants = before[p].grants

DisableOk(p) ==
    /\ at[p] = 1 => marker = before[p].marker
    /\ at[p] > 1 => grants = {}
    /\ at[p] > 2 => ~marker
    /\ out[p] = "ok" => at[p] = 3 /\ ~present(host.lines, ImportLine)

CallOk(p) ==
    /\ op[p] = "enable" => EnableOk(p)
    /\ op[p] \in Dis => DisableOk(p)

Own(p) == OpOk(p) /\ LockOk(p) /\ ViewOk(p) /\ SeenOk(p) /\ CallOk(p)

\* Rules: beadle's are recorded, those of others are not.
RuleInv ==
    /\ grants \subseteq Rules /\ grants \subseteq allow /\ grants \subseteq record
    /\ theirs \subseteq allow /\ theirs \cap record = {}
    /\ settings = "absent" => allow = {}

\* CLAUDE.md.
HostInv ==
    /\ marker => present(host.lines, ImportLine)
    /\ toolIn => "other" \in Range(host.lines)
    /\ Prose(host.lines) = prose

IInv == TypeInv /\ RuleInv /\ HostInv /\ \A p \in All : Own(p)

USE DEF files, locks, local, ghosts, bounds
-----------------------------------------------------------------------------
(* The text of CLAUDE.md. *)

LEMMA LeastNatural ==
  ASSUME NEW T \in SUBSET Nat, T # {}
  PROVE  \E x \in T : \A y \in T : x <= y
<1>1. IsWellFoundedOn(OpToRel(<, Nat), Nat)
  BY NatLessThanWellFounded
<1>2. PICK x \in T : \A y \in T : ~ (<<y, x>> \in OpToRel(<, Nat))
  BY <1>1, WFMin
<1>3. \A y \in T : ~ (y < x)
  BY <1>2 DEF OpToRel
<1> QED
  BY <1>3

\* Induction up to n, on a set instead of a predicate.
LEMMA InductionTo ==
  ASSUME NEW n \in Nat, NEW T, 0 \in T, \A i \in 1..n : i - 1 \in T => i \in T
  PROVE  \A i \in 0..n : i \in T
<1> DEFINE U == {i \in 0..n : i \notin T}
<1> SUFFICES ASSUME U # {} PROVE FALSE
  OBVIOUS
<1>1. U \in SUBSET Nat
  OBVIOUS
<1>2. PICK x \in U : \A y \in U : x <= y
  BY <1>1, LeastNatural
<1>3. x \in 1..n /\ x - 1 \in 0..n
  BY <1>2
<1>4. x - 1 \in T
  BY <1>2, <1>3
<1> QED
  BY <1>2, <1>3, <1>4

\* A loop over 1..n with body st runs to its end.
Steps(st, X) == \A x \in X, i \in Nat : st[<<x, i>>] \in X
Loops(f, a, st, X, n) ==
    f \in [0..n -> X] /\ f[0] = a /\ \A i \in 1..n : f[i] = st[<<f[i - 1], i>>]

LEMMA LoopRuns ==
  ASSUME NEW X, NEW a \in X, NEW n \in Nat, NEW st, Steps(st, X)
  PROVE  \E f : Loops(f, a, st, X, n)
<1> USE DEF Steps
<1> DEFINE Runs(f, m) == f[0] = a /\ \A i \in 1..m : f[i] = st[<<f[i - 1], i>>]
           T == {m \in Nat : \E f \in [0..m -> X] : Runs(f, m)}
<1>1. 0 \in T
  <2>1. [i \in 0..0 |-> a] \in [0..0 -> X] /\ Runs([i \in 0..0 |-> a], 0)
    OBVIOUS
  <2> QED
    BY <2>1
<1>2. ASSUME NEW m \in 1..n, m - 1 \in T PROVE m \in T
  <2>1. PICK f \in [0..(m - 1) -> X] : Runs(f, m - 1)
    BY <1>2
  <2>2. m \in Nat /\ m - 1 \in Nat /\ m - 1 \in 0..(m - 1) /\ f[m - 1] \in X
    BY <2>1
  <2>3. st[<<f[m - 1], m>>] \in X
    BY <2>2
  <2> DEFINE g == [i \in 0..m |-> IF i = m THEN st[<<f[m - 1], m>>] ELSE f[i]]
  <2>4. g \in [0..m -> X]
    <3>1. \A i \in 0..m : i # m => i \in 0..(m - 1)
      BY <2>2
    <3> QED
      BY <2>1, <2>3, <3>1
  <2>5. (\A i \in 0..(m - 1) : g[i] = f[i]) /\ g[m] = st[<<f[m - 1], m>>]
    BY <2>2
  <2> HIDE DEF g
  <2>6. ASSUME NEW i \in 1..m PROVE g[i] = st[<<g[i - 1], i>>]
    <3>1. CASE i = m
      BY <2>2, <2>5, <3>1
    <3>2. CASE i # m
      <4>1. i \in 1..(m - 1) /\ i \in 0..(m - 1) /\ i - 1 \in 0..(m - 1)
        BY <2>2, <3>2
      <4> QED
        BY <2>1, <2>5, <4>1
    <3> QED
      BY <3>1, <3>2
  <2>7. g[0] = a
    BY <2>1, <2>2, <2>5
  <2> QED
    BY <2>2, <2>4, <2>6, <2>7
<1>3. n \in T
  <2> HIDE DEF T
  <2>1. \A i \in 0..n : i \in T
    BY <1>1, <1>2, InductionTo
  <2> QED
    BY <2>1
<1> QED
  BY <1>3 DEF Loops

Fence(l) == parseFence(l).run > 0
ScanState == [open : Nat, ranges : SUBSET (Nat \X Nat)]

\* f is the scan of the lines.
Scans(f, lines) ==
    /\ f \in [0..Len(lines) -> ScanState]
    /\ f[0] = [open |-> 0, ranges |-> {}]
    /\ \A i \in 1..Len(lines) : f[i] = ScanLine(lines, f[i - 1], i)

LEMMA ScanRuns ==
  ASSUME NEW lines, Len(lines) \in Nat
  PROVE  \E f : Scans(f, lines) /\ fencedRanges(lines) = f[Len(lines)].ranges
<1> DEFINE n == Len(lines)
           z == [open |-> 0, ranges |-> {}]
           st == [x \in ScanState \X Nat |-> ScanLine(lines, x[1], x[2])]
           Rec(f) == f = [i \in 0..n |-> IF i = 0 THEN z ELSE ScanLine(lines, f[i - 1], i)]
<1>1. z \in ScanState
  BY DEF ScanState
<1>2. ASSUME NEW s \in ScanState, NEW i \in Nat PROVE ScanLine(lines, s, i) \in ScanState
  <2> DEFINE o == s.open
             rs == s.ranges
  <2>1. o \in Nat /\ rs \in SUBSET (Nat \X Nat)
    BY DEF ScanState
  <2>2. <<o, i>> \in Nat \X Nat
    BY <2>1
  <2>3. /\ [open |-> i, ranges |-> rs] \in ScanState
        /\ [open |-> 0, ranges |-> rs \cup {<<o, i>>}] \in ScanState
    BY <2>1, <2>2 DEF ScanState
  <2>4. \/ ScanLine(lines, s, i) = [open |-> i, ranges |-> rs]
        \/ ScanLine(lines, s, i) = [open |-> 0, ranges |-> rs \cup {<<o, i>>}]
        \/ ScanLine(lines, s, i) = s
    BY <2>1 DEF ScanLine
  <2> QED
    BY <2>3, <2>4
<1>4. \A s \in ScanState, i \in Nat : st[<<s, i>>] = ScanLine(lines, s, i)
  OBVIOUS
<1> HIDE DEF z, st
<1>5. PICK f : Loops(f, z, st, ScanState, n)
  <2>1. n \in Nat
    OBVIOUS
  <2> HIDE DEF n
  <2>2. Steps(st, ScanState)
    BY <1>2, <1>4 DEF Steps
  <2> QED
    BY <1>1, <2>1, <2>2, LoopRuns
<1>6. Rec(f)
  <2>1. ASSUME NEW i \in 0..n PROVE f[i] = IF i = 0 THEN z ELSE ScanLine(lines, f[i - 1], i)
    <3>1. CASE i = 0
      BY <1>5, <3>1 DEF Loops
    <3>2. CASE i # 0
      <4>1. i \in 1..n /\ i - 1 \in 0..n /\ i \in Nat
        BY <3>2
      <4> QED
        BY <1>4, <1>5, <3>2, <4>1 DEF Loops
    <3> QED
      BY <3>1, <3>2
  <2> QED
    BY <1>5, <2>1 DEF Loops
<1> DEFINE g == CHOOSE h : Rec(h)
<1>7. Rec(g)
  BY <1>6
<1>8. fencedRanges(lines) = g[n].ranges
  BY DEF fencedRanges, z
<1> HIDE DEF g
<1>9. g[0] = z /\ \A i \in 1..n : g[i] = ScanLine(lines, g[i - 1], i)
  BY <1>7
<1>10. \A i \in 0..n : g[i] \in ScanState
  <2> DEFINE T == {i \in 0..n : g[i] \in ScanState}
  <2>1. 0 \in T
    BY <1>1, <1>9
  <2>2. ASSUME NEW i \in 1..n, i - 1 \in T PROVE i \in T
    BY <1>2, <1>9, <2>2
  <2> HIDE DEF T
  <2>3. \A i \in 0..n : i \in T
    BY <2>1, <2>2, InductionTo
  <2> QED
    BY <2>3 DEF T
<1>11. g \in [0..n -> ScanState]
  BY <1>7, <1>10
<1> QED
  BY <1>8, <1>9, <1>11 DEF Scans, z

\* g is what is left of the lines when the positions in D go; c[i] says how
\* many of the first i are left.
Shrinks(c, lines, g, D) ==
    /\ c \in [0..Len(lines) -> 0..Len(g)] /\ c[0] = 0 /\ c[Len(lines)] = Len(g)
    /\ \A i \in 1..Len(lines) :
         IF i \in D THEN c[i] = c[i - 1] ELSE c[i] = c[i - 1] + 1 /\ g[c[i]] = lines[i]

LEMMA Counting ==
  ASSUME NEW lines, NEW g, NEW D, NEW c, Len(lines) \in Nat, Len(g) \in Nat,
         Shrinks(c, lines, g, D)
  PROVE  /\ \A i, j \in 0..Len(lines) : i <= j => c[i] <= c[j]
         /\ \A i \in 0..Len(lines), j \in 1..Len(lines) : i < j /\ j \notin D => c[i] < c[j]
         /\ \A k \in 1..Len(g) : \E i \in 1..Len(lines) : i \notin D /\ c[i] = k
<1> DEFINE n == Len(lines)
<1>1. /\ \A i \in 0..n : c[i] \in Nat
      /\ c[0] = 0 /\ c[n] = Len(g)
      /\ \A i \in 1..n : IF i \in D THEN c[i] = c[i - 1] ELSE c[i] = c[i - 1] + 1
  BY DEF Shrinks
<1> HIDE DEF n
<1>2. n \in Nat
  BY DEF n
<1>3. \A i, j \in 0..n : i <= j => c[i] <= c[j]
  <2> DEFINE T == {j \in 0..n : \A i \in 0..j : c[i] <= c[j]}
  <2>1. 0 \in T
    BY <1>1, <1>2
  <2>2. ASSUME NEW j \in 1..n, j - 1 \in T PROVE j \in T
    <3>1. j - 1 \in 0..n /\ j \in 0..n
      BY <1>2
    <3>2. c[j - 1] <= c[j]
      BY <1>1, <3>1
    <3>3. ASSUME NEW i \in 0..j PROVE c[i] <= c[j]
      <4>1. CASE i = j
        BY <1>1, <3>1, <4>1
      <4>2. CASE i # j
        <5>1. i \in 0..(j - 1) /\ i \in 0..n
          BY <1>2, <4>2
        <5>2. c[i] <= c[j - 1]
          BY <2>2, <5>1
        <5> QED
          BY <1>1, <3>1, <3>2, <5>1, <5>2
      <4> QED
        BY <4>1, <4>2
    <3> QED
      BY <3>1, <3>3
  <2> HIDE DEF T
  <2>3. \A j \in 0..n : j \in T
    BY <1>2, <2>1, <2>2, InductionTo
  <2>4. ASSUME NEW i \in 0..n, NEW j \in 0..n, i <= j PROVE c[i] <= c[j]
    BY <2>3, <2>4 DEF T
  <2> QED
    BY <2>4
<1>4. ASSUME NEW i \in 0..n, NEW j \in 1..n, i < j, j \notin D PROVE c[i] < c[j]
  <2>1. j - 1 \in 0..n /\ i <= j - 1 /\ j \in 0..n
    BY <1>2, <1>4
  <2>2. c[i] <= c[j - 1]
    BY <1>3, <2>1
  <2> QED
    BY <1>1, <1>4, <2>1, <2>2
<1>5. \A k \in 1..Len(g) : \E i \in 1..n : i \notin D /\ c[i] = k
  <2> DEFINE T == {j \in 0..n : \A k \in 1..c[j] : \E i \in 1..n : i \notin D /\ c[i] = k}
  <2>1. 0 \in T
    BY <1>1, <1>2
  <2>2. ASSUME NEW j \in 1..n, j - 1 \in T PROVE j \in T
    <3>1. j - 1 \in 0..n /\ j \in 0..n
      BY <1>2
    <3>2. ASSUME NEW k \in 1..c[j] PROVE \E i \in 1..n : i \notin D /\ c[i] = k
      <4>1. CASE k \in 1..c[j - 1]
        BY <2>2, <4>1
      <4>2. CASE k \notin 1..c[j - 1]
        <5>1. j \notin D /\ c[j] = k
          BY <1>1, <3>1, <4>2
        <5> QED
          BY <5>1
      <4> QED
        BY <4>1, <4>2
    <3> QED
      BY <3>1, <3>2
  <2> HIDE DEF T
  <2>3. n \in T
    <3>1. \A j \in 0..n : j \in T
      BY <1>2, <2>1, <2>2, InductionTo
    <3> QED
      BY <1>2, <3>1
  <2> QED
    BY <1>1, <2>3 DEF T
<1> QED
  BY <1>3, <1>4, <1>5 DEF n

LEMMA FenceRun == \A l : parseFence(l).run \in Nat
BY DEF parseFence

\* A line that is no fence changes nothing.
LEMMA PlainLine ==
  ASSUME NEW lines, NEW s \in ScanState, NEW i \in Nat, ~ Fence(lines[i]),
         s.open > 0 => Fence(lines[s.open])
  PROVE  ScanLine(lines, s, i) = s
<1>1. parseFence(lines[i]).run \in Nat /\ parseFence(lines[s.open]).run \in Nat
  BY FenceRun
<1>2. s.open \in Nat
  BY DEF ScanState
<1> QED
  BY <1>1, <1>2 DEF ScanLine, Closes, Fence

\* The scan of what is left, seen from the scan of all.
Follows(f, h, c, D, lines, i) ==
    LET s == f[i]
        t == h[c[i]]
    IN  /\ s.open \in 0..i
        /\ s.open > 0 => s.open \notin D /\ Fence(lines[s.open])
        /\ \A r \in s.ranges : r[1] \in 1..i /\ r[2] \in 1..i /\ r[1] \notin D /\ r[2] \notin D
        /\ t.open = c[s.open]
        /\ \A x : x \in t.ranges <=> \E r \in s.ranges : x = <<c[r[1]], c[r[2]]>>

LEMMA FollowStep ==
  ASSUME NEW lines, NEW g, NEW D, NEW c, NEW f, NEW h, Len(lines) \in Nat, Len(g) \in Nat,
         Shrinks(c, lines, g, D), Scans(f, lines), Scans(h, g),
         \A i \in 1..Len(lines) : i \in D => ~ Fence(lines[i]),
         NEW i \in 1..Len(lines), Follows(f, h, c, D, lines, i - 1)
  PROVE  Follows(f, h, c, D, lines, i)
<1> DEFINE n == Len(lines)
           s == f[i - 1]
           t == h[c[i - 1]]
           o == s.open
           rs == s.ranges
<1>1. i - 1 \in 0..n /\ i \in 0..n /\ i \in Nat /\ i - 1 \in Nat
  OBVIOUS
<1>2. s \in ScanState /\ f[i] = ScanLine(lines, s, i)
  BY <1>1 DEF Scans
<1>3. c[i - 1] \in 0..Len(g) /\ c[i] \in 0..Len(g)
  BY <1>1 DEF Shrinks
<1>4. t \in ScanState
  BY <1>3 DEF Scans
<1>5. /\ o \in 0..(i - 1)
      /\ o > 0 => o \notin D /\ Fence(lines[o])
      /\ \A r \in rs : r[1] \in 1..(i - 1) /\ r[2] \in 1..(i - 1) /\ r[1] \notin D /\ r[2] \notin D
      /\ t.open = c[o]
      /\ \A x : x \in t.ranges <=> \E r \in rs : x = <<c[r[1]], c[r[2]]>>
  BY DEF Follows
<1>6. o \in 0..i /\ \A r \in rs : r[1] \in 1..i /\ r[2] \in 1..i /\ r[1] \notin D /\ r[2] \notin D
  BY <1>1, <1>5
<1>7. CASE i \in D
  <2>1. f[i] = s
    BY <1>1, <1>2, <1>5, <1>7, PlainLine
  <2>2. c[i] = c[i - 1]
    BY <1>7 DEF Shrinks
  <2> HIDE DEF s, t
  <2>3. h[c[i]] = t
    BY <2>2 DEF t
  <2> QED
    BY <1>5, <1>6, <2>1, <2>3 DEF Follows
<1>8. CASE i \notin D
  <2> DEFINE k == c[i]
  <2>1. k = c[i - 1] + 1 /\ g[k] = lines[i]
    BY <1>8 DEF Shrinks
  <2>2. k \in 1..Len(g) /\ k - 1 = c[i - 1] /\ k \in Nat
    BY <1>3, <2>1
  <2>3. h[k] = ScanLine(g, t, k)
    BY <2>2 DEF Scans
  <2>4. o > 0 => o \in 1..n /\ o \in 0..n
    BY <1>1, <1>5
  <2>5. o > 0 => g[c[o]] = lines[o] /\ c[o] \in Nat /\ c[o] > 0
    <3> SUFFICES ASSUME o > 0 PROVE g[c[o]] = lines[o] /\ c[o] \in Nat /\ c[o] > 0
      OBVIOUS
    <3>1. o \in 1..n /\ o \notin D /\ o - 1 \in 0..n
      BY <1>5, <2>4
    <3>2. c[o] = c[o - 1] + 1 /\ g[c[o]] = lines[o] /\ c[o - 1] \in 0..Len(g)
      BY <3>1 DEF Shrinks
    <3> QED
      BY <3>2, SMTT(30)
  <2>6. c[0] = 0 /\ o \in Nat /\ t.open \in Nat
    BY <1>4, <1>5 DEF Shrinks, ScanState
  <2>7. t.open = 0 <=> o = 0
    BY <1>5, <2>5, <2>6
  <2>8. parseFence(g[k]) = parseFence(lines[i])
    BY <2>1
  <2>9. o > 0 => (Closes(g[t.open], g[k]) <=> Closes(lines[o], lines[i]))
    BY <1>5, <2>1, <2>5
  <2>10. CASE o = 0 /\ Fence(lines[i])
    <3>1. f[i] = [open |-> i, ranges |-> rs]
      BY <1>2, <2>10 DEF ScanLine, Fence
    <3>2. h[k] = [open |-> k, ranges |-> t.ranges]
      BY <2>3, <2>7, <2>8, <2>10 DEF ScanLine, Fence
    <3>3. f[i].open = i /\ f[i].ranges = rs /\ h[k].open = k /\ h[k].ranges = t.ranges
      BY <3>1, <3>2
    <3> HIDE DEF s, t, o, rs
    <3> QED
      BY <1>1, <1>5, <1>6, <1>8, <2>10, <3>3 DEF Follows
  <2>11. CASE o > 0 /\ Closes(lines[o], lines[i])
    <3>1. f[i] = [open |-> 0, ranges |-> rs \cup {<<o, i>>}]
      BY <1>2, <2>6, <2>11 DEF ScanLine
    <3>2. h[k] = [open |-> 0, ranges |-> t.ranges \cup {<<t.open, k>>}]
      BY <2>3, <2>6, <2>7, <2>9, <2>11 DEF ScanLine
    <3>3. /\ f[i].open = 0 /\ f[i].ranges = rs \cup {<<o, i>>}
          /\ h[k].open = 0 /\ h[k].ranges = t.ranges \cup {<<c[o], k>>}
      BY <1>5, <3>1, <3>2
    <3> HIDE DEF s, t, o, rs
    <3> DEFINE q == <<o, i>>
    <3>4. q[1] = o /\ q[2] = i
      OBVIOUS
    <3>5. q[1] \in 1..i /\ q[2] \in 1..i /\ q[1] \notin D /\ q[2] \notin D
      BY <1>1, <1>5, <1>8, <2>11, <3>4
    <3>6. ASSUME NEW x PROVE x \in h[k].ranges <=> \E r \in f[i].ranges : x = <<c[r[1]], c[r[2]]>>
      <4>1. x \in h[k].ranges <=> x \in t.ranges \/ x = <<c[q[1]], c[q[2]]>>
        BY <3>3, <3>4
      <4>2. f[i].ranges = rs \cup {q}
        BY <3>3
      <4> HIDE DEF q
      <4> QED
        BY <1>5, <4>1, <4>2
    <3>7. \A r \in f[i].ranges : r[1] \in 1..i /\ r[2] \in 1..i /\ r[1] \notin D /\ r[2] \notin D
      <4>1. f[i].ranges = rs \cup {q}
        BY <3>3
      <4> HIDE DEF q
      <4> QED
        BY <1>6, <3>5, <4>1
    <3>8. h[k].open = c[f[i].open] /\ f[i].open \in 0..i /\ ~ (f[i].open > 0)
      BY <1>1, <2>6, <3>3
    <3> QED
      BY <3>6, <3>7, <3>8 DEF Follows
  <2>12. CASE ~ (o = 0 /\ Fence(lines[i])) /\ ~ (o > 0 /\ Closes(lines[o], lines[i]))
    <3>1. f[i] = s
      BY <1>2, <2>6, <2>12 DEF ScanLine, Fence
    <3>2. h[k] = t
      BY <2>3, <2>6, <2>7, <2>8, <2>9, <2>12 DEF ScanLine, Fence
    <3> HIDE DEF s, t
    <3> QED
      BY <1>5, <1>6, <3>1, <3>2 DEF Follows
  <2> QED
    BY <2>10, <2>11, <2>12
<1> QED
  BY <1>7, <1>8

\* Lines that are no fences can go or come: every other line is as much in a
\* code block as before.
LEMMA BlocksStay ==
  ASSUME NEW lines, NEW g, NEW D, NEW c, Len(lines) \in Nat, Len(g) \in Nat,
         DOMAIN lines = 1..Len(lines), DOMAIN g = 1..Len(g),
         Shrinks(c, lines, g, D), \A i \in 1..Len(lines) : i \in D => ~ Fence(lines[i])
  PROVE  /\ \A r \in fencedRanges(lines) : r[2] \in 1..Len(lines) /\ r[2] \notin D
         /\ \A i \in 1..Len(lines) : i \notin D =>
              /\ c[i] \in 1..Len(g) /\ g[c[i]] = lines[i]
              /\ i \in scanTopLevel(lines) <=> c[i] \in scanTopLevel(g)
<1> DEFINE n == Len(lines)
<1>1. PICK f : Scans(f, lines) /\ fencedRanges(lines) = f[n].ranges
  BY ScanRuns
<1>2. PICK h : Scans(h, g) /\ fencedRanges(g) = h[Len(g)].ranges
  BY ScanRuns
<1>3. Follows(f, h, c, D, lines, n)
  <2> DEFINE T == {i \in 0..n : Follows(f, h, c, D, lines, i)}
  <2>1. 0 \in T
    <3>1. c[0] = 0
      BY DEF Shrinks
    <3>2. f[0] = [open |-> 0, ranges |-> {}] /\ h[0] = [open |-> 0, ranges |-> {}]
      BY <1>1, <1>2 DEF Scans
    <3>3. f[0].open = 0 /\ f[0].ranges = {} /\ h[c[0]].open = 0 /\ h[c[0]].ranges = {}
      BY <3>1, <3>2
    <3> QED
      BY <3>1, <3>3 DEF Follows
  <2>2. ASSUME NEW i \in 1..n, i - 1 \in T PROVE i \in T
    BY <1>1, <1>2, <2>2, FollowStep
  <2> HIDE DEF T
  <2>3. \A i \in 0..n : i \in T
    BY <2>1, <2>2, InductionTo
  <2> QED
    BY <2>3 DEF T
<1>4. c[n] = Len(g)
  BY DEF Shrinks
<1> DEFINE R == fencedRanges(lines)
           Q == fencedRanges(g)
<1>5. /\ \A r \in R : r[1] \in 1..n /\ r[2] \in 1..n /\ r[1] \notin D /\ r[2] \notin D
      /\ \A x : x \in Q <=> \E r \in R : x = <<c[r[1]], c[r[2]]>>
  BY <1>1, <1>2, <1>3, <1>4 DEF Follows
<1> HIDE DEF R, Q
<1>6. /\ \A i, j \in 0..n : i <= j => c[i] <= c[j]
      /\ \A i \in 0..n, j \in 1..n : i < j /\ j \notin D => c[i] < c[j]
  BY Counting
<1>7. \A i \in 0..n : c[i] \in Nat
  BY DEF Shrinks
<1> SUFFICES ASSUME NEW i \in 1..n, i \notin D
             PROVE  /\ c[i] \in 1..Len(g) /\ g[c[i]] = lines[i]
                    /\ i \in scanTopLevel(lines) <=> c[i] \in scanTopLevel(g)
  BY <1>5 DEF R
<1>8. c[i] \in 1..Len(g) /\ g[c[i]] = lines[i]
  <2>1. i - 1 \in 0..n /\ i \in 0..n
    OBVIOUS
  <2>2. c[i] = c[i - 1] + 1 /\ g[c[i]] = lines[i] /\ c[i - 1] \in 0..Len(g) /\ c[i] \in 0..Len(g)
    BY <2>1 DEF Shrinks
  <2> QED
    BY <2>2
<1>9. ASSUME NEW a \in 1..n, NEW b \in 1..n, a \notin D, b \notin D
      PROVE  (a < i /\ i <= b) <=> (c[a] < c[i] /\ c[i] <= c[b])
  <2>1. a \in 0..n /\ b \in 0..n /\ i \in 0..n /\ a \in Nat /\ b \in Nat /\ i \in Nat
    OBVIOUS
  <2>2. (a < i => c[a] < c[i]) /\ (i <= a => c[i] <= c[a])
    BY <1>6, <2>1
  <2>3. (i <= b => c[i] <= c[b]) /\ (b < i => c[b] < c[i])
    BY <1>6, <2>1
  <2> QED
    BY <1>7, <2>1, <2>2, <2>3
<1>10. (\A r \in R : ~ (r[1] < i /\ i <= r[2])) <=> (\A x \in Q : ~ (x[1] < c[i] /\ c[i] <= x[2]))
  <2>1. ASSUME NEW r \in R PROVE (r[1] < i /\ i <= r[2]) <=> (c[r[1]] < c[i] /\ c[i] <= c[r[2]])
    BY <1>5, <1>9
  <2>2. \A r \in R : <<c[r[1]], c[r[2]]>> \in Q
    BY <1>5
  <2>3. \A x \in Q : \E r \in R : x[1] = c[r[1]] /\ x[2] = c[r[2]]
    BY <1>5
  <2>4. \A u, v : <<u, v>>[1] = u /\ <<u, v>>[2] = v
    OBVIOUS
  <2> QED
    BY <2>1, <2>2, <2>3, <2>4
<1> QED
  BY <1>8, <1>10 DEF scanTopLevel, R, Q

\* What holds of what is left, in the words of the properties.
LEMMA LeftOver ==
  ASSUME NEW lines \in Seq(Text), NEW g \in Seq(Text), NEW D, NEW c,
         Shrinks(c, lines, g, D), \A i \in 1..Len(lines) : i \in D => ~ Fence(lines[i]),
         \A i \in 1..Len(lines) : i \in D => i \in scanTopLevel(lines)
  PROVE  /\ \A y : present(g, y) <=> \E i \in scanTopLevel(lines) : i \notin D /\ lines[i] = y
         /\ \A y : y \in Range(g) <=> \E i \in DOMAIN lines : i \notin D /\ lines[i] = y
<1> DEFINE n == Len(lines)
           m == Len(g)
<1>1. n \in Nat /\ m \in Nat /\ DOMAIN lines = 1..n /\ DOMAIN g = 1..m
  OBVIOUS
<1>2. \A i \in 1..n : i \notin D =>
        /\ c[i] \in 1..m /\ g[c[i]] = lines[i]
        /\ i \in scanTopLevel(lines) <=> c[i] \in scanTopLevel(g)
  BY <1>1, BlocksStay
<1>3. /\ \A i \in 0..n, j \in 1..n : i < j /\ j \notin D => c[i] < c[j]
      /\ \A k \in 1..m : \E i \in 1..n : i \notin D /\ c[i] = k
  BY <1>1, Counting
<1>4. (\A i \in scanTopLevel(lines) : i \in 1..n) /\ (\A k \in scanTopLevel(g) : k \in 1..m)
  BY <1>1 DEF scanTopLevel
<1> HIDE DEF n, m
<1>5. ASSUME NEW y PROVE present(g, y) <=> \E i \in scanTopLevel(lines) : i \notin D /\ lines[i] = y
  <2>1. ASSUME NEW k \in scanTopLevel(g), g[k] = y
        PROVE  \E i \in scanTopLevel(lines) : i \notin D /\ lines[i] = y
    BY <1>2, <1>3, <1>4, <2>1
  <2>2. ASSUME NEW i \in scanTopLevel(lines), i \notin D, lines[i] = y
        PROVE  \E k \in scanTopLevel(g) : g[k] = y
    BY <1>2, <1>4, <2>2
  <2> QED
    BY <2>1, <2>2 DEF present
<1>6. ASSUME NEW y PROVE y \in Range(g) <=> \E i \in DOMAIN lines : i \notin D /\ lines[i] = y
  <2>1. y \in Range(g) <=> \E k \in 1..m : g[k] = y
    BY <1>1 DEF Range
  <2>2. ASSUME NEW l \in 1..m, g[l] = y PROVE \E i \in 1..n : i \notin D /\ lines[i] = y
    BY <1>2, <1>3, <2>2
  <2>3. ASSUME NEW i \in 1..n, i \notin D, lines[i] = y PROVE \E l \in 1..m : g[l] = y
    BY <1>2, <2>3
  <2> QED
    BY <1>1, <2>1, <2>2, <2>3
<1> QED
  BY <1>5, <1>6

\* An import line is no fence and not indented.
LEMMA ImportPlain == \A p : Line(p) \in {"import", "other"} /\ ~ Fence(Line(p)) /\ ~ isIndented(Line(p))
<1>1. \A p : Line(p) = "import" \/ Line(p) = "other"
  BY DEF Line, ImportLine
<1>2. parseFence("import").run = 0 /\ parseFence("other").run = 0
  BY DEF parseFence
<1>3. ~ Fence("import") /\ ~ Fence("other") /\ ~ isIndented("import") /\ ~ isIndented("other")
  BY <1>2 DEF Fence, isIndented
<1> QED
  BY <1>1, <1>3

LEMMA AppendForm ==
  ASSUME NEW W, NEW s \in Seq(W), NEW x \in W
  PROVE  /\ Append(s, x) \in Seq(W) /\ Len(Append(s, x)) = Len(s) + 1 /\ Len(s) \in Nat
         /\ Append(s, x)[Len(s) + 1] = x
         /\ \A i \in 1..Len(s) : Append(s, x)[i] = s[i]
OBVIOUS

LEMMA WithoutShrinks ==
  ASSUME NEW lines \in Seq(Text), NEW D
  PROVE  /\ Without(lines, D) \in Seq(Text)
         /\ \E c : Shrinks(c, lines, Without(lines, D), D)
<1> DEFINE n == Len(lines)
           X == Seq(Text)
           st == [x \in X \X Nat |->
                    IF x[2] \in D \/ x[2] \notin 1..n THEN x[1] ELSE Append(x[1], lines[x[2]])]
           Rec(f) == f = [i \in 0..n |-> IF i = 0 THEN <<>> ELSE
                            IF i \in D THEN f[i - 1] ELSE Append(f[i - 1], lines[i])]
<1>1. n \in Nat /\ \A i \in 1..n : lines[i] \in Text
  OBVIOUS
<1>2. <<>> \in X
  OBVIOUS
<1> HIDE DEF n
<1>3. \A x \in X, i \in Nat :
        st[<<x, i>>] = IF i \in D \/ i \notin 1..n THEN x ELSE Append(x, lines[i])
  OBVIOUS
<1> HIDE DEF st
<1>4. Steps(st, X)
  <2> SUFFICES ASSUME NEW x \in X, NEW i \in Nat PROVE st[<<x, i>>] \in X
    BY DEF Steps
  <2>1. i \in 1..n => Append(x, lines[i]) \in X
    BY <1>1, AppendForm
  <2> HIDE DEF X
  <2>2. st[<<x, i>>] = IF i \in D \/ i \notin 1..n THEN x ELSE Append(x, lines[i])
    BY <1>3
  <2> QED
    BY <2>1, <2>2
<1>5. PICK f : Loops(f, <<>>, st, X, n)
  <2> HIDE DEF X
  <2> QED
    BY <1>1, <1>2, <1>4, LoopRuns
<1>6. Rec(f)
  <2>1. f \in [0..n -> X] /\ f[0] = <<>> /\ \A i \in 1..n : f[i] = st[<<f[i - 1], i>>]
    BY <1>5 DEF Loops
  <2>2. ASSUME NEW i \in 1..n PROVE f[i] = IF i \in D THEN f[i - 1] ELSE Append(f[i - 1], lines[i])
    <3>1. i - 1 \in 0..n /\ i \in Nat
      BY <1>1
    <3>2. f[i - 1] \in X
      BY <2>1, <3>1
    <3> QED
      BY <1>3, <2>1, <3>1, <3>2
  <2>3. ASSUME NEW i \in 0..n
        PROVE  f[i] = IF i = 0 THEN <<>> ELSE IF i \in D THEN f[i - 1] ELSE Append(f[i - 1], lines[i])
    <3>1. CASE i = 0
      BY <2>1, <3>1
    <3>2. CASE i # 0
      <4>1. i \in 1..n
        BY <1>1, <3>2
      <4> QED
        BY <2>2, <3>2, <4>1
    <3> QED
      BY <3>1, <3>2
  <2> QED
    BY <2>1, <2>3
<1> DEFINE k == CHOOSE h : Rec(h)
<1>7. Rec(k)
  BY <1>6
<1>8. Without(lines, D) = k[n]
  BY DEF Without, n
<1> HIDE DEF k
<1> DEFINE e == <<>>
<1>e. e \in X /\ Len(e) = 0
  OBVIOUS
<1> DEFINE body(i) == IF i \in D THEN k[i - 1] ELSE Append(k[i - 1], lines[i])
<1>7a. k = [i \in 0..n |-> IF i = 0 THEN e ELSE body(i)]
  BY <1>7
<1> HIDE DEF e, Rec, body
<1>9. /\ k[0] = e
      /\ \A i \in 1..n : k[i] = IF i \in D THEN k[i - 1] ELSE Append(k[i - 1], lines[i])
  <2>1. k[0] = e /\ \A i \in 1..n : k[i] = body(i)
    BY <1>1, <1>7a
  <2> QED
    BY <2>1 DEF body
<1>10. \A i \in 0..n : k[i] \in X
  <2> DEFINE T == {i \in 0..n : k[i] \in X}
  <2>1. 0 \in T
    <3> HIDE DEF X
    <3> QED
      BY <1>1, <1>e, <1>9
  <2>2. ASSUME NEW i \in 1..n, i - 1 \in T PROVE i \in T
    <3>1. i \in 0..n /\ k[i - 1] \in X
      BY <1>1, <2>2
    <3>2. Append(k[i - 1], lines[i]) \in X
      BY <1>1, <3>1, AppendForm
    <3> HIDE DEF X
    <3>3. k[i] \in X
      BY <1>9, <3>1, <3>2
    <3> QED
      BY <3>1, <3>3
  <2> HIDE DEF T
  <2>3. \A i \in 0..n : i \in T
    BY <1>1, <2>1, <2>2, InductionTo
  <2> QED
    BY <2>3 DEF T
<1> DEFINE c == [i \in 0..n |-> Len(k[i])]
<1>11. \A i \in 0..n : Len(k[i]) \in Nat
  BY <1>10
<1>12. \A i \in 1..n : IF i \in D THEN Len(k[i]) = Len(k[i - 1]) ELSE Len(k[i]) = Len(k[i - 1]) + 1
  <2> SUFFICES ASSUME NEW i \in 1..n
               PROVE IF i \in D THEN Len(k[i]) = Len(k[i - 1]) ELSE Len(k[i]) = Len(k[i - 1]) + 1
    OBVIOUS
  <2>1. i - 1 \in 0..n /\ k[i - 1] \in X
    BY <1>1, <1>10
  <2>2. Len(Append(k[i - 1], lines[i])) = Len(k[i - 1]) + 1
    BY <1>1, <2>1, AppendForm
  <2> QED
    BY <1>9, <2>2
<1>13. \A i \in 0..n : Len(k[i]) <= Len(k[n]) /\ (i > 0 /\ i \notin D => k[n][Len(k[i])] = lines[i])
  <2> DEFINE Good(j) == \A i \in 0..j : /\ Len(k[i]) <= Len(k[j])
                                        /\ i > 0 /\ i \notin D => k[j][Len(k[i])] = lines[i]
             T == {j \in 0..n : Good(j)}
  <2>1. 0 \in T
    BY <1>1, <1>11
  <2>2. ASSUME NEW j \in 1..n, j - 1 \in T PROVE j \in T
    <3>1. j - 1 \in 0..n /\ j \in 0..n /\ k[j - 1] \in X /\ lines[j] \in Text
      BY <1>1, <1>10
    <3>2. Good(j - 1)
      BY <2>2
    <3>3. ASSUME NEW i \in 0..j
          PROVE  Len(k[i]) <= Len(k[j]) /\ (i > 0 /\ i \notin D => k[j][Len(k[i])] = lines[i])
      <4>1. CASE i = j
        <5>1. Len(k[i]) <= Len(k[j])
          BY <1>11, <3>1, <4>1
        <5>2. ASSUME i \notin D PROVE k[j][Len(k[i])] = lines[i]
          <6>1. k[j] = Append(k[j - 1], lines[j])
            BY <1>9, <4>1, <5>2
          <6>2. Len(k[j]) = Len(k[j - 1]) + 1 /\ Append(k[j - 1], lines[j])[Len(k[j - 1]) + 1] = lines[j]
            BY <1>12, <3>1, <4>1, <5>2
          <6> QED
            BY <4>1, <6>1, <6>2
        <5> QED
          BY <5>1, <5>2
      <4>2. CASE i # j
        <5>1. i \in 0..(j - 1) /\ i \in 0..n /\ i - 1 \in Int
          BY <1>1, <4>2
        <5>2. Len(k[i]) <= Len(k[j - 1]) /\ (i > 0 /\ i \notin D => k[j - 1][Len(k[i])] = lines[i])
          BY <3>2, <5>1
        <5>3. Len(k[j - 1]) <= Len(k[j])
          BY <1>11, <1>12, <3>1
        <5>4. Len(k[i]) <= Len(k[j])
          BY <1>11, <3>1, <5>1, <5>2, <5>3
        <5>5. ASSUME i > 0, i \notin D PROVE k[j][Len(k[i])] = lines[i]
          <6>1. i \in 1..n /\ i - 1 \in 0..n
            BY <1>1, <5>1, <5>5
          <6>2. Len(k[i]) \in 1..Len(k[j - 1])
            BY <1>11, <1>12, <3>1, <5>1, <5>2, <5>5, <6>1
          <6>3. k[j][Len(k[i])] = k[j - 1][Len(k[i])]
            <7>1. CASE j \in D
              BY <1>9, <7>1
            <7>2. CASE j \notin D
              <8>1. k[j] = Append(k[j - 1], lines[j])
                BY <1>9, <7>2
              <8>2. \A l \in 1..Len(k[j - 1]) : Append(k[j - 1], lines[j])[l] = k[j - 1][l]
                BY <3>1
              <8> QED
                BY <6>2, <8>1, <8>2
            <7> QED
              BY <7>1, <7>2
          <6> QED
            BY <5>2, <5>5, <6>3
        <5> QED
          BY <5>4, <5>5
      <4> QED
        BY <4>1, <4>2
    <3> QED
      BY <3>1, <3>3
  <2> HIDE DEF T
  <2>3. n \in T
    <3>1. \A j \in 0..n : j \in T
      BY <1>1, <2>1, <2>2, InductionTo
    <3> QED
      BY <1>1, <3>1
  <2> QED
    BY <1>1, <2>3 DEF T
<1> DEFINE g == k[n]
<1>14. /\ \A i \in 0..n : c[i] = Len(k[i]) /\ c[i] \in 0..Len(g)
       /\ c = [i \in 0..n |-> c[i]]
  BY <1>1, <1>11, <1>13
<1>15. c[0] = 0
  <2>1. Len(k[0]) = 0
    BY <1>e, <1>9
  <2> QED
    BY <1>1, <2>1
<1> HIDE DEF c
<1>16. ASSUME NEW i \in 1..n
       PROVE  IF i \in D THEN c[i] = c[i - 1] ELSE c[i] = c[i - 1] + 1 /\ g[c[i]] = lines[i]
  <2>1. i \in 0..n /\ i - 1 \in 0..n /\ i > 0
    BY <1>1
  <2>2. c[i] = Len(k[i]) /\ c[i - 1] = Len(k[i - 1])
    BY <1>14, <2>1
  <2>3. i \notin D => g[Len(k[i])] = lines[i]
    BY <1>13, <2>1
  <2> QED
    BY <1>12, <2>2, <2>3
<1>17. Shrinks(c, lines, g, D)
  <2>1. c[n] = Len(g) /\ c \in [0..n -> 0..Len(g)]
    BY <1>1, <1>14
  <2> QED
    BY <1>15, <1>16, <2>1 DEF Shrinks, n
<1>18. g \in Seq(Text)
  BY <1>1, <1>10
<1> QED
  BY <1>8, <1>17, <1>18

\* Two shrinkings, one after the other.
LEMMA TwoShrink ==
  ASSUME NEW lines, NEW g, NEW h, NEW D, NEW E, NEW F, NEW c, NEW d,
         Len(lines) \in Nat, Len(g) \in Nat, Len(h) \in Nat,
         Shrinks(c, lines, g, D), Shrinks(d, g, h, F),
         \A i \in 1..Len(lines) : i \in E <=> i \in D \/ c[i] \in F
  PROVE  \E e : Shrinks(e, lines, h, E)
<1> DEFINE n == Len(lines)
           m == Len(g)
           l == Len(h)
           e == [i \in 0..n |-> d[c[i]]]
<1>1. /\ \A i \in 0..n : c[i] \in 0..m
      /\ c[0] = 0 /\ c[n] = m
      /\ \A i \in 1..n : IF i \in D THEN c[i] = c[i - 1] ELSE c[i] = c[i - 1] + 1 /\ g[c[i]] = lines[i]
  BY DEF Shrinks
<1>2. /\ \A j \in 0..m : d[j] \in 0..l
      /\ d[0] = 0 /\ d[m] = l
      /\ \A j \in 1..m : IF j \in F THEN d[j] = d[j - 1] ELSE d[j] = d[j - 1] + 1 /\ h[d[j]] = g[j]
  BY DEF Shrinks
<1>3. n \in Nat /\ m \in Nat /\ l \in Nat
  OBVIOUS
<1>4. \A i \in 1..n : i \in E <=> i \in D \/ c[i] \in F
  OBVIOUS
<1> HIDE DEF n, m, l
<1>5. \A i \in 0..n : e[i] = d[c[i]] /\ e[i] \in 0..l
  BY <1>1, <1>2
<1>6. e \in [0..n -> 0..l]
  BY <1>1, <1>2
<1> HIDE DEF e
<1>7. e[0] = 0 /\ e[n] = l
  BY <1>1, <1>2, <1>3, <1>5
<1>8. ASSUME NEW i \in 1..n
      PROVE  IF i \in E THEN e[i] = e[i - 1] ELSE e[i] = e[i - 1] + 1 /\ h[e[i]] = lines[i]
  <2>1. i \in 0..n /\ i - 1 \in 0..n
    BY <1>3
  <2>2. c[i] \in 0..m /\ c[i - 1] \in 0..m /\ e[i] = d[c[i]] /\ e[i - 1] = d[c[i - 1]]
    BY <1>1, <1>5, <2>1
  <2>3. CASE i \in D
    BY <1>1, <1>4, <2>2, <2>3
  <2>4. CASE i \notin D
    <3>1. c[i] = c[i - 1] + 1 /\ g[c[i]] = lines[i]
      BY <1>1, <2>4
    <3>2. c[i] \in 1..m /\ c[i - 1] = c[i] - 1
      BY <1>3, <2>2, <3>1
    <3>3. IF c[i] \in F THEN e[i] = e[i - 1] ELSE e[i] = e[i - 1] + 1 /\ h[e[i]] = g[c[i]]
      BY <1>2, <2>2, <3>2
    <3> QED
      BY <1>4, <2>4, <3>1, <3>3
  <2> QED
    BY <2>3, <2>4
<1>9. Shrinks(e, lines, h, E)
  BY <1>6, <1>7, <1>8 DEF Shrinks, n, l
<1> QED
  BY <1>9

\* What is left depends on what goes, not on how it is counted.
LEMMA SameRest ==
  ASSUME NEW lines, Len(lines) \in Nat, NEW g \in Seq(Text), NEW h \in Seq(Text), NEW E,
         NEW a, Shrinks(a, lines, g, E), NEW b, Shrinks(b, lines, h, E)
  PROVE  g = h
<1> DEFINE n == Len(lines)
<1>1. /\ a[0] = 0 /\ a[n] = Len(g)
      /\ \A i \in 1..n : IF i \in E THEN a[i] = a[i - 1] ELSE a[i] = a[i - 1] + 1 /\ g[a[i]] = lines[i]
  BY DEF Shrinks
<1>2. /\ b[0] = 0 /\ b[n] = Len(h)
      /\ \A i \in 1..n : IF i \in E THEN b[i] = b[i - 1] ELSE b[i] = b[i - 1] + 1 /\ h[b[i]] = lines[i]
  BY DEF Shrinks
<1>3. n \in Nat /\ Len(g) \in Nat /\ Len(h) \in Nat
  OBVIOUS
<1>4. \A k \in 1..Len(g) : \E i \in 1..n : i \notin E /\ a[i] = k
  BY <1>3, Counting
<1> HIDE DEF n
<1>5. \A i \in 0..n : a[i] = b[i]
  <2> DEFINE T == {i \in 0..n : a[i] = b[i]}
  <2>1. 0 \in T
    BY <1>1, <1>2, <1>3
  <2>2. ASSUME NEW i \in 1..n, i - 1 \in T PROVE i \in T
    <3>1. i \in 0..n /\ a[i - 1] = b[i - 1]
      BY <1>3, <2>2
    <3>2. a[i] = b[i]
      BY <1>1, <1>2, <3>1
    <3> QED
      BY <3>1, <3>2
  <2> HIDE DEF T
  <2>3. \A i \in 0..n : i \in T
    BY <1>3, <2>1, <2>2, InductionTo
  <2> QED
    BY <2>3 DEF T
<1>6. Len(g) = Len(h)
  BY <1>1, <1>2, <1>3, <1>5
<1>7. ASSUME NEW k \in 1..Len(g) PROVE g[k] = h[k]
  <2>1. PICK i \in 1..n : i \notin E /\ a[i] = k
    BY <1>4
  <2>2. i \in 0..n
    BY <1>3
  <2>3. g[a[i]] = lines[i] /\ h[b[i]] = lines[i] /\ a[i] = b[i]
    BY <1>1, <1>2, <1>5, <2>1, <2>2
  <2> QED
    BY <2>1, <2>3
<1> QED
  BY <1>6, <1>7

\* Imports at top level can come and go: the user's lines are the same.
LEMMA ProseStays ==
  ASSUME NEW lines \in Seq(Text), NEW g \in Seq(Text), NEW D, NEW c,
         Shrinks(c, lines, g, D), \A i \in 1..Len(lines) : i \in D => ~ Fence(lines[i]),
         \A i \in 1..Len(lines) : i \in D => i \in scanTopLevel(lines) /\ lines[i] \in Imports
  PROVE  Prose(g) = Prose(lines)
<1> DEFINE E == {i \in scanTopLevel(lines) : lines[i] \in Imports}
           F == {i \in scanTopLevel(g) : g[i] \in Imports}
           h == Without(g, F)
           k == Without(lines, E)
<1>1. /\ Len(lines) \in Nat /\ Len(g) \in Nat
      /\ DOMAIN lines = 1..Len(lines) /\ DOMAIN g = 1..Len(g)
  OBVIOUS
<1>2. \A i \in 1..Len(lines) : i \notin D =>
        /\ g[c[i]] = lines[i]
        /\ i \in scanTopLevel(lines) <=> c[i] \in scanTopLevel(g)
  BY <1>1, BlocksStay
<1>3. \A i \in 1..Len(lines) : i \in E <=> i \in D \/ c[i] \in F
  <2> SUFFICES ASSUME NEW i \in 1..Len(lines) PROVE i \in E <=> i \in D \/ c[i] \in F
    OBVIOUS
  <2>1. CASE i \in D
    BY <2>1
  <2>2. CASE i \notin D
    BY <1>2, <2>2
  <2> QED
    BY <2>1, <2>2
<1>4. Prose(g) = h /\ Prose(lines) = k
  BY DEF Prose
<1> HIDE DEF E, F
<1>5. h \in Seq(Text) /\ \E d : Shrinks(d, g, h, F)
  BY WithoutShrinks
<1>6. k \in Seq(Text) /\ \E a : Shrinks(a, lines, k, E)
  BY WithoutShrinks
<1> HIDE DEF h, k
<1>7. PICK d : Shrinks(d, g, h, F)
  BY <1>5
<1>8. PICK a : Shrinks(a, lines, k, E)
  BY <1>6
<1>9. Len(h) \in Nat
  BY <1>5
<1>10. PICK e : Shrinks(e, lines, h, E)
  BY <1>1, <1>3, <1>7, <1>9, TwoShrink
<1>11. h = k
  BY <1>1, <1>5, <1>6, <1>8, <1>10, SameRest
<1> QED
  BY <1>4, <1>11

\* Taking an import out: it is gone from the text, though not from the code
\* blocks, and no other line is touched.
LEMMA Removing ==
  ASSUME NEW f \in Files, NEW p
  PROVE  /\ remove(f, Line(p)) \in Files
         /\ ~ present(remove(f, Line(p)).lines, Line(p))
         /\ \A y : y # Line(p) => (present(remove(f, Line(p)).lines, y) <=> present(f.lines, y))
         /\ \A y : y \in Range(remove(f, Line(p)).lines) => y \in Range(f.lines)
         /\ \A y : y # Line(p) /\ y \in Range(f.lines) => y \in Range(remove(f, Line(p)).lines)
         /\ Prose(remove(f, Line(p)).lines) = Prose(f.lines)
<1> DEFINE x == Line(p)
           lines == f.lines
           D == {i \in scanTopLevel(lines) : lines[i] = x}
           g == Without(lines, D)
           e == f.ended \/ Len(lines) \in D
<1>1. lines \in Seq(Text) /\ f.ended \in BOOLEAN
  BY DEF Files
<1>2. remove(f, x) = [lines |-> g, ended |-> e]
  BY DEF remove, File
<1>3. ~ Fence(x)
  BY ImportPlain
<1>4. DOMAIN lines = 1..Len(lines) /\ (\A i \in scanTopLevel(lines) : i \in 1..Len(lines))
  BY <1>1 DEF scanTopLevel
<1>5. \A i \in D : i \in scanTopLevel(lines) /\ lines[i] = x /\ ~ Fence(lines[i])
  BY <1>3
<1>6. \A i \in scanTopLevel(lines) : i \notin D <=> lines[i] # x
  OBVIOUS
<1> HIDE DEF x, lines, D
<1>7. g \in Seq(Text) /\ \E c : Shrinks(c, lines, g, D)
  BY <1>1, WithoutShrinks
<1>8. PICK c : Shrinks(c, lines, g, D)
  BY <1>7
<1> HIDE DEF g
<1>9. /\ \A y : present(g, y) <=> \E i \in scanTopLevel(lines) : i \notin D /\ lines[i] = y
      /\ \A y : y \in Range(g) <=> \E i \in DOMAIN lines : i \notin D /\ lines[i] = y
  BY <1>1, <1>5, <1>7, <1>8, LeftOver
<1>9a. Prose(g) = Prose(lines)
  <2>1. x \in Imports
    BY ImportPlain DEF x, Imports, ImportLine
  <2> QED
    BY <1>1, <1>5, <1>7, <1>8, <2>1, ProseStays
<1>10. ~ present(g, x)
  BY <1>6, <1>9
<1>11. \A y : y # x => (present(g, y) <=> present(lines, y))
  BY <1>6, <1>9 DEF present
<1>12. \A y : y \in Range(lines) <=> \E i \in DOMAIN lines : lines[i] = y
  BY DEF Range
<1>13. /\ \A y : y \in Range(g) => y \in Range(lines)
       /\ \A y : y # x /\ y \in Range(lines) => y \in Range(g)
  BY <1>5, <1>9, <1>12
<1>14. e \in BOOLEAN
  OBVIOUS
<1> HIDE DEF e
<1>15. remove(f, x) \in Files /\ remove(f, x).lines = g
  BY <1>2, <1>7, <1>14 DEF Files
<1> QED
  BY <1>9a, <1>10, <1>11, <1>13, <1>15 DEF x, lines

\* Putting one in: it is there, outside every code block, and nothing else
\* is any different.
LEMMA Adding ==
  ASSUME NEW f \in Files, NEW p
  PROVE  /\ appended(f, Line(p)) \in Files
         /\ \A y : present(appended(f, Line(p)).lines, y) <=> present(f.lines, y) \/ y = Line(p)
         /\ \A y : y \in Range(appended(f, Line(p)).lines) <=> y \in Range(f.lines) \/ y = Line(p)
         /\ Prose(appended(f, Line(p)).lines) = Prose(f.lines)
<1> DEFINE x == Line(p)
           g == f.lines
           n == Len(g)
           lines == Append(g, x)
           D == {n + 1}
           c == [i \in 0..(n + 1) |-> IF i = n + 1 THEN n ELSE i]
<1>1. g \in Seq(Text)
  BY DEF Files
<1>2. x \in Text /\ ~ Fence(x) /\ ~ isIndented(x)
  BY ImportPlain DEF Text
<1>3. appended(f, x) = [lines |-> lines, ended |-> TRUE]
  <2>1. f.ended \in BOOLEAN
    BY DEF Files
  <2> QED
    BY <2>1 DEF appended, joined, File
<1> HIDE DEF x, g
<1>4. /\ lines \in Seq(Text) /\ Len(lines) = n + 1 /\ n \in Nat
      /\ lines[n + 1] = x /\ \A i \in 1..n : lines[i] = g[i]
  BY <1>1, <1>2, AppendForm
<1>5. DOMAIN lines = 1..(n + 1) /\ DOMAIN g = 1..n
  BY <1>1, <1>4
<1> HIDE DEF lines, n
<1>6. Shrinks(c, lines, g, D)
  <2>1. c \in [0..(n + 1) -> 0..n] /\ c[0] = 0 /\ c[n + 1] = n
    BY <1>4
  <2>2. ASSUME NEW i \in 1..(n + 1)
        PROVE  IF i \in D THEN c[i] = c[i - 1] ELSE c[i] = c[i - 1] + 1 /\ g[c[i]] = lines[i]
    <3>1. CASE i = n + 1
      BY <1>4, <3>1
    <3>2. CASE i # n + 1
      <4>1. i \in 1..n /\ i \in 0..(n + 1) /\ i - 1 \in 0..(n + 1) /\ i - 1 # n + 1
        BY <1>4, <3>2
      <4>2. c[i] = i /\ c[i - 1] = i - 1
        BY <3>2, <4>1
      <4> QED
        BY <1>4, <3>2, <4>1, <4>2
    <3> QED
      BY <3>1, <3>2
  <2> HIDE DEF c, D
  <2> QED
    BY <1>4, <2>1, <2>2 DEF Shrinks, n
<1> HIDE DEF c
<1>7. \A i \in 1..(n + 1) : i \in D <=> i = n + 1
  OBVIOUS
<1> HIDE DEF D
<1>8. \A i \in 1..Len(lines) : i \in D => ~ Fence(lines[i])
  BY <1>2, <1>4, <1>7
<1>9. \A r \in fencedRanges(lines) : r[2] \in 1..(n + 1) /\ r[2] \notin D
  <2>1. Len(g) \in Nat /\ Len(lines) \in Nat /\ DOMAIN lines = 1..Len(lines) /\ DOMAIN g = 1..Len(g)
    BY <1>1, <1>4
  <2> QED
    BY <1>4, <1>6, <1>8, <2>1, BlocksStay
<1>10. n + 1 \in scanTopLevel(lines)
  <2>1. \A r \in fencedRanges(lines) : ~ (n + 1 <= r[2])
    BY <1>4, <1>7, <1>9
  <2>2. n + 1 \in DOMAIN lines /\ ~ isIndented(lines[n + 1])
    BY <1>2, <1>4, <1>5
  <2> QED
    BY <2>1, <2>2 DEF scanTopLevel
<1>11. \A i \in 1..Len(lines) : i \in D => i \in scanTopLevel(lines)
  BY <1>4, <1>7, <1>10
<1>12. /\ \A y : present(g, y) <=> \E i \in scanTopLevel(lines) : i \notin D /\ lines[i] = y
       /\ \A y : y \in Range(g) <=> \E i \in DOMAIN lines : i \notin D /\ lines[i] = y
  BY <1>1, <1>4, <1>6, <1>8, <1>11, LeftOver
<1>12a. Prose(g) = Prose(lines)
  <2>1. x \in Imports
    BY ImportPlain DEF x, Imports, ImportLine
  <2> QED
    BY <1>1, <1>4, <1>6, <1>7, <1>8, <1>11, <2>1, ProseStays
<1>13. \A i \in scanTopLevel(lines) : i \in 1..(n + 1)
  BY <1>5 DEF scanTopLevel
<1>14. \A y : present(lines, y) <=> present(g, y) \/ y = x
  BY <1>4, <1>7, <1>10, <1>12, <1>13 DEF present
<1>15. \A y : y \in Range(lines) <=> y \in Range(g) \/ y = x
  <2>1. \A y : y \in Range(lines) <=> \E i \in DOMAIN lines : lines[i] = y
    BY DEF Range
  <2>2. n + 1 \in DOMAIN lines
    BY <1>4, <1>5
  <2> QED
    BY <1>4, <1>5, <1>7, <1>12, <2>1, <2>2
<1>16. appended(f, x) \in Files /\ appended(f, x).lines = lines
  BY <1>3, <1>4 DEF Files
<1> QED
  BY <1>12a, <1>14, <1>15, <1>16 DEF x, g

-----------------------------------------------------------------------------
(* The processes. *)

\* The stages by position.
LEMMA StageTable ==
  ASSUME NEW o \in BeadleOps \cup ToolOps, NEW a \in 1..5, a <= LastStage(o)
  PROVE  /\ Len(Stages[o]) = LastStage(o)
         /\ Stages[o][a] = "preflight" <=> o = "enable" /\ a = 1
         /\ Stages[o][a] = "guide" <=> o = "enable" /\ a = 2
         /\ Stages[o][a] = "register" <=> o = "register" \/ (o = "enable" /\ a = 3)
         /\ Stages[o][a] = "grant" <=> o = "enable" /\ a = 4
         /\ Stages[o][a] = "marker" <=> o = "enable" /\ a = 5
         /\ Stages[o][a] = "revoke" <=> o \in Dis /\ a = 1
         /\ Stages[o][a] = "clear" <=> o \in Dis /\ a = 2
         /\ Stages[o][a] = "prune" <=> o = "unregister" \/ (o \in Dis /\ a = 3)
<1>1. CASE o = "enable"
  <2>1. Stages[o] = enableLocked
    BY <1>1 DEF Stages
  <2>2. /\ Len(enableLocked) = 5
        /\ enableLocked[1] = "preflight" /\ enableLocked[2] = "guide" /\ enableLocked[3] = "register"
        /\ enableLocked[4] = "grant" /\ enableLocked[5] = "marker"
    BY DEF enableLocked
  <2>3. a = 1 \/ a = 2 \/ a = 3 \/ a = 4 \/ a = 5
    OBVIOUS
  <2> QED
    BY <1>1, <2>1, <2>2, <2>3 DEF Dis, LastStage
<1>2. CASE o \in Dis
  <2>1. Stages[o] = disableLocked
    BY <1>2 DEF Stages, Dis
  <2>2. /\ Len(disableLocked) = 3
        /\ disableLocked[1] = "revoke" /\ disableLocked[2] = "clear" /\ disableLocked[3] = "prune"
    BY DEF disableLocked
  <2>3. a = 1 \/ a = 2 \/ a = 3
    BY <1>2 DEF LastStage, Dis
  <2> QED
    BY <1>2, <2>1, <2>2, <2>3 DEF Dis, LastStage
<1>3. CASE o = "register"
  <2>1. Stages[o] = <<"register">>
    BY <1>3 DEF Stages
  <2>2. Len(<<"register">>) = 1 /\ <<"register">>[1] = "register" /\ a = 1
    BY <1>3 DEF LastStage, Dis
  <2> QED
    BY <1>3, <2>1, <2>2 DEF Dis, LastStage
<1>4. CASE o = "unregister"
  <2>1. Stages[o] = <<"prune">>
    BY <1>4 DEF Stages
  <2>2. Len(<<"prune">>) = 1 /\ <<"prune">>[1] = "prune" /\ a = 1
    BY <1>4 DEF LastStage, Dis
  <2> QED
    BY <1>4, <2>1, <2>2 DEF Dis, LastStage
<1> QED
  BY <1>1, <1>2, <1>3, <1>4 DEF BeadleOps, ToolOps, Dis

\* Where a process is when a step of it is enabled.
LEMMA Where ==
  ASSUME IInv, NEW p \in All, NEW k
  PROVE  /\ At(p, "preflight", k) <=> out[p] = "run" /\ phase[p] = k /\ op[p] = "enable" /\ at[p] = 1
         /\ At(p, "guide", k) <=> out[p] = "run" /\ phase[p] = k /\ op[p] = "enable" /\ at[p] = 2
         /\ At(p, "clear", k) <=> out[p] = "run" /\ phase[p] = k /\ op[p] \in Dis /\ at[p] = 2
         /\ At(p, "register", k) <=> InRegister(p, k)
         /\ At(p, "prune", k) <=> InPrune(p, k)
         /\ At(p, "grant", k) <=> InGrant(p, k)
         /\ At(p, "marker", k) <=> InMarker(p, k)
         /\ At(p, "revoke", k) <=> InRevoke(p, k)
         /\ op[p] # "idle" => Len(Stages[op[p]]) = LastStage(op[p])
<1>1. CASE op[p] = "idle"
  BY <1>1 DEF At, InRegister, InPrune, InGrant, InMarker, InRevoke, Dis
<1>2. CASE op[p] # "idle"
  <2>1. op[p] \in BeadleOps \cup ToolOps /\ at[p] \in 1..5 /\ at[p] <= LastStage(op[p])
    BY <1>2 DEF IInv, TypeInv, Own, OpOk
  <2> DEFINE o == op[p]
             a == at[p]
  <2> HIDE DEF o, a
  <2>2. o \in BeadleOps \cup ToolOps /\ a \in 1..5 /\ a <= LastStage(o)
    BY <2>1 DEF o, a
  <2>3. /\ Len(Stages[o]) = LastStage(o)
        /\ Stages[o][a] = "preflight" <=> o = "enable" /\ a = 1
        /\ Stages[o][a] = "guide" <=> o = "enable" /\ a = 2
        /\ Stages[o][a] = "register" <=> o = "register" \/ (o = "enable" /\ a = 3)
        /\ Stages[o][a] = "grant" <=> o = "enable" /\ a = 4
        /\ Stages[o][a] = "marker" <=> o = "enable" /\ a = 5
        /\ Stages[o][a] = "revoke" <=> o \in Dis /\ a = 1
        /\ Stages[o][a] = "clear" <=> o \in Dis /\ a = 2
        /\ Stages[o][a] = "prune" <=> o = "unregister" \/ (o \in Dis /\ a = 3)
    BY <2>2, StageTable
  <2>4. \A x : At(p, x, k) <=> out[p] = "run" /\ phase[p] = k /\ Stages[o][a] = x
    BY <1>2 DEF At, o, a
  <2> QED
    BY <1>2, <2>3, <2>4 DEF o, a, InRegister, InPrune, InGrant, InMarker, InRevoke
<1> QED
  BY <1>1, <1>2

\* The rest of the world as a step of p leaves it.
Calm(p) ==
    /\ \A q \in All \ {p} :
         /\ op'[q] = op[q] /\ at'[q] = at[q] /\ phase'[q] = phase[q] /\ out'[q] = out[q]
         /\ view'[q] = view[q] /\ seen'[q] = seen[q] /\ added'[q] = added[q] /\ before'[q] = before[q]
         /\ (lockA = q => lockA' = q) /\ (lockB = q => lockB' = q) /\ (lockC = q => lockC' = q)
    /\ host' = host \/ lockB = p
    /\ UNCHANGED <<allow, record, grants>> \/ lockC = p
    /\ UNCHANGED <<guide, marker, allow, record, grants>> \/ lockA = p
    /\ (present(host.lines, ImportLine)' <=> present(host.lines, ImportLine)) \/ lockA = p

LEMMA OthersKeep ==
  ASSUME IInv, NEW p \in All, Calm(p), NEW q \in All, q # p
  PROVE  Own(q)'
<1>1. /\ op'[q] = op[q] /\ at'[q] = at[q] /\ phase'[q] = phase[q] /\ out'[q] = out[q]
      /\ view'[q] = view[q] /\ seen'[q] = seen[q] /\ added'[q] = added[q] /\ before'[q] = before[q]
      /\ (lockA = q => lockA' = q) /\ (lockB = q => lockB' = q) /\ (lockC = q => lockC' = q)
  BY DEF Calm
<1>2. \A k : /\ InRegister(q, k)' <=> InRegister(q, k)
             /\ InPrune(q, k)' <=> InPrune(q, k)
             /\ InGrant(q, k)' <=> InGrant(q, k)
             /\ InMarker(q, k)' <=> InMarker(q, k)
             /\ InRevoke(q, k)' <=> InRevoke(q, k)
  BY <1>1 DEF InRegister, InPrune, InGrant, InMarker, InRevoke
<1>3. (HoldsB(q)' <=> HoldsB(q)) /\ (HoldsC(q)' <=> HoldsC(q))
  BY <1>2 DEF HoldsB, HoldsC
<1>4. OpOk(q) /\ LockOk(q) /\ ViewOk(q) /\ SeenOk(q) /\ CallOk(q)
  BY DEF IInv, Own
<1>5. OpOk(q)'
  BY <1>1, <1>4 DEF OpOk
<1>6. LockOk(q)'
  BY <1>1, <1>3, <1>4 DEF LockOk
<1>7. HoldsB(q) => host' = host
  BY <1>4 DEF Calm, LockOk
<1>8. ViewOk(q)'
  BY <1>1, <1>2, <1>4, <1>7 DEF ViewOk, HoldsB
<1>9. HoldsC(q) => UNCHANGED <<allow, record, grants>>
  BY <1>4 DEF Calm, LockOk
<1>10. SeenOk(q)'
  <2>1. Changed(q)' = Changed(q)
    BY <1>1 DEF Changed
  <2> QED
    BY <1>1, <1>2, <1>4, <1>9, <2>1 DEF SeenOk, HoldsC
<1>11. CallOk(q)'
  <2>1. CASE op[q] \notin BeadleOps
    BY <1>1, <2>1 DEF CallOk, BeadleOps, Dis
  <2>2. CASE op[q] \in BeadleOps
    <3>1. q \in Procs /\ op[q] # "idle"
      BY <1>4, <2>2 DEF OpOk, All, BeadleOps
    <3>2. lockA = q
      BY <1>4, <3>1 DEF LockOk
    <3>3. /\ UNCHANGED <<guide, marker, allow, record, grants>>
          /\ present(host.lines, ImportLine)' <=> present(host.lines, ImportLine)
      BY <3>2 DEF Calm
    <3>4. EnableOk(q) => EnableOk(q)'
      BY <1>1, <1>2, <3>3 DEF EnableOk
    <3>5. DisableOk(q) => DisableOk(q)'
      BY <1>1, <3>3 DEF DisableOk
    <3> QED
      BY <1>1, <1>4, <3>4, <3>5 DEF CallOk
  <2> QED
    BY <2>1, <2>2
<1> QED
  BY <1>5, <1>6, <1>8, <1>10, <1>11 DEF Own

\* What has to be shown of a step of p.
Fine(p) == TypeInv' /\ RuleInv' /\ HostInv' /\ Calm(p) /\ Own(p)'

LEMMA FineKeeps ==
  ASSUME IInv, NEW p \in All, Fine(p)
  PROVE  IInv'
<1>1. \A q \in All : Own(q)'
  BY OthersKeep DEF Fine
<1>2. TypeInv' /\ RuleInv' /\ HostInv'
  BY DEF Fine
<1> QED
  BY <1>1, <1>2 DEF IInv, All

\* Only p moves.
Moves(p) ==
    /\ at' \in [All -> 1..5] /\ phase' \in [All -> 0..3] /\ out' \in [All -> Outs]
    /\ \A q \in All \ {p} : at'[q] = at[q] /\ phase'[q] = phase[q] /\ out'[q] = out[q]

LEMMA Moving ==
  ASSUME IInv, NEW p \in All, op[p] # "idle"
  PROVE  /\ Advance(p) =>
              /\ Moves(p) /\ phase'[p] = 0
              /\ IF at[p] = LastStage(op[p]) THEN out'[p] = "ok" /\ at'[p] = at[p]
                 ELSE out'[p] = out[p] /\ at'[p] = at[p] + 1 /\ at'[p] <= LastStage(op[p])
         /\ \A ph \in 0..3 : Goto(p, ph) =>
              Moves(p) /\ phase'[p] = ph /\ at'[p] = at[p] /\ out'[p] = out[p]
         /\ \A how \in {"error", "both"} : Abort(p, how) =>
              /\ Moves(p) /\ phase'[p] = phase[p] /\ at'[p] = at[p] /\ out'[p] = how
              /\ \A q \in All \ {p} : (lockB = q => lockB' = q) /\ (lockC = q => lockC' = q)
<1> USE DEF Moves
<1>1. /\ at \in [All -> 1..5] /\ phase \in [All -> 0..3] /\ out \in [All -> Outs]
      /\ at[p] \in 1..5 /\ at[p] <= LastStage(op[p]) /\ LastStage(op[p]) \in 1..5
      /\ Len(Stages[op[p]]) = LastStage(op[p])
  <2>1. Len(Stages[op[p]]) = LastStage(op[p])
    BY Where
  <2> QED
    BY <2>1 DEF IInv, TypeInv, Own, OpOk, LastStage
<1>2. ASSUME Advance(p)
      PROVE  /\ Moves(p) /\ phase'[p] = 0
             /\ IF at[p] = LastStage(op[p]) THEN out'[p] = "ok" /\ at'[p] = at[p]
                ELSE out'[p] = out[p] /\ at'[p] = at[p] + 1 /\ at'[p] <= LastStage(op[p])
  <2>1. phase' \in [All -> 0..3] /\ phase'[p] = 0 /\ \A q \in All \ {p} : phase'[q] = phase[q]
    BY <1>1, <1>2 DEF Advance
  <2>2. CASE at[p] < LastStage(op[p])
    <3>1. at' = [at EXCEPT ![p] = at[p] + 1] /\ out' = out
      BY <1>1, <1>2, <2>2 DEF Advance
    <3>2. at[p] + 1 \in 1..5
      BY <1>1, <2>2
    <3> QED
      BY <1>1, <2>1, <2>2, <3>1, <3>2
  <2>3. CASE ~ (at[p] < LastStage(op[p]))
    <3>1. out' = [out EXCEPT ![p] = "ok"] /\ at' = at
      BY <1>1, <1>2, <2>3 DEF Advance
    <3>2. at[p] = LastStage(op[p])
      BY <1>1, <2>3
    <3> QED
      BY <1>1, <2>1, <3>1, <3>2 DEF Outs
  <2> QED
    BY <2>2, <2>3
<1>3. ASSUME NEW ph \in 0..3, Goto(p, ph)
      PROVE  Moves(p) /\ phase'[p] = ph /\ at'[p] = at[p] /\ out'[p] = out[p]
  BY <1>1, <1>3 DEF Goto
<1>4. ASSUME NEW how \in {"error", "both"}, Abort(p, how)
      PROVE  /\ Moves(p) /\ phase'[p] = phase[p] /\ at'[p] = at[p] /\ out'[p] = how
             /\ \A q \in All \ {p} : (lockB = q => lockB' = q) /\ (lockC = q => lockC' = q)
  BY <1>1, <1>4 DEF Abort, Outs
<1> QED
  BY <1>2, <1>3, <1>4

\* A call that has failed holds nothing any more but lock A.
LEMMA Failing ==
  ASSUME IInv, NEW p \in All, op[p] # "idle",
         op'[p] = op[p], at'[p] = at[p], before'[p] = before[p], lockA' = lockA,
         out'[p] \in {"error", "both"},
         op[p] = "enable" =>
           /\ at[p] > 2 => guide' = "whole"
           /\ at[p] > 3 => present(host.lines, ImportLine)'
           /\ at[p] < 5 \/ out'[p] = "error" => grants' = before[p].grants,
         op[p] \in Dis =>
           /\ at[p] = 1 => marker' = before[p].marker
           /\ at[p] > 1 => grants' = {}
           /\ at[p] > 2 => ~marker'
  PROVE  Own(p)'
<1>1. OpOk(p) /\ LockOk(p)
  BY DEF IInv, Own
<1>2. \A k : /\ ~ InRegister(p, k)' /\ ~ InPrune(p, k)' /\ ~ InGrant(p, k)'
             /\ ~ InMarker(p, k)' /\ ~ InRevoke(p, k)'
  BY DEF InRegister, InPrune, InGrant, InMarker, InRevoke
<1>3. OpOk(p)'
  BY <1>1 DEF OpOk
<1>4. LockOk(p)'
  BY <1>1, <1>2 DEF LockOk, HoldsB, HoldsC
<1>5. ViewOk(p)' /\ SeenOk(p)'
  BY <1>2 DEF ViewOk, SeenOk
<1>6. op[p] = "enable" => EnableOk(p)'
  BY <1>2 DEF EnableOk
<1>7. op[p] \in Dis => DisableOk(p)'
  BY DEF DisableOk
<1> QED
  BY <1>3, <1>4, <1>5, <1>6, <1>7 DEF Own, CallOk

\* A stage has ended and the next one not begun: no lock but A is held.
LEMMA Between ==
  ASSUME IInv, NEW p \in All, op[p] # "idle",
         op'[p] = op[p], phase'[p] = 0, at'[p] <= LastStage(op[p]), lockA' = lockA,
         op[p] = "enable" => EnableOk(p)', op[p] \in Dis => DisableOk(p)'
  PROVE  Own(p)'
<1>1. OpOk(p) /\ LockOk(p)
  BY DEF IInv, Own
<1>2. \A k \in {1, 2, 3} : /\ ~ InRegister(p, k)' /\ ~ InPrune(p, k)' /\ ~ InGrant(p, k)'
                           /\ ~ InMarker(p, k)' /\ ~ InRevoke(p, k)'
  BY DEF InRegister, InPrune, InGrant, InMarker, InRevoke
<1>3. OpOk(p)'
  BY <1>1 DEF OpOk
<1>4. LockOk(p)'
  BY <1>1, <1>2 DEF LockOk, HoldsB, HoldsC
<1>5. ViewOk(p)' /\ SeenOk(p)'
  BY <1>2 DEF ViewOk, SeenOk
<1> QED
  BY <1>3, <1>4, <1>5 DEF Own, CallOk

\* Where a call begins and ends.
LEMMA CallSteps ==
  ASSUME IInv, NEW p \in All, Begin(p) \/ Return(p) \/ Crash(p)
  PROVE  Fine(p)
<1>1. OpOk(p) /\ LockOk(p) /\ TypeInv /\ RuleInv /\ HostInv
  BY DEF IInv, Own
<1>2. UNCHANGED <<files, grants, theirs, toolIn, prose>>
  BY DEF Begin, Return, Crash
<1>3. RuleInv' /\ HostInv'
  BY <1>1, <1>2 DEF RuleInv, HostInv
<1>4. CASE Begin(p)
  <2>1. /\ op[p] = "idle" /\ UNCHANGED <<lockB, lockC, at, phase, out, view, seen, added>>
        /\ IF p = Tool THEN UNCHANGED lockA ELSE lockA = NoOne /\ lockA' = p
        /\ before' = [before EXCEPT ![p] = [grants |-> grants, marker |-> marker]]
    BY <1>4 DEF Begin
  <2>2. PICK o \in (IF p = Tool THEN {"register", "unregister"} ELSE {"enable", "disable", "purge"}) :
          op' = [op EXCEPT ![p] = o]
    BY <1>4 DEF Begin
  <2>3. TypeInv'
    BY <1>1, <1>2, <2>1, <2>2 DEF TypeInv, BeadleOps, ToolOps
  <2>4. op'[p] = o /\ \A q \in All \ {p} : op'[q] = op[q] /\ before'[q] = before[q]
    BY <1>1, <2>1, <2>2 DEF TypeInv
  <2>5. before'[p].grants = grants /\ before'[p].marker = marker
    BY <1>1, <2>1 DEF TypeInv
  <2>6. at[p] = 1 /\ phase[p] = 0 /\ out[p] = "run"
    BY <1>1, <2>1 DEF OpOk, TypeInv, LastStage, Dis
  <2>7. Calm(p)
    <3>1. \A q \in All \ {p} : lockA = q => lockA' = q
      BY <2>1, EnableAssumption DEF All
    <3> QED
      BY <1>2, <2>1, <2>4, <3>1 DEF Calm
  <2>8. OpOk(p)'
    BY <2>1, <2>2, <2>4, <2>6, EnableAssumption DEF OpOk, BeadleOps, ToolOps, LastStage, Dis
  <2>9. \A k \in {1, 2, 3} : /\ ~ InRegister(p, k)' /\ ~ InPrune(p, k)' /\ ~ InGrant(p, k)'
                             /\ ~ InMarker(p, k)' /\ ~ InRevoke(p, k)'
    BY <2>1, <2>6 DEF InRegister, InPrune, InGrant, InMarker, InRevoke
  <2>10. LockOk(p)'
    BY <2>1, <2>9, EnableAssumption DEF LockOk, HoldsB, HoldsC
  <2>11. ViewOk(p)' /\ SeenOk(p)'
    BY <2>9 DEF ViewOk, SeenOk
  <2>12. EnableOk(p)'
    BY <1>2, <2>1, <2>5, <2>6 DEF EnableOk, InMarker
  <2>13. DisableOk(p)'
    BY <1>2, <2>1, <2>5, <2>6 DEF DisableOk
  <2> QED
    BY <1>3, <2>3, <2>7, <2>8, <2>10, <2>11, <2>12, <2>13 DEF Fine, Own, CallOk
<1>5. CASE Return(p) \/ Crash(p)
  <2>1. Forget(p)
    BY <1>5 DEF Return, Crash
  <2>2. /\ op'[p] = "idle" /\ out'[p] = "run" /\ at'[p] = 1 /\ phase'[p] = 0
        /\ \A q \in All \ {p} :
             /\ op'[q] = op[q] /\ at'[q] = at[q] /\ phase'[q] = phase[q] /\ out'[q] = out[q]
             /\ view'[q] = view[q] /\ seen'[q] = seen[q] /\ added'[q] = added[q] /\ before'[q] = before[q]
    BY <1>1, <2>1 DEF Forget, TypeInv
  <2>3. TypeInv'
    BY <1>1, <1>2, <2>1 DEF TypeInv, Forget, Outs
  <2>4. \A q \in All \ {p} :
          (lockA = q => lockA' = q) /\ (lockB = q => lockB' = q) /\ (lockC = q => lockC' = q)
    BY <1>5 DEF Return, Crash
  <2>5. Calm(p)
    BY <1>2, <2>2, <2>4 DEF Calm
  <2>6. OpOk(p)'
    BY <2>2 DEF OpOk, BeadleOps, ToolOps, LastStage, Dis
  <2>7. \A k : /\ ~ InRegister(p, k)' /\ ~ InPrune(p, k)' /\ ~ InGrant(p, k)'
               /\ ~ InMarker(p, k)' /\ ~ InRevoke(p, k)'
    BY <2>2 DEF InRegister, InPrune, InGrant, InMarker, InRevoke, Dis
  <2>8. LockOk(p)' /\ ViewOk(p)' /\ SeenOk(p)'
    BY <2>2, <2>7 DEF LockOk, HoldsB, HoldsC, ViewOk, SeenOk
  <2>9. CallOk(p)'
    BY <2>2 DEF CallOk, Dis
  <2> QED
    BY <1>3, <2>3, <2>5, <2>6, <2>8, <2>9 DEF Fine, Own
<1> QED
  BY <1>4, <1>5

\* What most steps leave alone.
LEMMA CalmStep ==
  ASSUME IInv, NEW p \in All, Moves(p), UNCHANGED <<op, before, lockA>>,
         \A q \in All \ {p} : /\ view'[q] = view[q] /\ seen'[q] = seen[q] /\ added'[q] = added[q]
                              /\ (lockB = q => lockB' = q) /\ (lockC = q => lockC' = q),
         host' = host \/ lockB = p,
         UNCHANGED <<allow, record, grants>> \/ lockC = p,
         UNCHANGED <<guide, marker, allow, record, grants>> \/ lockA = p,
         (present(host.lines, ImportLine)' <=> present(host.lines, ImportLine)) \/ lockA = p
  PROVE  Calm(p)
BY DEF Calm, Moves

LEMMA TypeStep ==
  ASSUME IInv, NEW p \in All, Moves(p), UNCHANGED op, host' \in Files,
         DOMAIN view' = All, DOMAIN seen' = All, DOMAIN added' = All, DOMAIN before' = All
  PROVE  TypeInv'
BY DEF IInv, TypeInv, Moves

\* The steps that touch neither CLAUDE.md nor the rules.
LEMMA PlainSteps ==
  ASSUME IInv, NEW p \in All, Preflight(p) \/ WriteGuide(p) \/ Clear(p)
  PROVE  Fine(p)
<1>1. OpOk(p) /\ LockOk(p) /\ CallOk(p) /\ TypeInv /\ RuleInv /\ HostInv
  BY DEF IInv, Own
<1>2. /\ UNCHANGED <<op, before, lockA, prose>>
      /\ UNCHANGED <<host, there, link, settings, allow, record, recordBad>>
      /\ UNCHANGED <<view, seen, added, grants, theirs, toolIn>>
  BY DEF Preflight, WriteGuide, Clear, StepOnly
<1>3. RuleInv'
  BY <1>1, <1>2 DEF RuleInv
<1>4. out[p] = "run" /\ op[p] \in BeadleOps /\ op[p] # "idle"
  BY Where DEF Preflight, WriteGuide, Clear, BeadleOps, Dis
<1>5. p \in Procs /\ lockA = p
  <2>1. p \in Procs
    BY <1>1, <1>4 DEF OpOk, All
  <2> QED
    BY <1>1, <1>4, <2>1 DEF LockOk
<1>6. \/ Advance(p) /\ UNCHANGED <<lockB, lockC>>
      \/ Abort(p, "error")
  BY DEF Preflight, WriteGuide, Clear
<1>7. Moves(p) /\ \A q \in All \ {p} : (lockB = q => lockB' = q) /\ (lockC = q => lockC' = q)
  BY <1>4, <1>6, Moving
<1>8. Calm(p)
  BY <1>2, <1>5, <1>7, CalmStep
<1>9. TypeInv'
  BY <1>1, <1>2, <1>7, TypeStep DEF TypeInv
<1>10. HostInv'
  <2>1. marker' => marker
    BY DEF Preflight, WriteGuide, Clear
  <2> QED
    BY <1>1, <1>2, <2>1 DEF HostInv
<1>11. Own(p)'
  <2>1. CASE Preflight(p)
    <3>1. op[p] = "enable" /\ at[p] = 1 /\ EnableOk(p) /\ UNCHANGED <<guide, marker>>
      BY <1>1, <2>1, Where DEF Preflight, CallOk
    <3>2. CASE Abort(p, "error")
      <4>1. out'[p] = "error" /\ at'[p] = at[p]
        BY <1>4, <3>2, Moving
      <4>2. grants' = before[p].grants
        BY <1>2, <3>1 DEF EnableOk
      <4> QED
        BY <1>2, <1>4, <3>1, <4>1, <4>2, Failing DEF Dis
    <3>3. CASE Advance(p)
      <4>1. out'[p] = "run" /\ at'[p] = 2 /\ phase'[p] = 0 /\ at'[p] <= LastStage(op[p])
        BY <1>4, <3>1, <3>3, Moving DEF LastStage
      <4>2. EnableOk(p)'
        BY <1>2, <3>1, <4>1 DEF EnableOk, InMarker
      <4> QED
        BY <1>2, <1>4, <3>1, <4>1, <4>2, Between DEF Dis
    <3> QED
      BY <1>6, <3>2, <3>3
  <2>2. CASE WriteGuide(p)
    <3>1. op[p] = "enable" /\ at[p] = 2 /\ EnableOk(p) /\ UNCHANGED marker
      BY <1>1, <2>2, Where DEF WriteGuide, CallOk
    <3>2. CASE Abort(p, "error")
      <4>1. out'[p] = "error" /\ at'[p] = at[p]
        BY <1>4, <3>2, Moving
      <4>2. grants' = before[p].grants
        BY <1>2, <3>1 DEF EnableOk
      <4> QED
        BY <1>2, <1>4, <3>1, <4>1, <4>2, Failing DEF Dis
    <3>3. CASE guide' = "whole" /\ Advance(p)
      <4>1. out'[p] = "run" /\ at'[p] = 3 /\ phase'[p] = 0 /\ at'[p] <= LastStage(op[p])
        BY <1>4, <3>1, <3>3, Moving DEF LastStage
      <4>2. EnableOk(p)'
        BY <1>2, <3>1, <3>3, <4>1 DEF EnableOk, InMarker
      <4> QED
        BY <1>2, <1>4, <3>1, <4>1, <4>2, Between DEF Dis
    <3> QED
      BY <2>2, <3>2, <3>3 DEF WriteGuide
  <2>3. CASE Clear(p)
    <3>1. op[p] \in Dis /\ at[p] = 2 /\ DisableOk(p)
      BY <1>1, <2>3, Where DEF Clear, CallOk
    <3>2. CASE Abort(p, "error")
      <4>1. out'[p] = "error" /\ at'[p] = at[p]
        BY <1>4, <3>2, Moving
      <4>2. grants' = {}
        BY <1>2, <3>1 DEF DisableOk
      <4> QED
        BY <1>2, <1>4, <3>1, <4>1, <4>2, Failing DEF Dis
    <3>3. CASE marker' = FALSE /\ Advance(p)
      <4>1. out'[p] = "run" /\ at'[p] = 3 /\ phase'[p] = 0 /\ at'[p] <= LastStage(op[p])
        BY <1>4, <3>1, <3>3, Moving DEF LastStage, Dis
      <4>2. DisableOk(p)'
        BY <1>2, <3>1, <3>3, <4>1 DEF DisableOk
      <4> QED
        BY <1>2, <1>4, <3>1, <4>1, <4>2, Between DEF Dis
    <3> QED
      BY <2>3, <3>2, <3>3 DEF Clear
  <2> QED
    BY <2>1, <2>2, <2>3
<1> QED
  BY <1>3, <1>8, <1>9, <1>10, <1>11 DEF Fine

\* The marker.
LEMMA MarkerStep ==
  ASSUME IInv, NEW p \in All, Marker(p)
  PROVE  Fine(p)
<1>1. OpOk(p) /\ LockOk(p) /\ CallOk(p) /\ TypeInv /\ RuleInv /\ HostInv
  BY DEF IInv, Own
<1>2. /\ UNCHANGED <<op, before, lockA, prose>>
      /\ UNCHANGED <<host, there, link, guide, settings, allow, record, recordBad>>
      /\ UNCHANGED <<view, seen, added, grants, theirs, toolIn>>
  BY DEF Marker, StepOnly, PermsOnly
<1>3. RuleInv'
  BY <1>1, <1>2 DEF RuleInv
<1>4. /\ InMarker(p, 0) /\ op[p] = "enable" /\ at[p] = 5 /\ phase[p] = 0 /\ out[p] = "run"
      /\ op[p] # "idle" /\ EnableOk(p)
  BY <1>1, Where DEF Marker, InMarker, CallOk
<1>5. p \in Procs /\ lockA = p
  <2>1. p \in Procs
    BY <1>1, <1>4 DEF OpOk, All, BeadleOps
  <2> QED
    BY <1>1, <1>4, <2>1 DEF LockOk
<1>6. \/ Advance(p) /\ marker' = TRUE /\ UNCHANGED <<lockB, lockC>>
      \/ Abort(p, "error") /\ (added[p] = {} \/ settings = "absent")
      \/ Goto(p, 1) /\ UNCHANGED <<lockB, lockC>>
  BY DEF Marker
<1>7. Moves(p) /\ \A q \in All \ {p} : (lockB = q => lockB' = q) /\ (lockC = q => lockC' = q)
  BY <1>4, <1>6, Moving
<1>8. Calm(p)
  BY <1>2, <1>5, <1>7, CalmStep
<1>9. TypeInv'
  BY <1>1, <1>2, <1>7, TypeStep DEF TypeInv
<1>10. present(host.lines, ImportLine) /\ present(host.lines, ImportLine)'
  BY <1>2, <1>4 DEF EnableOk
<1>11. HostInv'
  BY <1>1, <1>2, <1>10 DEF HostInv
<1>12. /\ guide = "whole" /\ Rules \subseteq allow /\ grants = before[p].grants \cup added[p]
       /\ before[p].grants \cap added[p] = {} /\ added[p] \subseteq record
  BY <1>4 DEF EnableOk
<1>13. Own(p)'
  <2>1. CASE Advance(p) /\ marker' = TRUE
    <3>1. out'[p] = "ok" /\ at'[p] = 5 /\ phase'[p] = 0 /\ at'[p] <= LastStage(op[p])
      BY <1>4, <2>1, Moving DEF LastStage
    <3>2. EnableOk(p)'
      BY <1>2, <1>10, <1>12, <2>1, <3>1 DEF EnableOk, InMarker
    <3> QED
      BY <1>2, <1>4, <3>1, <3>2, Between DEF Dis
  <2>2. CASE Abort(p, "error") /\ (added[p] = {} \/ settings = "absent")
    <3>1. out'[p] = "error" /\ at'[p] = at[p]
      BY <1>4, <2>2, Moving
    <3>2. grants' = before[p].grants
      BY <1>1, <1>2, <1>12, <2>2 DEF RuleInv
    <3> QED
      BY <1>2, <1>4, <1>10, <1>12, <3>1, <3>2, Failing DEF Dis
  <2>3. CASE Goto(p, 1)
    <3>1. out'[p] = "run" /\ at'[p] = 5 /\ phase'[p] = 1
      BY <1>4, <2>3, Moving
    <3>2. OpOk(p)' /\ ViewOk(p)' /\ SeenOk(p)'
      BY <1>1, <1>2, <1>4, <3>1
         DEF OpOk, ViewOk, SeenOk, InRegister, InPrune, InGrant, InMarker, InRevoke, LastStage, Dis
    <3>3. LockOk(p)'
      BY <1>2, <1>4, <1>5, <3>1
         DEF LockOk, HoldsB, HoldsC, InRegister, InPrune, InGrant, InMarker, InRevoke, Dis
    <3>4. EnableOk(p)'
      BY <1>2, <1>10, <1>12, <3>1 DEF EnableOk, InMarker
    <3> QED
      BY <1>2, <1>4, <3>2, <3>3, <3>4 DEF Own, CallOk, Dis
  <2> QED
    BY <1>6, <2>1, <2>2, <2>3
<1> QED
  BY <1>3, <1>8, <1>9, <1>11, <1>13 DEF Fine

LEMMA PresentInRange == \A lines, y : present(lines, y) => y \in Range(lines)
BY DEF present, scanTopLevel, Range

LEMMA LineIs ==
  ASSUME NEW p \in All
  PROVE  /\ p \in Procs => Line(p) = ImportLine
         /\ p \notin Procs => Line(p) = "other" /\ p = Tool
         /\ ImportLine # "other"
BY EnableAssumption DEF Line, ImportLine, All

\* The first step on CLAUDE.md.
LEMMA ReadHostStep ==
  ASSUME IInv, NEW p \in All, ReadHost(p)
  PROVE  Fine(p)
<1>1. OpOk(p) /\ LockOk(p) /\ CallOk(p) /\ TypeInv /\ RuleInv /\ HostInv
  BY DEF IInv, Own
<1>2. /\ UNCHANGED <<op, before, lockA, prose, files, lockC, seen, added, grants, theirs, toolIn>>
      /\ lockB = NoOne /\ lockB' = p /\ view' = [view EXCEPT ![p] = host] /\ Goto(p, 1)
  BY DEF ReadHost, StepOnly
<1>3. RuleInv' /\ HostInv'
  BY <1>1, <1>2 DEF RuleInv, HostInv
<1>4. InRegister(p, 0) \/ InPrune(p, 0)
  BY Where DEF ReadHost
<1>5. op[p] # "idle" /\ out[p] = "run" /\ phase[p] = 0
  BY <1>4 DEF InRegister, InPrune, Dis
<1>6. Moves(p) /\ phase'[p] = 1 /\ at'[p] = at[p] /\ out'[p] = out[p]
  BY <1>2, <1>5, Moving
<1>7. view'[p] = host /\ DOMAIN view' = All /\ \A q \in All \ {p} : view'[q] = view[q]
  BY <1>1, <1>2 DEF TypeInv
<1>8. \A q \in All : lockB # q
  BY <1>2, EnableAssumption DEF All
<1>9. Calm(p)
  BY <1>2, <1>6, <1>7, <1>8, CalmStep
<1>10. TypeInv'
  BY <1>1, <1>2, <1>6, <1>7, TypeStep DEF TypeInv
<1>11. \A k : ~ InGrant(p, k)' /\ ~ InMarker(p, k)' /\ ~ InRevoke(p, k)'
  BY <1>2, <1>4, <1>6 DEF InRegister, InPrune, InGrant, InMarker, InRevoke, Dis
<1>12. OpOk(p)' /\ LockOk(p)'
  BY <1>1, <1>2, <1>5, <1>6, <1>11 DEF OpOk, LockOk, HoldsC
<1>13. ViewOk(p)' /\ SeenOk(p)'
  BY <1>2, <1>6, <1>7, <1>11 DEF ViewOk, SeenOk, InPrune
<1>14. op[p] = "enable" => EnableOk(p)'
  <2> SUFFICES ASSUME op[p] = "enable" PROVE EnableOk(p)'
    OBVIOUS
  <2>1. EnableOk(p)
    BY <1>1 DEF CallOk
  <2> QED
    BY <1>2, <1>5, <1>6, <1>11, <2>1 DEF EnableOk
<1>15. op[p] \in Dis => DisableOk(p)'
  BY <1>1, <1>2, <1>6 DEF CallOk, DisableOk
<1> QED
  BY <1>2, <1>3, <1>9, <1>10, <1>12, <1>13, <1>14, <1>15 DEF Fine, Own, CallOk

LEMMA RegisterStep ==
  ASSUME IInv, NEW p \in All, Register(p)
  PROVE  Fine(p)
<1>1. OpOk(p) /\ LockOk(p) /\ ViewOk(p) /\ CallOk(p) /\ TypeInv /\ RuleInv /\ HostInv
  BY DEF IInv, Own
<1>2. /\ UNCHANGED <<op, before, lockA, prose, lockC, view, seen, added, grants, theirs>>
      /\ UNCHANGED <<link, guide, marker, settings, allow, record, recordBad>>
  BY DEF Register, StepOnly, HostOnly
<1>3. RuleInv'
  BY <1>1, <1>2 DEF RuleInv
<1>4. InRegister(p, 1)
  BY Where DEF Register
<1>5. /\ op[p] # "idle" /\ op[p] \notin Dis /\ out[p] = "run"
      /\ op[p] = "enable" => at[p] = 3 /\ EnableOk(p)
  BY <1>1, <1>4 DEF InRegister, Dis, CallOk
<1>6. lockB = p /\ view[p] = host /\ (p \in Procs => lockA = p)
  BY <1>1, <1>4, <1>5 DEF LockOk, HoldsB, ViewOk
<1> DEFINE L == Line(p)
           new == appended(host, L)
<1>7. /\ new \in Files
      /\ \A y : present(new.lines, y) <=> present(host.lines, y) \/ y = L
      /\ \A y : y \in Range(new.lines) <=> y \in Range(host.lines) \/ y = L
      /\ Prose(new.lines) = Prose(host.lines)
  BY <1>1, Adding DEF TypeInv
<1>8. \/ /\ present(host.lines, L) /\ host' = host /\ Advance(p) /\ lockB' = NoOne
         /\ toolIn' = (toolIn \/ p = Tool)
      \/ /\ host' = new /\ Advance(p) /\ lockB' = NoOne /\ toolIn' = (toolIn \/ p = Tool)
      \/ host' = host /\ toolIn' = toolIn /\ Abort(p, "error")
  BY <1>6 DEF Register
<1> HIDE DEF new, L
<1>9. host' = host \/ host' = new
  BY <1>8
<1>10. Moves(p) /\ \A q \in All \ {p} : lockB = q => lockB' = q
  BY <1>5, <1>6, <1>8, Moving
<1>11. (present(host.lines, ImportLine)' <=> present(host.lines, ImportLine)) \/ lockA = p
  <2>1. CASE p \in Procs
    BY <1>6, <2>1
  <2>2. CASE p \notin Procs
    <3>1. L # ImportLine
      BY <2>2, LineIs DEF L
    <3> QED
      BY <1>7, <1>9, <3>1
  <2> QED
    BY <2>1, <2>2
<1>12. Calm(p)
  BY <1>2, <1>6, <1>10, <1>11, CalmStep
<1>13. TypeInv'
  BY <1>1, <1>2, <1>7, <1>9, <1>10, TypeStep DEF TypeInv
<1>14. HostInv'
  <2>1. marker' => present(host.lines, ImportLine)'
    BY <1>1, <1>2, <1>7, <1>9 DEF HostInv
  <2>2. (Prose(host.lines) = prose)'
    <3>1. Prose(host'.lines) = Prose(host.lines)
      BY <1>7, <1>9
    <3> QED
      BY <1>1, <1>2, <3>1 DEF HostInv, Prose
  <2>3. toolIn' => ("other" \in Range(host.lines))'
    <3>1. CASE toolIn
      BY <1>1, <1>7, <1>9, <3>1 DEF HostInv
    <3>2. CASE ~ toolIn
      <4> SUFFICES ASSUME toolIn' PROVE "other" \in Range(host'.lines)
        OBVIOUS
      <4>1. p = Tool /\ (host' = new \/ (host' = host /\ present(host.lines, L)))
        BY <1>8, <3>2
      <4>2. L = "other"
        BY <4>1, LineIs, EnableAssumption DEF L, All
      <4>3. present(host'.lines, "other")
        BY <1>7, <4>1, <4>2
      <4> QED
        BY <4>3, PresentInRange
    <3> QED
      BY <3>1, <3>2
  <2> QED
    BY <2>1, <2>2, <2>3 DEF HostInv
<1>15. Own(p)'
  <2>1. CASE Abort(p, "error")
    <3>1. out'[p] = "error" /\ at'[p] = at[p]
      BY <1>5, <2>1, Moving
    <3>2. op[p] = "enable" => at[p] = 3 /\ guide' = "whole" /\ grants' = before[p].grants
      BY <1>2, <1>5 DEF EnableOk
    <3> QED
      BY <1>2, <1>5, <3>1, <3>2, Failing
  <2>2. CASE Advance(p) /\ (host' = new \/ (host' = host /\ present(host.lines, L)))
    <3>1. phase'[p] = 0 /\ at'[p] <= LastStage(op[p])
      BY <1>1, <1>5, <2>2, Moving DEF OpOk
    <3>2. ASSUME op[p] = "enable" PROVE EnableOk(p)'
      <4>1. at'[p] = 4 /\ out'[p] = "run" /\ p \in Procs
        BY <1>1, <1>5, <2>2, <3>2, Moving DEF LastStage, OpOk, BeadleOps, All
      <4>2. present(host'.lines, ImportLine)
        BY <1>7, <2>2, <4>1, LineIs DEF L
      <4>3. guide' = "whole" /\ grants' = before'[p].grants
        BY <1>2, <1>5, <3>2 DEF EnableOk
      <4> QED
        BY <4>1, <4>2, <4>3 DEF EnableOk, InMarker
    <3> QED
      BY <1>2, <1>5, <3>1, <3>2, Between
  <2> QED
    BY <1>8, <2>1, <2>2
<1> QED
  BY <1>3, <1>12, <1>13, <1>14, <1>15 DEF Fine

LEMMA PruneSteps ==
  ASSUME IInv, NEW p \in All, Prune(p) \/ DiscardEmpty(p)
  PROVE  Fine(p)
<1>1. OpOk(p) /\ LockOk(p) /\ ViewOk(p) /\ CallOk(p) /\ TypeInv /\ RuleInv /\ HostInv
  BY DEF IInv, Own
<1>2. /\ UNCHANGED <<op, before, lockA, prose, lockC, view, seen, added, grants, theirs>>
      /\ UNCHANGED <<link, guide, marker, settings, allow, record, recordBad>>
  BY DEF Prune, DiscardEmpty, StepOnly, HostOnly
<1>3. RuleInv'
  BY <1>1, <1>2 DEF RuleInv
<1>4. (Prune(p) /\ InPrune(p, 1)) \/ (DiscardEmpty(p) /\ InPrune(p, 2))
  BY Where DEF Prune, DiscardEmpty
<1>5. /\ op[p] # "idle" /\ op[p] # "enable" /\ out[p] = "run"
      /\ op[p] \in Dis => at[p] = 3 /\ DisableOk(p) /\ p \in Procs
  BY <1>1, <1>4 DEF InPrune, Dis, CallOk, OpOk, BeadleOps, All
<1>6. /\ lockB = p /\ (InPrune(p, 1) => view[p] = host) /\ (InPrune(p, 2) => host.lines = <<>>)
      /\ p \in Procs => lockA = p /\ op[p] \in Dis
  BY <1>1, <1>4, <1>5, EnableAssumption DEF LockOk, HoldsB, ViewOk, OpOk, InPrune, ToolOps
<1> DEFINE L == Line(p)
           kept == remove(host, L)
<1>7. /\ kept \in Files /\ ~ present(kept.lines, L)
      /\ \A y : y # L => (present(kept.lines, y) <=> present(host.lines, y))
      /\ \A y : y \in Range(kept.lines) => y \in Range(host.lines)
      /\ \A y : y # L /\ y \in Range(host.lines) => y \in Range(kept.lines)
      /\ Prose(kept.lines) = Prose(host.lines)
  BY <1>1, Removing DEF TypeInv
<1>8. Absent \in Files /\ Absent.lines = <<>>
  <2>1. <<>> \in Seq(Text)
    OBVIOUS
  <2> QED
    BY <2>1 DEF Absent, File, Files
<1>9. \/ /\ InPrune(p, 1) /\ Advance(p) /\ lockB' = NoOne
         /\ \/ host' = host /\ host = kept /\ toolIn' = toolIn
            \/ host' = kept /\ toolIn' = (toolIn /\ p # Tool)
      \/ /\ InPrune(p, 1) /\ Goto(p, 2) /\ lockB' = lockB /\ kept.lines = <<>>
         /\ host' = kept /\ toolIn' = (toolIn /\ p # Tool)
      \/ /\ InPrune(p, 2) /\ Advance(p) /\ lockB' = NoOne /\ host' = Absent /\ toolIn' = toolIn
      \/ host' = host /\ toolIn' = toolIn /\ Abort(p, "error")
  BY <1>4, <1>6 DEF Prune, DiscardEmpty
<1> HIDE DEF kept, L
<1>10. host' = host \/ host' = kept \/ (host' \in Files /\ host'.lines = host.lines)
  BY <1>6, <1>8, <1>9
<1>11. Moves(p) /\ \A q \in All \ {p} : lockB = q => lockB' = q
  BY <1>5, <1>6, <1>9, Moving
<1>12. p \notin Procs => L = "other" /\ L # ImportLine /\ p = Tool
  BY LineIs DEF L
<1>13. p \in Procs => L = ImportLine /\ L # "other" /\ p # Tool
  BY LineIs, EnableAssumption DEF L
<1>14. (present(host.lines, ImportLine)' <=> present(host.lines, ImportLine)) \/ lockA = p
  BY <1>6, <1>7, <1>10, <1>12
<1>15. Calm(p)
  BY <1>2, <1>6, <1>11, <1>14, CalmStep
<1>16. TypeInv'
  <2>1. host' \in Files
    BY <1>1, <1>7, <1>10 DEF TypeInv
  <2> QED
    BY <1>1, <1>2, <1>11, <2>1, TypeStep DEF TypeInv
<1>17. HostInv'
  <2>1. marker' => present(host.lines, ImportLine)'
    <3>1. CASE p \in Procs
      <4>1. ~ marker
        BY <1>5, <1>6, <3>1 DEF DisableOk
      <4> QED
        BY <1>2, <4>1
    <3>2. CASE p \notin Procs
      <4>1. present(host'.lines, ImportLine) <=> present(host.lines, ImportLine)
        BY <1>7, <1>10, <1>12, <3>2
      <4> QED
        BY <1>1, <1>2, <4>1 DEF HostInv
    <3> QED
      BY <3>1, <3>2
  <2>2. (Prose(host.lines) = prose)'
    <3>1. Prose(host'.lines) = Prose(host.lines)
      BY <1>7, <1>10
    <3> QED
      BY <1>1, <1>2, <3>1 DEF HostInv, Prose
  <2>3. toolIn' => ("other" \in Range(host.lines))'
    <3> SUFFICES ASSUME toolIn' PROVE "other" \in Range(host'.lines)
      OBVIOUS
    <3>1. toolIn /\ (host' = host \/ (host' = kept /\ p # Tool) \/ host'.lines = host.lines)
      BY <1>6, <1>8, <1>9
    <3>2. "other" \in Range(host.lines)
      BY <1>1, <3>1 DEF HostInv
    <3>3. p # Tool => L # "other"
      BY <1>12, <1>13
    <3> QED
      BY <1>7, <3>1, <3>2, <3>3
  <2> QED
    BY <2>1, <2>2, <2>3 DEF HostInv
<1>18. Own(p)'
  <2>1. CASE Abort(p, "error")
    <3>1. out'[p] = "error" /\ at'[p] = at[p]
      BY <1>5, <2>1, Moving
    <3>2. op[p] \in Dis => at[p] = 3 /\ grants' = {} /\ ~ marker'
      BY <1>2, <1>5 DEF DisableOk
    <3> QED
      BY <1>2, <1>5, <3>1, <3>2, Failing
  <2>2. CASE Advance(p) /\ (host'.lines = kept.lines \/ host'.lines = <<>>)
    <3>1. phase'[p] = 0 /\ at'[p] <= LastStage(op[p])
      BY <1>1, <1>5, <2>2, Moving DEF OpOk
    <3>2. ASSUME op[p] \in Dis PROVE DisableOk(p)'
      <4>1. at'[p] = 3 /\ out'[p] = "ok" /\ p \in Procs
        BY <1>5, <2>2, <3>2, Moving DEF LastStage, Dis
      <4>2. ~ present(host'.lines, ImportLine)
        <5>1. ~ present(<<>>, ImportLine)
          BY DEF present, scanTopLevel
        <5> QED
          BY <1>7, <1>13, <2>2, <4>1, <5>1
      <4>3. grants' = {} /\ ~ marker'
        BY <1>2, <1>5, <3>2 DEF DisableOk
      <4> QED
        BY <4>1, <4>2, <4>3 DEF DisableOk
    <3> QED
      BY <1>2, <1>5, <3>1, <3>2, Between
  <2>3. CASE Goto(p, 2) /\ lockB' = lockB /\ host'.lines = <<>>
    <3>1. phase'[p] = 2 /\ at'[p] = at[p] /\ out'[p] = "run"
      BY <1>5, <2>3, Moving
    <3>2. \A k : ~ InGrant(p, k)' /\ ~ InMarker(p, k)' /\ ~ InRevoke(p, k)'
      BY <1>2, <1>5, <3>1 DEF InGrant, InMarker, InRevoke, Dis
    <3>3. OpOk(p)' /\ LockOk(p)'
      BY <1>1, <1>2, <1>5, <1>6, <2>3, <3>1, <3>2 DEF OpOk, LockOk, HoldsC
    <3>4. ViewOk(p)' /\ SeenOk(p)'
      BY <2>3, <3>1, <3>2 DEF ViewOk, SeenOk, InRegister, InPrune
    <3>5. op[p] \in Dis => DisableOk(p)'
      BY <1>2, <1>5, <3>1 DEF DisableOk
    <3> QED
      BY <1>2, <1>5, <3>3, <3>4, <3>5 DEF Own, CallOk
  <2> QED
    BY <1>8, <1>9, <2>1, <2>2, <2>3
<1> QED
  BY <1>3, <1>15, <1>16, <1>17, <1>18 DEF Fine

\* The reads under lock C.
LEMMA SettingsReads ==
  ASSUME IInv, NEW p \in All, GrantReads(p) \/ RevokeReads(p) \/ RollbackReads(p)
  PROVE  Fine(p)
<1>1. OpOk(p) /\ LockOk(p) /\ CallOk(p) /\ TypeInv /\ RuleInv /\ HostInv
  BY DEF IInv, Own
<1>2. UNCHANGED <<op, before, lockA, prose, files, view, added, grants, theirs, toolIn>>
  BY DEF GrantReads, RevokeReads, RollbackReads, ReadSettings, StepOnly
<1>3. RuleInv' /\ HostInv'
  BY <1>1, <1>2 DEF RuleInv, HostInv
<1>4. \/ InGrant(p, 0) /\ ReadSettings(p, 0)
      \/ InRevoke(p, 0) /\ ReadSettings(p, 0)
      \/ InMarker(p, 1) /\ ReadSettings(p, 1)
      \/ InRevoke(p, 0) /\ settings = "absent" /\ Advance(p) /\ UNCHANGED <<lockB, lockC, seen>>
  BY Where DEF GrantReads, RevokeReads, RollbackReads
<1>5. op[p] \in BeadleOps /\ op[p] # "idle" /\ out[p] = "run"
  BY <1>4 DEF InGrant, InRevoke, InMarker, BeadleOps, Dis
<1>6. p \in Procs /\ lockA = p
  <2>1. p \in Procs
    BY <1>1, <1>5 DEF OpOk, All
  <2> QED
    BY <1>1, <1>5, <2>1 DEF LockOk
<1>7. \/ \E how \in {"error", "both"} :
           /\ Abort(p, how) /\ seen' = seen
           /\ IF how = "error" THEN InGrant(p, 0) \/ InRevoke(p, 0) ELSE InMarker(p, 1)
      \/ /\ Advance(p) /\ UNCHANGED <<lockB, lockC, seen>> /\ InRevoke(p, 0) /\ settings = "absent"
      \/ /\ \E ph \in {1, 2} :
              Goto(p, ph) /\ (IF ph = 1 THEN InGrant(p, 0) \/ InRevoke(p, 0) ELSE InMarker(p, 1))
         /\ lockC = NoOne /\ lockC' = p /\ lockB' = lockB
         /\ seen' = [seen EXCEPT ![p] = [allow |-> allow, record |-> record]]
  <2>1. ASSUME ReadSettings(p, 0)
        PROVE  \/ Abort(p, "error") /\ seen' = seen
               \/ /\ Goto(p, 1) /\ lockC = NoOne /\ lockC' = p /\ lockB' = lockB
                  /\ seen' = [seen EXCEPT ![p] = [allow |-> allow, record |-> record]]
    BY <2>1 DEF ReadSettings
  <2>2. ASSUME ReadSettings(p, 1)
        PROVE  \/ Abort(p, "both") /\ seen' = seen
               \/ /\ Goto(p, 2) /\ lockC = NoOne /\ lockC' = p /\ lockB' = lockB
                  /\ seen' = [seen EXCEPT ![p] = [allow |-> allow, record |-> record]]
    BY <2>2 DEF ReadSettings
  <2> QED
    BY <1>4, <2>1, <2>2
<1>8. DOMAIN seen' = All /\ \A q \in All \ {p} : seen'[q] = seen[q]
  BY <1>1, <1>7 DEF TypeInv
<1>9. \A q \in All : lockC = NoOne => lockC # q
  BY EnableAssumption DEF All
<1>10. Moves(p) /\ \A q \in All \ {p} : (lockB = q => lockB' = q) /\ (lockC = q => lockC' = q)
  BY <1>5, <1>7, <1>9, Moving
<1>11. Calm(p)
  BY <1>2, <1>6, <1>8, <1>10, CalmStep
<1>12. TypeInv'
  BY <1>1, <1>2, <1>8, <1>10, TypeStep DEF TypeInv
<1>13. Own(p)'
  <2>1. ASSUME NEW how \in {"error", "both"}, Abort(p, how),
               IF how = "error" THEN InGrant(p, 0) \/ InRevoke(p, 0) ELSE InMarker(p, 1)
        PROVE  Own(p)'
    <3>1. out'[p] = how /\ at'[p] = at[p]
      BY <1>5, <2>1, Moving
    <3>2. CASE op[p] = "enable"
      <4>1. EnableOk(p)
        BY <1>1, <3>2 DEF CallOk
      <4>2. at[p] = 4 \/ (at[p] = 5 /\ how = "both")
        BY <2>1, <3>2 DEF InGrant, InMarker, InRevoke, Dis
      <4> QED
        BY <1>2, <1>5, <3>1, <3>2, <4>1, <4>2, Failing DEF EnableOk, Dis
    <3>3. CASE op[p] \in Dis
      <4>1. DisableOk(p) /\ at[p] = 1
        BY <1>1, <1>4, <3>3 DEF CallOk, InGrant, InMarker, InRevoke, Dis
      <4> QED
        BY <1>2, <1>5, <3>1, <3>3, <4>1, Failing DEF DisableOk, Dis
    <3> QED
      BY <1>5, <3>2, <3>3 DEF BeadleOps, Dis
  <2>2. CASE Advance(p) /\ InRevoke(p, 0) /\ settings = "absent"
    <3>1. op[p] \in Dis /\ at[p] = 1 /\ DisableOk(p)
      BY <1>1, <2>2 DEF InRevoke, CallOk
    <3>2. out'[p] = "run" /\ at'[p] = 2 /\ phase'[p] = 0 /\ at'[p] <= LastStage(op[p])
      BY <1>5, <2>2, <3>1, Moving DEF LastStage, Dis
    <3>3. grants' = {}
      BY <1>1, <1>2, <2>2 DEF RuleInv
    <3>4. DisableOk(p)'
      BY <3>2, <3>3 DEF DisableOk
    <3> QED
      BY <1>2, <1>5, <3>1, <3>2, <3>4, Between DEF Dis
  <2>3. ASSUME NEW ph \in {1, 2}, Goto(p, ph), lockC' = p,
               IF ph = 1 THEN InGrant(p, 0) \/ InRevoke(p, 0) ELSE InMarker(p, 1),
               seen' = [seen EXCEPT ![p] = [allow |-> allow, record |-> record]]
        PROVE  Own(p)'
    <3>1. phase'[p] = ph /\ at'[p] = at[p] /\ out'[p] = "run"
      BY <1>5, <2>3, Moving
    <3>2. seen'[p].allow = allow' /\ seen'[p].record = record'
      BY <1>1, <1>2, <2>3 DEF TypeInv
    <3>3. \A k : /\ ~ InRegister(p, k)' /\ ~ InPrune(p, k)'
                 /\ InGrant(p, k)' => k = 1 /\ InGrant(p, 0)
                 /\ InRevoke(p, k)' => k = 1 /\ InRevoke(p, 0)
                 /\ InMarker(p, k)' => k = 2 /\ InMarker(p, 1)
      BY <1>2, <2>3, <3>1 DEF InRegister, InPrune, InGrant, InRevoke, InMarker, Dis
    <3>4. OpOk(p)' /\ ViewOk(p)'
      BY <1>1, <1>2, <1>5, <3>1, <3>3 DEF OpOk, ViewOk
    <3>5. LockOk(p)'
      BY <1>2, <1>6, <2>3, <3>3 DEF LockOk, HoldsB
    <3>6. SeenOk(p)'
      BY <3>2, <3>3 DEF SeenOk
    <3>7. op[p] = "enable" => EnableOk(p)'
      BY <1>1, <1>2, <1>5, <3>1, <3>3 DEF EnableOk, CallOk
    <3>8. op[p] \in Dis => DisableOk(p)'
      BY <1>1, <1>2, <1>5, <3>1 DEF DisableOk, CallOk
    <3> QED
      BY <1>2, <3>4, <3>5, <3>6, <3>7, <3>8 DEF Own, CallOk
  <2> QED
    BY <1>7, <2>1, <2>2, <2>3
<1> QED
  BY <1>3, <1>11, <1>12, <1>13 DEF Fine

\* The two writes of a grant: what is granted was not allowed before, so it
\* is neither theirs nor an earlier grant.
LEMMA GrantStep ==
  ASSUME IInv, NEW p \in All, Grant(p)
  PROVE  Fine(p)
<1>1. OpOk(p) /\ LockOk(p) /\ SeenOk(p) /\ CallOk(p) /\ TypeInv /\ RuleInv /\ HostInv
  BY DEF IInv, Own
<1> DEFINE C == Changed(p)
           was == seen[p].record
<1>2. /\ UNCHANGED <<op, before, lockA, prose, host, there, link, guide, marker, recordBad>>
      /\ UNCHANGED <<view, seen, theirs, toolIn>>
      /\ added' = [added EXCEPT ![p] = C]
  BY DEF Grant, StepOnly, PermsOnly
<1>3. C = Rules \ seen[p].allow /\ Changed(p)' = C
  BY <1>2 DEF Changed
<1>4. PICK ph \in 1..2 :
        /\ InGrant(p, ph)
        /\ \/ /\ C = {} /\ UNCHANGED <<record, settings, allow, grants, lockB>>
              /\ Advance(p) /\ lockC' = NoOne
           \/ /\ ph = 1 /\ record' = was \cup C /\ Goto(p, 2)
              /\ UNCHANGED <<settings, allow, grants, lockB, lockC>>
           \/ /\ ph = 2 /\ settings' = "good" /\ allow' = seen[p].allow \cup Rules
              /\ grants' = grants \cup C /\ Advance(p) /\ lockC' = NoOne
              /\ UNCHANGED <<record, lockB>>
           \/ /\ Abort(p, "error") /\ UNCHANGED <<settings, allow, grants>>
              /\ record' = record \/ (ph = 2 /\ record' = was)
  <2>1. GrantWrites[1] = "record" /\ GrantWrites[2] = "settings"
    BY DEF GrantWrites
  <2>2. PICK ph \in 1..2 :
      /\ At(p, "grant", ph)
      /\ \/ /\ C = {} \/ GrantWrites[ph] = "record"
            /\ record' = IF C = {} THEN record ELSE was \cup C
            /\ UNCHANGED <<settings, allow, grants, faults>>
            /\ IF C # {} /\ ph = 1 THEN Goto(p, 2) /\ UNCHANGED <<lockB, lockC>>
               ELSE Advance(p) /\ lockC' = NoOne /\ UNCHANGED lockB
         \/ /\ C # {} /\ GrantWrites[ph] = "settings"
            /\ settings' = "good" /\ allow' = seen[p].allow \cup Rules
            /\ grants' = grants \cup C
            /\ UNCHANGED <<record, faults>>
            /\ IF ph = 1 THEN Goto(p, 2) /\ UNCHANGED <<lockB, lockC>>
               ELSE Advance(p) /\ lockC' = NoOne /\ UNCHANGED lockB
         \/ /\ C # {} /\ Fault /\ Abort(p, "error")
            /\ record' \in IF GrantWrites[ph] = "settings" THEN {record, was} ELSE {record}
            /\ UNCHANGED <<settings, allow, grants>>
    BY DEF Grant
  <2> HIDE DEF C, was
  <2>3. InGrant(p, ph)
    BY <2>2, Where
  <2>4. CASE ph = 1
    BY <2>1, <2>2, <2>3, <2>4
  <2>5. CASE ph = 2
    BY <2>1, <2>2, <2>3, <2>5
  <2> QED
    BY <2>4, <2>5
<1>5. /\ op[p] = "enable" /\ op[p] # "idle" /\ op[p] \notin Dis /\ at[p] = 4 /\ out[p] = "run"
      /\ EnableOk(p)
  BY <1>1, <1>4 DEF InGrant, Dis, CallOk
<1>6. p \in Procs /\ lockA = p /\ lockC = p
  <2>1. p \in Procs
    BY <1>1, <1>5 DEF OpOk, All, BeadleOps
  <2> QED
    BY <1>1, <1>4, <1>5, <2>1 DEF LockOk, HoldsC
<1>7. /\ allow = seen[p].allow
      /\ ph = 1 => record = was
      /\ ph = 2 => record = was \cup C /\ grants \subseteq was
  BY <1>1, <1>4 DEF SeenOk
<1>8. guide = "whole" /\ present(host.lines, ImportLine) /\ grants = before[p].grants
  BY <1>5 DEF EnableOk
<1>9. added'[p] = C /\ DOMAIN added' = All /\ \A q \in All \ {p} : added'[q] = added[q]
  BY <1>1, <1>2 DEF TypeInv
<1> HIDE DEF C, was
<1>10. Moves(p) /\ \A q \in All \ {p} : (lockB = q => lockB' = q) /\ (lockC = q => lockC' = q)
  BY <1>4, <1>5, <1>6, Moving
<1>11. Calm(p)
  BY <1>2, <1>6, <1>9, <1>10, CalmStep
<1>12. TypeInv'
  BY <1>1, <1>2, <1>9, <1>10, TypeStep DEF TypeInv
<1>13. HostInv'
  BY <1>1, <1>2 DEF HostInv
<1>14. RuleInv'
  BY <1>1, <1>2, <1>3, <1>4, <1>7 DEF RuleInv
<1>15. grants \cap C = {}
  BY <1>1, <1>3, <1>7 DEF RuleInv
<1>16. Own(p)'
  <2>1. CASE Abort(p, "error") /\ UNCHANGED <<settings, allow, grants>>
    <3>1. out'[p] = "error" /\ at'[p] = at[p]
      BY <1>5, <2>1, Moving
    <3> QED
      BY <1>2, <1>5, <1>8, <2>1, <3>1, Failing
  <2>2. CASE ph = 1 /\ record' = was \cup C /\ Goto(p, 2) /\ UNCHANGED <<settings, allow, grants, lockC>>
    <3>1. phase'[p] = 2 /\ at'[p] = 4 /\ out'[p] = "run"
      BY <1>5, <2>2, Moving
    <3>2. \A k : /\ ~ InRegister(p, k)' /\ ~ InPrune(p, k)' /\ ~ InRevoke(p, k)' /\ ~ InMarker(p, k)'
                 /\ InGrant(p, k)' => k = 2
      BY <1>2, <1>5, <3>1 DEF InRegister, InPrune, InGrant, InRevoke, InMarker, Dis
    <3>3. OpOk(p)' /\ ViewOk(p)'
      BY <1>1, <1>2, <1>5, <3>1, <3>2 DEF OpOk, ViewOk
    <3>4. LockOk(p)'
      BY <1>2, <1>6, <2>2, <3>2 DEF LockOk, HoldsB
    <3>5. grants \subseteq was
      BY <1>1, <1>7, <2>2 DEF RuleInv
    <3>6. SeenOk(p)'
      BY <1>2, <1>3, <1>7, <2>2, <3>2, <3>5 DEF SeenOk, was
    <3>7. EnableOk(p)'
      BY <1>2, <1>8, <2>2, <3>1, <3>2 DEF EnableOk
    <3> QED
      BY <1>2, <1>5, <3>3, <3>4, <3>6, <3>7 DEF Own, CallOk
  <2>3. CASE /\ Advance(p) /\ Rules \subseteq allow' /\ grants' = grants \cup C
             /\ C \subseteq record'
    <3>1. out'[p] = "run" /\ at'[p] = 5 /\ phase'[p] = 0 /\ at'[p] <= LastStage(op[p])
      BY <1>5, <2>3, Moving DEF LastStage
    <3>2. EnableOk(p)'
      BY <1>2, <1>8, <1>9, <1>15, <2>3, <3>1 DEF EnableOk, InMarker
    <3> QED
      BY <1>2, <1>5, <3>1, <3>2, Between
  <2> QED
    BY <1>3, <1>4, <1>7, <2>1, <2>2, <2>3
<1> QED
  BY <1>11, <1>12, <1>13, <1>14, <1>16 DEF Fine

\* The two writes of a removal: what goes is recorded, so it is not theirs.
LEMMA WithdrawSteps ==
  ASSUME IInv, NEW p \in All, Revoke(p) \/ Rollback(p)
  PROVE  Fine(p)
<1>1. OpOk(p) /\ LockOk(p) /\ SeenOk(p) /\ CallOk(p) /\ TypeInv /\ RuleInv /\ HostInv
  BY DEF IInv, Own
<1> DEFINE back == op[p] = "enable"
           R == IF back THEN added[p] ELSE seen[p].record \cap Rules
<1>2. /\ UNCHANGED <<op, before, lockA, prose, host, there, link, guide, marker, recordBad>>
      /\ UNCHANGED <<view, seen, theirs, toolIn, settings, added>>
  BY DEF Revoke, Rollback, Withdraw, StepOnly, PermsOnly
<1>3. PICK ph \in 1..2 :
        /\ IF back THEN InMarker(p, ph + 1) ELSE InRevoke(p, ph)
        /\ \/ /\ ph = 1 /\ record' = record
              /\ allow' = IF seen[p].allow \cap R # {} THEN seen[p].allow \ R ELSE allow
              /\ grants' = IF seen[p].allow \cap R # {} THEN grants \ R ELSE grants
              /\ Goto(p, phase[p] + 1) /\ UNCHANGED <<lockB, lockC>>
           \/ /\ ph = 2 /\ UNCHANGED <<allow, grants>>
              /\ record' = IF seen[p].record \cap R # {} THEN seen[p].record \ R ELSE record
              /\ lockC' = NoOne /\ lockB' = lockB
              /\ IF back THEN UNCHANGED <<at, phase>> /\ out' = [out EXCEPT ![p] = "error"]
                 ELSE Advance(p)
           \/ /\ UNCHANGED <<allow, record, grants>>
              /\ Abort(p, IF back THEN "both" ELSE "error")
  <2>1. RemoveWrites[1] = "settings" /\ RemoveWrites[2] = "record" /\ "settings" # "record"
    BY DEF RemoveWrites
  <2>2. CASE Revoke(p)
    <3>1. PICK ph \in 1..2 : /\ At(p, "revoke", ph)
                             /\ Withdraw(p, ph, seen[p].record \cap Rules, Advance(p), "error")
      BY <2>2 DEF Revoke
    <3>2. InRevoke(p, ph) /\ ~ back /\ R = seen[p].record \cap Rules
      BY <3>1, Where DEF InRevoke, Dis
    <3>3. CASE ph = 1
      BY <2>1, <3>1, <3>2, <3>3 DEF Withdraw, Goto
    <3>4. CASE ph = 2
      BY <2>1, <3>1, <3>2, <3>4 DEF Withdraw
    <3> QED
      BY <3>3, <3>4
  <2>3. CASE Rollback(p)
    <3>1. PICK ph \in 1..2 :
            /\ At(p, "marker", ph + 1)
            /\ Withdraw(p, ph, added[p], UNCHANGED <<at, phase>> /\ out' = [out EXCEPT ![p] = "error"],
                        "both")
      BY <2>3 DEF Rollback
    <3>2. InMarker(p, ph + 1) /\ back /\ R = added[p]
      BY <3>1, Where DEF InMarker
    <3>3. CASE ph = 1
      BY <2>1, <3>1, <3>2, <3>3 DEF Withdraw, Goto
    <3>4. CASE ph = 2
      BY <2>1, <3>1, <3>2, <3>4 DEF Withdraw
    <3> QED
      BY <3>3, <3>4
  <2> QED
    BY <2>2, <2>3
<1>4. /\ op[p] \in BeadleOps /\ op[p] # "idle" /\ out[p] = "run"
      /\ IF back THEN op[p] \notin Dis /\ at[p] = 5 /\ phase[p] = ph + 1 /\ EnableOk(p)
         ELSE op[p] \in Dis /\ at[p] = 1 /\ phase[p] = ph /\ DisableOk(p)
  BY <1>1, <1>3 DEF InMarker, InRevoke, BeadleOps, Dis, CallOk
<1>5. p \in Procs /\ lockA = p /\ lockC = p
  <2>1. p \in Procs
    BY <1>1, <1>4 DEF OpOk, All
  <2>2. CASE back
    <3>1. InMarker(p, 2) \/ InMarker(p, 3)
      BY <1>3, <2>2
    <3> QED
      BY <1>1, <1>4, <2>1, <3>1 DEF LockOk, HoldsC
  <2>3. CASE ~ back
    <3>1. InRevoke(p, 1) \/ InRevoke(p, 2)
      BY <1>3, <2>3
    <3> QED
      BY <1>1, <1>4, <2>1, <3>1 DEF LockOk, HoldsC
  <2> QED
    BY <2>2, <2>3
<1>6. /\ record = seen[p].record
      /\ ph = 1 => allow = seen[p].allow /\ R \subseteq record
      /\ ph = 1 /\ ~ back => grants \subseteq R
      /\ ph = 2 => grants \cap R = {}
  <2>1. CASE back /\ ph = 1
    <3>1. InMarker(p, 2) /\ EnableOk(p)
      BY <1>3, <1>4, <2>1
    <3> QED
      BY <1>1, <2>1, <3>1 DEF SeenOk, EnableOk
  <2>2. CASE back /\ ph = 2
    <3>1. InMarker(p, 3)
      BY <1>3, <2>2
    <3> QED
      BY <1>1, <2>2, <3>1 DEF SeenOk
  <2>3. CASE ~ back
    BY <1>1, <1>3, <2>3 DEF SeenOk, RuleInv
  <2> QED
    BY <2>1, <2>2, <2>3
<1> HIDE DEF R
<1>8. \/ /\ ph = 1 /\ allow' = allow \ R /\ grants' = grants \ R /\ record' = record
         /\ Goto(p, phase[p] + 1) /\ UNCHANGED <<lockB, lockC>>
      \/ /\ ph = 2 /\ UNCHANGED <<allow, grants>> /\ record' = record \ R
         /\ lockC' = NoOne /\ lockB' = lockB
         /\ IF back THEN UNCHANGED <<at, phase>> /\ out' = [out EXCEPT ![p] = "error"]
            ELSE Advance(p)
      \/ UNCHANGED <<allow, record, grants>> /\ Abort(p, IF back THEN "both" ELSE "error")
  <2>1. seen[p].allow \cap R = {} /\ ph = 1 => grants \ R = grants /\ allow \ R = allow
    BY <1>1, <1>6 DEF RuleInv
  <2>2. seen[p].record \cap R = {} => record \ R = record
    BY <1>6
  <2> QED
    BY <1>3, <1>6, <2>1, <2>2
<1>9. Moves(p) /\ \A q \in All \ {p} : (lockB = q => lockB' = q) /\ (lockC = q => lockC' = q)
  <2>1. CASE UNCHANGED <<at, phase>> /\ out' = [out EXCEPT ![p] = "error"] /\ lockB' = lockB
    BY <1>1, <1>5, <2>1 DEF Moves, TypeInv, Outs
  <2>2. CASE Goto(p, phase[p] + 1) /\ UNCHANGED <<lockB, lockC>> /\ ph = 1
    <3>1. phase[p] + 1 \in 0..3
      BY <1>4, <2>2
    <3> QED
      BY <1>4, <2>2, <3>1, Moving
  <2>3. CASE Advance(p) /\ lockB' = lockB
    BY <1>4, <1>5, <2>3, Moving
  <2>4. CASE Abort(p, IF back THEN "both" ELSE "error")
    <3>1. (IF back THEN "both" ELSE "error") \in {"error", "both"}
      OBVIOUS
    <3> QED
      BY <1>4, <2>4, <3>1, Moving
  <2> QED
    BY <1>5, <1>8, <2>1, <2>2, <2>3, <2>4
<1>10. Calm(p)
  BY <1>2, <1>5, <1>9, CalmStep
<1>11. TypeInv'
  BY <1>1, <1>2, <1>9, TypeStep DEF TypeInv
<1>12. HostInv'
  BY <1>1, <1>2 DEF HostInv
<1>13. RuleInv'
  BY <1>1, <1>2, <1>6, <1>8 DEF RuleInv
<1>14. back => guide = "whole" /\ present(host.lines, ImportLine)
  BY <1>4 DEF EnableOk
<1>15. Own(p)'
  <2>1. CASE UNCHANGED <<allow, record, grants>> /\ Abort(p, IF back THEN "both" ELSE "error")
    <3>1. CASE back
      <4>1. out'[p] = "both" /\ at'[p] = at[p]
        BY <1>4, <2>1, <3>1, Moving
      <4> QED
        BY <1>2, <1>4, <1>14, <3>1, <4>1, Failing
    <3>2. CASE ~ back
      <4>1. out'[p] = "error" /\ at'[p] = at[p]
        BY <1>4, <2>1, <3>2, Moving
      <4>2. marker' = before[p].marker
        BY <1>2, <1>4, <3>2 DEF DisableOk
      <4> QED
        BY <1>2, <1>4, <3>2, <4>1, <4>2, Failing DEF Dis
    <3> QED
      BY <3>1, <3>2
  <2>2. CASE /\ ph = 1 /\ allow' = allow \ R /\ grants' = grants \ R /\ record' = record
             /\ Goto(p, phase[p] + 1) /\ lockC' = lockC
    <3>1. phase[p] + 1 \in 0..3
      BY <1>4, <2>2
    <3>2. phase'[p] = phase[p] + 1 /\ at'[p] = at[p] /\ out'[p] = "run"
      BY <1>4, <2>2, <3>1, Moving
    <3>3. \A k : /\ ~ InRegister(p, k)' /\ ~ InPrune(p, k)' /\ ~ InGrant(p, k)'
                 /\ InRevoke(p, k)' => k = 2 /\ ~ back
                 /\ InMarker(p, k)' => k = 3 /\ back
      BY <1>2, <1>4, <2>2, <3>2 DEF InRegister, InPrune, InGrant, InRevoke, InMarker, Dis
    <3>4. OpOk(p)' /\ ViewOk(p)'
      BY <1>1, <1>2, <1>4, <3>2, <3>3 DEF OpOk, ViewOk
    <3>5. LockOk(p)'
      BY <1>2, <1>5, <2>2, <3>3 DEF LockOk, HoldsB
    <3>6. back => R = added'[p] /\ grants = before[p].grants \cup R /\ before[p].grants \cap R = {}
      <4>1. back => InMarker(p, 2) /\ EnableOk(p)
        BY <1>3, <1>4, <2>2
      <4> QED
        BY <1>2, <4>1 DEF EnableOk, R
    <3>7. SeenOk(p)'
      BY <1>2, <1>6, <2>2, <3>3, <3>6 DEF SeenOk
    <3>8. back => EnableOk(p)'
      BY <1>2, <1>4, <1>14, <2>2, <3>2, <3>3, <3>6 DEF EnableOk
    <3>9. ~ back => DisableOk(p)'
      BY <1>2, <1>4, <3>2 DEF DisableOk
    <3> QED
      BY <1>2, <1>4, <3>4, <3>5, <3>7, <3>8, <3>9 DEF Own, CallOk
  <2>3. CASE /\ ph = 2 /\ UNCHANGED <<allow, grants>> /\ record' = record \ R
             /\ IF back THEN UNCHANGED <<at, phase>> /\ out' = [out EXCEPT ![p] = "error"]
                ELSE Advance(p)
    <3>1. CASE back
      <4>1. out'[p] = "error" /\ at'[p] = at[p]
        BY <1>1, <2>3, <3>1 DEF TypeInv
      <4>2. grants = before[p].grants
        <5>1. InMarker(p, 3) /\ EnableOk(p)
          BY <1>3, <1>4, <2>3, <3>1
        <5> QED
          BY <5>1 DEF EnableOk
      <4> QED
        BY <1>2, <1>4, <1>14, <2>3, <3>1, <4>1, <4>2, Failing
    <3>2. CASE ~ back
      <4>1. out'[p] = "run" /\ at'[p] = 2 /\ phase'[p] = 0 /\ at'[p] <= LastStage(op[p])
        BY <1>4, <2>3, <3>2, Moving DEF LastStage, Dis
      <4>2. grants = {}
        BY <1>1, <1>3, <2>3, <3>2 DEF SeenOk
      <4>3. DisableOk(p)'
        BY <2>3, <4>1, <4>2 DEF DisableOk
      <4> QED
        BY <1>2, <1>4, <3>2, <4>1, <4>3, Between
    <3> QED
      BY <3>1, <3>2
  <2> QED
    BY <1>8, <2>1, <2>2, <2>3
<1> QED
  BY <1>10, <1>11, <1>12, <1>13, <1>15 DEF Fine

\* The steps of others on the rules.
LEMMA EditSteps ==
  ASSUME IInv, ToolAllows \/ OwnerEdits
  PROVE  IInv'
<1>1. TypeInv /\ RuleInv /\ HostInv
  BY DEF IInv
<1>2. UNCHANGED <<host, there, link, guide, marker, record, locks, local, prose, toolIn>>
  BY DEF ToolAllows, OwnerEdits
<1>3. TypeInv' /\ HostInv'
  BY <1>1, <1>2 DEF TypeInv, HostInv
<1>4. RuleInv'
  <2>1. CASE ToolAllows
    BY <1>1, <1>2, <2>1 DEF ToolAllows, RuleInv
  <2>2. CASE OwnerEdits
    BY <1>1, <1>2, <2>2 DEF OwnerEdits, RuleInv
  <2> QED
    BY <2>1, <2>2
<1>5. ASSUME NEW q \in All PROVE Own(q)'
  <2>1. OpOk(q) /\ LockOk(q) /\ ViewOk(q) /\ SeenOk(q) /\ CallOk(q)
    BY DEF IInv, Own
  <2>2. \A k : /\ InRegister(q, k)' <=> InRegister(q, k)
               /\ InPrune(q, k)' <=> InPrune(q, k)
               /\ InGrant(q, k)' <=> InGrant(q, k)
               /\ InMarker(q, k)' <=> InMarker(q, k)
               /\ InRevoke(q, k)' <=> InRevoke(q, k)
    BY <1>2 DEF InRegister, InPrune, InGrant, InMarker, InRevoke
  <2>3. OpOk(q)' /\ LockOk(q)' /\ ViewOk(q)'
    BY <1>2, <2>1, <2>2 DEF OpOk, LockOk, ViewOk, HoldsB, HoldsC
  <2>4. CASE ToolAllows
    <3>1. lockC # q
      BY <2>4, EnableAssumption DEF ToolAllows, All
    <3>2. ~ HoldsC(q)
      BY <2>1, <3>1 DEF LockOk
    <3>3. SeenOk(q)'
      BY <2>2, <3>2 DEF SeenOk, HoldsC
    <3>4. allow \subseteq allow' /\ grants' = grants
      BY <2>4 DEF ToolAllows
    <3>5. EnableOk(q) => EnableOk(q)'
      BY <1>2, <2>2, <3>4 DEF EnableOk
    <3>6. DisableOk(q) => DisableOk(q)'
      BY <1>2, <3>4 DEF DisableOk
    <3> QED
      BY <1>2, <2>1, <2>3, <3>3, <3>5, <3>6 DEF Own, CallOk
  <2>5. CASE OwnerEdits
    <3>1. lockA # q
      BY <2>5, EnableAssumption DEF OwnerEdits, All
    <3>2. op[q] \notin BeadleOps
      BY <2>1, <3>1 DEF LockOk, OpOk, All, BeadleOps
    <3>3. SeenOk(q)' /\ CallOk(q)'
      BY <1>2, <2>2, <3>2 DEF SeenOk, CallOk, InGrant, InMarker, InRevoke, Dis, BeadleOps
    <3> QED
      BY <2>3, <3>3 DEF Own
  <2> QED
    BY <2>4, <2>5
<1> QED
  BY <1>3, <1>4, <1>5 DEF IInv, All

LEMMA StepKeeps == IInv /\ [Next]_vars => IInv'
<1> SUFFICES ASSUME IInv, [Next]_vars PROVE IInv'
  OBVIOUS
<1>1. ASSUME NEW p \in All, Step(p) PROVE IInv'
  <2>1. Fine(p)
    BY <1>1, CallSteps, PlainSteps, MarkerStep, ReadHostStep, RegisterStep, PruneSteps,
       SettingsReads, GrantStep, WithdrawSteps DEF Step
  <2> QED
    BY <2>1, FineKeeps
<1>2. CASE UNCHANGED vars
  <2>1. UNCHANGED <<files, locks, local, ghosts>>
    BY <1>2 DEF vars
  <2>2. TypeInv' /\ RuleInv' /\ HostInv'
    BY <2>1 DEF IInv, TypeInv, RuleInv, HostInv
  <2>3. ASSUME NEW q \in All PROVE Own(q)'
    BY <2>1 DEF IInv, Own, OpOk, LockOk, ViewOk, SeenOk, CallOk, EnableOk, DisableOk, Changed,
                HoldsB, HoldsC, InRegister, InPrune, InGrant, InMarker, InRevoke
  <2> QED
    BY <2>2, <2>3 DEF IInv, All
<1> QED
  BY <1>1, <1>2, EditSteps DEF Next, Quiescent

LEMMA WiderSeq ==
  ASSUME NEW A, NEW B, A \subseteq B, NEW s \in Seq(A)
  PROVE  s \in Seq(B)
<1>1. s \in [1..Len(s) -> A] /\ Len(s) \in Nat
  OBVIOUS
<1>2. s \in [1..Len(s) -> B]
  BY <1>1
<1> QED
  BY <1>1, <1>2

LEMMA Start == Init => IInv
<1> SUFFICES ASSUME Init PROVE IInv
  OBVIOUS
<1>1. /\ op = [p \in All |-> "idle"] /\ out = [p \in All |-> "run"]
      /\ at = [p \in All |-> 1] /\ phase = [p \in All |-> 0]
      /\ view = [p \in All |-> Absent] /\ seen = [p \in All |-> Unread]
      /\ added = [p \in All |-> {}] /\ before = [p \in All |-> NoCall]
  BY DEF Init
<1>2. PICK h \in HostFiles : host = h.file /\ prose = h.prose
  BY DEF Init
<1>3. h.file \in [lines : Seq(STRING), ended : BOOLEAN]
  BY EnableAssumption
<1>4. host \in Files
  <2>1. STRING \subseteq Text
    BY DEF Text
  <2>2. \A x : x \in Seq(STRING) => x \in Seq(Text)
    BY <2>1, WiderSeq
  <2> QED
    BY <1>2, <1>3, <2>2 DEF Files
<1>5. TypeInv
  BY <1>1, <1>4 DEF TypeInv, Outs
<1>6. RuleInv
  BY DEF Init, RuleInv
<1>7. HostInv
  BY <1>2, EnableAssumption DEF Init, HostInv
<1>8. ASSUME NEW p \in All PROVE Own(p)
  <2>1. op[p] = "idle" /\ out[p] = "run" /\ at[p] = 1 /\ phase[p] = 0
    BY <1>1
  <2>2. \A k : ~ InRegister(p, k) /\ ~ InPrune(p, k) /\ ~ InGrant(p, k) /\ ~ InMarker(p, k) /\ ~ InRevoke(p, k)
    BY <2>1 DEF InRegister, InPrune, InGrant, InMarker, InRevoke, Dis
  <2> QED
    BY <2>1, <2>2 DEF Own, OpOk, LockOk, ViewOk, SeenOk, CallOk, HoldsB, HoldsC, BeadleOps, ToolOps,
                      LastStage, Dis
<1> QED
  BY <1>5, <1>6, <1>7, <1>8 DEF IInv

\* The inductive invariant: what a process read under a lock still stands
\* while it holds it, what its stages so far brought about still stands while
\* it holds lock A, beadle's rules are recorded and nobody else's are.
THEOREM Inductive == Spec => []IInv
<1>1. Init => IInv
  BY Start
<1>2. IInv /\ [Next]_vars => IInv'
  BY StepKeeps
<1> QED
  BY <1>1, <1>2, PTL DEF Spec

\* The marker is never there without a top-level import: Enable writes it
\* last and Disable removes it before the import, and no other tool's edit
\* of CLAUDE.md takes the import away (enableLocked, disableLocked).
THEOREM LooksEnabledIsEnabled == Spec => []MarkerMeansImport
<1>1. IInv => MarkerMeansImport
  BY DEF IInv, HostInv, MarkerMeansImport
<1> QED
  BY <1>1, Inductive, PTL

\* Every rule beadle wrote is in its record at every instant: the record is
\* written before the settings and cleared after them (transact).
THEOREM NoOrphanGrant == Spec => []GrantsRecorded
<1>1. IInv => GrantsRecorded
  BY DEF IInv, RuleInv, GrantsRecorded
<1> QED
  BY <1>1, Inductive, PTL

\* Rules of others, the other tool's import and every line of CLAUDE.md that is
\* the user's, in its order and whatever a code block quotes, survive whatever
\* beadle does (plan, remove, appended, PruneAndDiscardEmpty).
THEOREM OthersKeepTheirs == Spec => []ForeignSurvives
<1>1. ASSUME IInv PROVE ForeignSurvives
  <2>1. RuleInv /\ HostInv
    BY <1>1 DEF IInv
  <2> DEFINE ours == {i \in scanTopLevel(host.lines) : host.lines[i] \in Imports}
  <2>2. Without(host.lines, ours) = prose
    BY <2>1 DEF HostInv, Prose
  <2>3. ours \in SUBSET {i \in DOMAIN host.lines : host.lines[i] \in Imports}
    BY DEF scanTopLevel
  <2> HIDE DEF ours
  <2> QED
    BY <2>1, <2>2, <2>3 DEF ForeignSurvives, RuleInv, HostInv
<1> QED
  BY <1>1, Inductive, PTL

\* What a call reports is what it left (Enable, Disable, rollback).
THEOREM ReportsAreTrue == Spec => []OutcomeHonest
<1>1. ASSUME IInv PROVE OutcomeHonest
  <2> SUFFICES ASSUME NEW p \in Procs
               PROVE  /\ op[p] = "enable" /\ out[p] = "ok" =>
                           /\ marker /\ guide = "whole"
                           /\ present(host.lines, ImportLine) /\ Rules \subseteq allow
                      /\ op[p] = "enable" /\ out[p] = "error" => grants = before[p].grants
                      /\ op[p] \in {"disable", "purge"} /\ out[p] = "ok" =>
                           ~marker /\ grants = {} /\ ~present(host.lines, ImportLine)
                      /\ op[p] \in {"disable", "purge"} /\ out[p] = "error" =>
                           marker \/ grants = {} \/ ~before[p].marker
    BY DEF OutcomeHonest
  <2>1. CallOk(p) /\ at[p] \in 1..5
    BY <1>1 DEF IInv, TypeInv, Own, All
  <2>2. op[p] = "enable" => EnableOk(p)
    BY <2>1 DEF CallOk
  <2>3. op[p] \in {"disable", "purge"} => DisableOk(p)
    BY <2>1 DEF CallOk, Dis
  <2>4. op[p] = "enable" /\ out[p] = "ok" =>
           marker /\ guide = "whole" /\ present(host.lines, ImportLine) /\ Rules \subseteq allow
    BY <2>1, <2>2 DEF EnableOk
  <2>5. op[p] = "enable" /\ out[p] = "error" => grants = before[p].grants
    BY <2>2 DEF EnableOk
  <2>6. op[p] \in {"disable", "purge"} /\ out[p] = "ok" =>
           ~marker /\ grants = {} /\ ~present(host.lines, ImportLine)
    BY <2>1, <2>3 DEF DisableOk
  <2>7. op[p] \in {"disable", "purge"} /\ out[p] = "error" =>
           marker \/ grants = {} \/ ~before[p].marker
    BY <2>1, <2>3 DEF DisableOk
  <2> QED
    BY <2>4, <2>5, <2>6, <2>7
<1> QED
  BY <1>1, Inductive, PTL
=============================================================================
