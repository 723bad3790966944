-------------------------- MODULE MailToolsProofs ---------------------------
(***************************************************************************)
(* Proofs about MailTools, for any number of callers, identities, messages *)
(* and contacts: what is shown may be read, listings are true, a trust     *)
(* level is earned, counts are true, and acknowledged edits are kept.      *)
(*                                                                         *)
(* Every action is described once by the fields of the call it may write   *)
(* and the stages it may go on to (Works); each property then looks at the *)
(* few stages that write what it is about.                                 *)
(***************************************************************************)
EXTENDS MailTools, FiniteSetTheorems, NaturalsInduction, WellFoundedInduction, TLAPS

-----------------------------------------------------------------------------
(* The inductive invariants *)

St(c) == Handlers[call[c].tool][call[c].pc]
Done(c) == ~Running(c) /\ call[c].ok

\* The place of "identity" in a handler, of "select", of "add" or "remove".
Base(t) == IF t = "mark" THEN 2 ELSE 1
SelectAt(t) == IF t \in {"list", "search"} THEN 9 ELSE 10
EditAt(t) == IF t \in {"add_contact", "remove_contact"} THEN 10 ELSE 9

Fields ==
    {"tool", "pc", "ok", "id", "file", "fd", "buf", "book", "new", "want", "q",
     "page", "view", "sel", "at", "unseen", "degraded", "total", "rows", "check",
     "trust", "shown", "ids", "asked", "hit", "n", "exact"}

Shape == DOMAIN call = Callers /\ \A c \in Callers : DOMAIN call[c] = Fields

\* A call is at a place of its handler until it is over, and file is the one
\* EnsureIdentityDir is working on.
FlowInv(c) ==
    /\ call[c].tool \in DOMAIN Handlers \cup {None}
    /\ call[c].pc \in Nat
    /\ Running(c) => call[c].tool # None /\ call[c].pc <= Len(Handlers[call[c].tool])
    /\ call[c].ok => ~Running(c) /\ call[c].tool # None
    /\ Running(c) /\ call[c].tool # "identity_set" =>
         LET k == call[c].pc - Base(call[c].tool)
         IN  /\ k <= 3 => call[c].file = "email.json"
             /\ k \in 4..6 => call[c].file = "contacts.json"

Increasing(s) == \A i, j \in DOMAIN s : i < j => s[i] < s[j]
Folder(s) == s \in Seq(Nat) /\ Increasing(s)

\* UIDs ascend and are never used again.
BoxInv ==
    /\ Folder(inbox)
    /\ uidnext \in Nat
    /\ Range(inbox) \subseteq DOMAIN Mail
    /\ \A u \in Range(inbox) : u < uidnext

\* TrustEarned for one row.
Earned(m, level) ==
    /\ level = "verified" => m.top.ct = "signed" /\ m.top.sig = "good"
    /\ level = "untrusted" => m.top.ct = "signed" /\ m.top.sig # "mangled"
    /\ level = "trusted" => m.top.proton \/ m.inner.proton

TrustInv(c) ==
    /\ DOMAIN call[c].trust = DOMAIN call[c].rows
    /\ \A i \in DOMAIN call[c].rows :
         /\ call[c].rows[i] \in DOMAIN Mail
         /\ Earned(Mail[call[c].rows[i]], call[c].trust[i])
    /\ call[c].tool = "verify_signature" /\ call[c].pc >= 10 => DOMAIN call[c].rows = {1}

\* Nothing is hit before the last stage.
CountInv(c) ==
    /\ IsFiniteSet(call[c].asked) /\ call[c].hit \subseteq call[c].asked
    /\ Range(call[c].ids) = call[c].asked
    /\ Len(call[c].ids) = Cardinality(call[c].asked)
    /\ \/ call[c].n = Cardinality(call[c].hit)
       \/ call[c].n = 0 /\ ~call[c].exact
    /\ Running(c) => call[c].hit = {} /\ call[c].n = 0 /\ call[c].exact

Ids == Emails \cup {Root}

NamesInv ==
    /\ DOMAIN names = {"repo", "active", "default"}
    /\ {names.repo, names.active} \subseteq Handles \cup {"absent", "empty", Broken}
    /\ names.default \in Emails \cup {"absent", "empty"}
    /\ override \in Emails \cup {None}

\* From the identity on, it was to be used; from the contacts on, its book was
\* in force; past the gate the message may be read.
ReadInv(c) ==
    LET t == call[c].tool
        pc == call[c].pc
        one == t \in {"read_message", "download_attachment"}
    IN  /\ pc >= 2 \/ Done(c) =>
             call[c].id \in Emails /\ \E v \in force[c] : v.named /\ v.id = call[c].id
        /\ pc >= 10 \/ Done(c) =>
             \E w \in force[c] : w.id = call[c].id /\ w.book = call[c].book
        /\ Running(c) /\ pc <= 9 => call[c].shown = {}
        /\ \A u \in call[c].shown : May(c, u)
        /\ one /\ pc >= 11 => DOMAIN call[c].rows = {1}
        /\ one /\ pc >= 12 => May(c, call[c].rows[1])

MatchesOf(r) == UIDSearch(r.q, r.at, Range(r.at) \ r.unseen)

\* What the rows of a listing may be, of which there are still in the folder.
Truthful(r, there) ==
    LET page == PageOf(MatchesOf(r), r.page)
    IN  /\ ~r.degraded =>
             /\ r.total = Len(MatchesOf(r))
             /\ Range(r.rows) \subseteq page
             /\ page \cap there \subseteq Range(r.rows)
        /\ r.q.unread => ~r.degraded
        /\ Len(r.rows) <= r.page.count
        /\ Increasing(r.rows)

\* What is then to be fetched.
Ready(r) ==
    /\ ~r.degraded => /\ r.total = Len(MatchesOf(r))
                      /\ Range(r.sel) = PageOf(MatchesOf(r), r.page)
    /\ r.q.unread => ~r.degraded
    /\ Len(r.sel) <= r.page.count

\* The moment a listing is about is past: next is the UID that follows.
Taken(r, next) == Folder(r.at) /\ \A u \in Range(r.at) : u < next

ListInv(c) ==
    LET r == call[c]
        b == SelectAt(r.tool)
    IN  /\ Running(c) /\ r.pc <= b + 3 => r.rows = <<>>
        /\ Running(c) /\ r.pc <= b + 2 => ~r.degraded
        /\ Running(c) /\ r.pc <= b => r.total = 0
        /\ r.pc > b \/ Done(c) => Taken(r, uidnext)
        /\ r.pc = b + 3 => Ready(r)
        /\ r.pc > b + 3 \/ Done(c) => Truthful(r, Range(inbox))

\* Past its identity a call has the files of somebody.
KnownInv(c) ==
    LET t == call[c].tool
    IN  /\ t # "identity_set" /\ call[c].pc > Base(t) => call[c].id \in Ids
        /\ t \in Editors /\ Done(c) => call[c].id \in Ids

\* A contacts file at rest.
FileOK(f) == f = Absent \/ f = Torn \/ (IsBook(f.book) /\ f = Book(f.book))

Stored(e) == files[e]["contacts.json"]

FilesShape ==
    /\ DOMAIN files = Ids /\ DOMAIN tmp = Ids
    /\ \A e \in Ids : DOMAIN files[e] = {"email.json", "contacts.json"}

FilesInv == FilesShape /\ \A e \in Ids : FileOK(Stored(e)) /\ FileOK(tmp[e])

Copies(c) == At(c, "fill") /\ call[c].file = "contacts.json"
Writing(c) == At(c, "write") \/ At(c, "rename")

\* What a call holds is a book, save for a configuration on its way.
HeldInv(c) ==
    /\ IsBook(call[c].book) /\ IsBook(call[c].new)
    /\ \/ FileOK(call[c].buf)
       \/ call[c].file = "email.json" /\ (At(c, "create") \/ At(c, "fill"))

\* A torn file is spoilt or being filled.
TornInv ==
    \A e \in Ids : Stored(e) = Torn =>
        e \in spoilt \/ \E c \in Callers : call[c].id = e /\ Copies(c) /\ call[c].fd = "file"

\* Unless a file is spoilt one writer is between open and rename, and its data
\* is where it thinks.
WriterInv ==
    \A c \in Callers : Writing(c) /\ call[c].id \notin spoilt =>
        /\ \A d \in Callers : Writing(d) /\ call[d].id = call[c].id => d = c
        /\ At(c, "write") => call[c].fd = "tmp"
        /\ At(c, "rename") => tmp[call[c].id] = Book(call[c].new)

AloneInv(c) ==
    call[c].tool \in Editors /\ alone[c] =>
        /\ \A d \in Callers : ~Editing(c, d)
        /\ call[c].id \notin spoilt =>
             /\ At(c, "add") \/ At(c, "remove") => Stored(call[c].id).book = call[c].book
             /\ At(c, "open") \/ Writing(c) => call[c].new = call[c].want
             /\ Done(c) => Stored(call[c].id) = Book(call[c].want)
-----------------------------------------------------------------------------
(* Loops *)

\* A set of naturals has a least element.
LEMMA LeastNatural ==
  ASSUME NEW T \in SUBSET Nat, T # {}
  PROVE  \E x \in T : \A y \in T : x <= y
<1>1. IsWellFoundedOn(OpToRel(<, Nat), Nat)
  BY NatLessThanWellFounded
<1>2. PICK x \in T : \A y \in T : ~ (<<y, x>> \in OpToRel(<, Nat))
  BY <1>1, WFMin
<1>3. \A y \in T : ~ (y < x)
  BY <1>2 DEF OpToRel
<1> QED
  BY <1>3

\* Induction up to n, on a set instead of a predicate.
LEMMA InductionTo ==
  ASSUME NEW n \in Nat, NEW T, 0 \in T, \A i \in 1..n : i - 1 \in T => i \in T
  PROVE  \A i \in 0..n : i \in T
<1> DEFINE U == {i \in 0..n : i \notin T}
<1> SUFFICES ASSUME U # {} PROVE FALSE
  OBVIOUS
<1>1. U \in SUBSET Nat
  OBVIOUS
<1>2. PICK x \in U : \A y \in U : x <= y
  BY <1>1, LeastNatural
<1>3. x \in 1..n /\ x - 1 \in 0..n
  BY <1>2
<1>4. x - 1 \in T
  BY <1>2, <1>3
<1> QED
  BY <1>2, <1>3, <1>4

\* A loop over 1..n with body st runs to its end.
Stays(st, X) == \A x \in X, i \in Nat : st[<<x, i>>] \in X
Loop(f, a, st, X, n) ==
    f \in [0..n -> X] /\ f[0] = a /\ \A i \in 1..n : f[i] = st[<<f[i - 1], i>>]

\* The values of a loop exist.
LEMMA LoopRuns ==
  ASSUME NEW X, NEW a \in X, NEW n \in Nat, NEW st, Stays(st, X)
  PROVE  \E f : Loop(f, a, st, X, n)
<1> USE DEF Stays
<1> DEFINE Runs(f, m) == f[0] = a /\ \A i \in 1..m : f[i] = st[<<f[i - 1], i>>]
           T == {m \in Nat : \E f \in [0..m -> X] : Runs(f, m)}
<1>1. 0 \in T
  <2>1. [i \in 0..0 |-> a] \in [0..0 -> X] /\ Runs([i \in 0..0 |-> a], 0)
    OBVIOUS
  <2> QED
    BY <2>1
<1>2. ASSUME NEW m \in 1..n, m - 1 \in T PROVE m \in T
  <2>1. PICK f \in [0..(m - 1) -> X] : Runs(f, m - 1)
    BY <1>2
  <2>2. m \in Nat /\ m - 1 \in Nat /\ m - 1 \in 0..(m - 1) /\ f[m - 1] \in X
    BY <2>1
  <2>3. st[<<f[m - 1], m>>] \in X
    BY <2>2
  <2> DEFINE g == [i \in 0..m |-> IF i = m THEN st[<<f[m - 1], m>>] ELSE f[i]]
  <2>4. g \in [0..m -> X]
    <3>1. \A i \in 0..m : i # m => i \in 0..(m - 1)
      BY <2>2
    <3> QED
      BY <2>1, <2>3, <3>1
  <2>5. (\A i \in 0..(m - 1) : g[i] = f[i]) /\ g[m] = st[<<f[m - 1], m>>]
    BY <2>2
  <2> HIDE DEF g
  <2>6. ASSUME NEW i \in 1..m PROVE g[i] = st[<<g[i - 1], i>>]
    <3>1. CASE i = m
      BY <2>2, <2>5, <3>1
    <3>2. CASE i # m
      <4>1. i \in 1..(m - 1) /\ i \in 0..(m - 1) /\ i - 1 \in 0..(m - 1)
        BY <2>2, <3>2
      <4> QED
        BY <2>1, <2>5, <4>1
    <3> QED
      BY <3>1, <3>2
  <2>7. g[0] = a
    BY <2>1, <2>2, <2>5
  <2> QED
    BY <2>2, <2>4, <2>6, <2>7
<1>3. n \in T
  <2> HIDE DEF T
  <2>1. \A i \in 0..n : i \in T
    BY <1>1, <1>2, InductionTo
  <2> QED
    BY <2>1
<1> QED
  BY <1>3 DEF Loop

\* f holds the values of the loop of Only.
Filters(f, s, S) ==
    /\ f[0] = <<>>
    /\ \A i \in 1..Len(s) : f[i] = IF s[i] \in S THEN Append(f[i - 1], s[i]) ELSE f[i - 1]

LEMMA OnlyRuns ==
  ASSUME NEW X, NEW s \in Seq(X), NEW S
  PROVE  \E f \in [0..Len(s) -> Seq(X)] : Filters(f, s, S) /\ Only(s, S) = f[Len(s)]
<1> DEFINE n == Len(s)
           Y == Seq(X)
           st == [x \in Y \X Nat |->
                    IF x[2] \in 1..n /\ s[x[2]] \in S THEN Append(x[1], s[x[2]]) ELSE x[1]]
           Rec(f) == f = [i \in 0..n |-> IF i = 0 THEN <<>> ELSE
                            IF s[i] \in S THEN Append(f[i - 1], s[i]) ELSE f[i - 1]]
<1>1. n \in Nat /\ \A i \in 1..n : s[i] \in X
  OBVIOUS
<1>2. <<>> \in Y
  OBVIOUS
<1> HIDE DEF n
<1>3. \A x \in Y, i \in Nat :
        st[<<x, i>>] = IF i \in 1..n /\ s[i] \in S THEN Append(x, s[i]) ELSE x
  OBVIOUS
<1>a. \A x \in Y, i \in 1..n : Append(x, s[i]) \in Y
  BY <1>1
<1> HIDE DEF st, Y
<1>4. Stays(st, Y)
  BY <1>3, <1>a DEF Stays
<1>5. PICK f : Loop(f, <<>>, st, Y, n)
  BY <1>1, <1>2, <1>4, LoopRuns
<1>6. f \in [0..n -> Y] /\ f[0] = <<>> /\ \A i \in 1..n : f[i] = st[<<f[i - 1], i>>]
  BY <1>5 DEF Loop
<1>7. ASSUME NEW i \in 1..n PROVE f[i] = IF s[i] \in S THEN Append(f[i - 1], s[i]) ELSE f[i - 1]
  <2>1. i - 1 \in 0..n /\ i \in Nat
    BY <1>1
  <2>2. f[i - 1] \in Y
    BY <1>6, <2>1
  <2> QED
    BY <1>3, <1>6, <2>1, <2>2
<1>8. Rec(f)
  <2>1. ASSUME NEW i \in 0..n
        PROVE  f[i] = IF i = 0 THEN <<>> ELSE IF s[i] \in S THEN Append(f[i - 1], s[i]) ELSE f[i - 1]
    <3>1. CASE i = 0
      BY <1>6, <3>1
    <3>2. CASE i # 0
      <4>1. i \in 1..n
        BY <1>1, <3>2
      <4> QED
        BY <1>7, <3>2, <4>1
    <3> QED
      BY <3>1, <3>2
  <2> QED
    BY <1>6, <2>1
<1> DEFINE g == CHOOSE h : Rec(h)
<1>9. Rec(g)
  BY <1>8
<1>10. Only(s, S) = g[n]
  BY DEF Only, n
<1> HIDE DEF g
<1> DEFINE e == <<>>
           body(i) == IF s[i] \in S THEN Append(g[i - 1], s[i]) ELSE g[i - 1]
<1>9a. g = [i \in 0..n |-> IF i = 0 THEN e ELSE body(i)]
  BY <1>9
<1> HIDE DEF e, body
<1>11a. \A i \in 1..n : g[i] = body(i)
  BY <1>1, <1>9a
<1>12a. g[0] = e
  BY <1>1, <1>9a
<1>11. \A i \in 1..n : g[i] = IF s[i] \in S THEN Append(g[i - 1], s[i]) ELSE g[i - 1]
  BY <1>11a DEF body
<1>12. g[0] = <<>>
  BY <1>12a DEF e
<1>13. \A i \in 0..n : g[i] \in Y
  <2> DEFINE T == {i \in 0..n : g[i] \in Y}
  <2>1. 0 \in T
    BY <1>1, <1>2, <1>12
  <2>2. ASSUME NEW i \in 1..n, i - 1 \in T PROVE i \in T
    BY <1>1, <1>a, <1>11, <2>2
  <2> HIDE DEF T
  <2>3. \A i \in 0..n : i \in T
    BY <1>1, <2>1, <2>2, InductionTo
  <2> QED
    BY <2>3 DEF T
<1>14. g \in [0..n -> Y]
  BY <1>9, <1>13
<1> QED
  BY <1>10, <1>11, <1>12, <1>14 DEF Filters, n, Y

LEMMA AppendIs ==
  ASSUME NEW X, NEW r \in Seq(X), NEW x
  PROVE  /\ Append(r, x) \in Seq(X \cup {x})
         /\ Len(Append(r, x)) = Len(r) + 1 /\ Len(r) \in Nat
         /\ Append(r, x)[Len(r) + 1] = x
         /\ \A i \in 1..Len(r) : Append(r, x)[i] = r[i]
         /\ Range(Append(r, x)) = Range(r) \cup {x}
<1>0. /\ Len(Append(r, x)) = Len(r) + 1 /\ Len(r) \in Nat
      /\ Append(r, x)[Len(r) + 1] = x
      /\ \A i \in 1..Len(r) : Append(r, x)[i] = r[i]
      /\ DOMAIN Append(r, x) = 1..(Len(r) + 1)
      /\ DOMAIN r = 1..Len(r)
  OBVIOUS
<1>1. Append(r, x) \in Seq(X \cup {x})
  <2>1. r \in Seq(X \cup {x})
    OBVIOUS
  <2> QED
    BY <2>1
<1> DEFINE a == Append(r, x)
<1> HIDE DEF a
<1>2. /\ DOMAIN a = 1..(Len(r) + 1) /\ DOMAIN r = 1..Len(r) /\ Len(r) \in Nat
      /\ a[Len(r) + 1] = x /\ \A i \in 1..Len(r) : a[i] = r[i]
  BY <1>0 DEF a
<1>3. Range(a) = Range(r) \cup {x}
  <2>1. ASSUME NEW y \in Range(a) PROVE y \in Range(r) \cup {x}
    <3>1. PICK i \in 1..(Len(r) + 1) : a[i] = y
      BY <1>2 DEF Range
    <3>2. CASE i = Len(r) + 1
      BY <1>2, <3>1, <3>2
    <3>3. CASE i # Len(r) + 1
      <4>1. i \in 1..Len(r)
        BY <1>2, <3>3
      <4> QED
        BY <1>2, <3>1, <4>1 DEF Range
    <3> QED
      BY <3>2, <3>3
  <2>2. ASSUME NEW y \in Range(r) PROVE y \in Range(a)
    <3>1. PICK i \in 1..Len(r) : r[i] = y
      BY <1>2 DEF Range
    <3>2. i \in 1..(Len(r) + 1)
      BY <1>2
    <3> QED
      BY <1>2, <3>1, <3>2 DEF Range
  <2>3. x \in Range(a)
    BY <1>2 DEF Range
  <2> QED
    BY <2>1, <2>2, <2>3
<1> QED
  BY <1>0, <1>1, <1>3 DEF a

\* Only keeps exactly the elements that pass, and their order.
LEMMA OnlyIs ==
  ASSUME NEW X, NEW s \in Seq(X), NEW S
  PROVE  /\ Only(s, S) \in Seq(X)
         /\ Range(Only(s, S)) = Range(s) \cap S
         /\ Len(Only(s, S)) <= Len(s)
<1> DEFINE n == Len(s)
<1>1. PICK f \in [0..n -> Seq(X)] : Filters(f, s, S) /\ Only(s, S) = f[n]
  BY OnlyRuns
<1>2. n \in Nat /\ DOMAIN s = 1..n
  OBVIOUS
<1>3. \A i \in 1..n : f[i] = IF s[i] \in S THEN Append(f[i - 1], s[i]) ELSE f[i - 1]
  BY <1>1 DEF Filters
<1>4. f[0] = <<>> /\ Len(f[0]) = 0 /\ Range(f[0]) = {}
  BY <1>1 DEF Filters, Range
<1> HIDE DEF n
<1> DEFINE first(i) == {s[j] : j \in {k \in 1..n : k <= i}} \cap S
           T == {i \in 0..n : Len(f[i]) <= i /\ Range(f[i]) = first(i)}
<1>5. 0 \in T
  BY <1>2, <1>4
<1>6. ASSUME NEW i \in 1..n, i - 1 \in T PROVE i \in T
  <2>0. i \in 0..n /\ i - 1 \in 0..n /\ i \in Nat
    BY <1>2
  <2>a. f[i - 1] \in Seq(X)
    BY <1>1, <2>0
  <2>b. Len(f[i - 1]) \in Nat
    BY <2>a
  <2>1. /\ i \in 0..n /\ i - 1 \in 0..n /\ f[i - 1] \in Seq(X) /\ i \in Nat
        /\ Len(f[i - 1]) <= i - 1 /\ Range(f[i - 1]) = first(i - 1) /\ Len(f[i - 1]) \in Nat
    BY <1>6, <2>0, <2>a, <2>b
  <2>2. first(i) = first(i - 1) \cup ({s[i]} \cap S)
    <3>1. \A k \in 1..n : k <= i <=> k <= i - 1 \/ k = i
      BY <1>2
    <3> QED
      BY <3>1
  <2> HIDE DEF first
  <2>3. CASE s[i] \in S
    <3>1. f[i] = Append(f[i - 1], s[i])
      BY <1>3, <2>3
    <3>2. Len(f[i]) = Len(f[i - 1]) + 1 /\ Range(f[i]) = Range(f[i - 1]) \cup {s[i]}
      BY <2>1, <3>1, AppendIs
    <3>3. Len(f[i]) <= i
      BY <2>1, <3>2
    <3> QED
      BY <2>1, <2>2, <2>3, <3>2, <3>3
  <2>4. CASE s[i] \notin S
    <3>1. f[i] = f[i - 1]
      BY <1>3, <2>4
    <3>2. Len(f[i]) <= i
      BY <2>1, <3>1
    <3> QED
      BY <2>1, <2>2, <2>4, <3>1, <3>2
  <2> QED
    BY <2>3, <2>4
<1> HIDE DEF T
<1>7a. \A i \in 0..n : i \in T
  BY <1>2, <1>5, <1>6, InductionTo
<1>7. n \in T
  BY <1>2, <1>7a
<1>8. Range(s) = {s[j] : j \in {k \in 1..n : k <= n}}
  <2>1. DOMAIN s = 1..n
    BY DEF n
  <2>2. {k \in 1..n : k <= n} = 1..n
    BY <1>2
  <2> QED
    BY <2>1, <2>2 DEF Range
<1>9. n \in 0..n
  BY <1>2
<1> QED
  BY <1>1, <1>7, <1>8, <1>9 DEF T, n

LEMMA OnlyAll ==
  ASSUME NEW X, NEW s \in Seq(X), NEW S, Range(s) \subseteq S
  PROVE  Only(s, S) = s
<1> DEFINE n == Len(s)
<1>1. PICK f \in [0..n -> Seq(X)] : Filters(f, s, S) /\ Only(s, S) = f[n]
  BY OnlyRuns
<1>2. n \in Nat /\ \A i \in 1..n : s[i] \in S
  BY DEF Range
<1>3. \A i \in 1..n : f[i] = Append(f[i - 1], s[i])
  BY <1>1, <1>2 DEF Filters
<1>4. Len(f[0]) = 0
  BY <1>1 DEF Filters
<1> HIDE DEF n
<1> DEFINE T == {i \in 0..n : Len(f[i]) = i /\ \A j \in 1..i : f[i][j] = s[j]}
<1>5. 0 \in T
  BY <1>2, <1>4
<1>6. ASSUME NEW i \in 1..n, i - 1 \in T PROVE i \in T
  <2>1. /\ i - 1 \in 0..n /\ i \in 0..n /\ f[i - 1] \in Seq(X) /\ Len(f[i - 1]) = i - 1
        /\ \A j \in 1..(i - 1) : f[i - 1][j] = s[j]
    BY <1>1, <1>2, <1>6
  <2>2. Len(f[i]) = i /\ f[i][i] = s[i] /\ \A j \in 1..(i - 1) : f[i][j] = s[j]
    <3>1. f[i] = Append(f[i - 1], s[i]) /\ i - 1 + 1 = i
      BY <1>3
    <3> QED
      BY <2>1, <3>1, AppendIs
  <2>3. \A j \in 1..i : j = i \/ j \in 1..(i - 1)
    OBVIOUS
  <2> QED
    BY <2>1, <2>2, <2>3
<1> HIDE DEF T
<1>7a. \A i \in 0..n : i \in T
  BY <1>2, <1>5, <1>6, InductionTo
<1>7. n \in T
  BY <1>2, <1>7a
<1>8. Len(f[n]) = n /\ \A j \in 1..n : f[n][j] = s[j]
  BY <1>7 DEF T
<1>9. f[n] \in Seq(X)
  BY <1>1, <1>2
<1> QED
  BY <1>1, <1>8, <1>9 DEF n

LEMMA OnlyIncreasing ==
  ASSUME NEW s, Folder(s), NEW S
  PROVE  Folder(Only(s, S))
<1> DEFINE n == Len(s)
<1>1. PICK f \in [0..n -> Seq(Nat)] : Filters(f, s, S) /\ Only(s, S) = f[n]
  BY OnlyRuns DEF Folder
<1>2. n \in Nat /\ DOMAIN s = 1..n /\ \A i \in 1..n : s[i] \in Nat
  BY DEF Folder
<1>3. \A i \in 1..n : f[i] = IF s[i] \in S THEN Append(f[i - 1], s[i]) ELSE f[i - 1]
  BY <1>1 DEF Filters
<1>4. Len(f[0]) = 0 /\ f[0] = <<>>
  BY <1>1 DEF Filters
<1>4a. \A i, j \in 1..n : i < j => s[i] < s[j]
  BY <1>2 DEF Folder, Increasing
<1> HIDE DEF n
\* In order, and below what is still to come.
<1> DEFINE T == {i \in 0..n : /\ \A j, k \in 1..Len(f[i]) : j < k => f[i][j] < f[i][k]
                              /\ \A j \in 1..Len(f[i]), k \in 1..n : i < k => f[i][j] < s[k]}
<1>5. 0 \in T
  BY <1>2, <1>4
<1>6. ASSUME NEW i \in 1..n, i - 1 \in T PROVE i \in T
  <2>1. /\ i - 1 \in 0..n /\ i \in 0..n /\ f[i - 1] \in Seq(Nat) /\ Len(f[i - 1]) \in Nat
        /\ \A j, k \in 1..Len(f[i - 1]) : j < k => f[i - 1][j] < f[i - 1][k]
        /\ \A j \in 1..Len(f[i - 1]), k \in 1..n : i - 1 < k => f[i - 1][j] < s[k]
    BY <1>1, <1>2, <1>6
  <2>2. CASE s[i] \in S
    <3> DEFINE m == Len(f[i - 1])
    <3>1. f[i] = Append(f[i - 1], s[i])
      BY <1>3, <2>2
    <3>2. /\ Len(f[i]) = m + 1 /\ f[i][m + 1] = s[i] /\ \A j \in 1..m : f[i][j] = f[i - 1][j]
      BY <2>1, <3>1, AppendIs
    <3>3. m \in Nat
      BY <2>1
    <3> HIDE DEF m
    <3>4. \A j \in 1..(m + 1) : j = m + 1 \/ j \in 1..m
      BY <3>3
    <3>5. \A j \in 1..m : f[i - 1][j] < s[i]
      BY <2>1 DEF m
    <3>6. ASSUME NEW j \in 1..(m + 1), NEW k \in 1..(m + 1), j < k PROVE f[i][j] < f[i][k]
      <4>1. j \in 1..m
        BY <3>3, <3>6
      <4>2. CASE k = m + 1
        BY <3>2, <3>5, <4>1, <4>2
      <4>3. CASE k \in 1..m
        BY <2>1, <3>2, <3>6, <4>1, <4>3 DEF m
      <4> QED
        BY <3>4, <4>2, <4>3
    <3>7. ASSUME NEW j \in 1..(m + 1), NEW k \in 1..n, i < k PROVE f[i][j] < s[k]
      <4>1. CASE j = m + 1
        BY <1>4a, <3>2, <3>7, <4>1
      <4>2. CASE j \in 1..m
        <5>1. i - 1 < k
          BY <3>7
        <5> QED
          BY <2>1, <3>2, <4>2, <5>1 DEF m
      <4> QED
        BY <3>4, <4>1, <4>2
    <3> QED
      BY <2>1, <3>2, <3>6, <3>7
  <2>3. CASE s[i] \notin S
    <3>1. f[i] = f[i - 1]
      BY <1>3, <2>3
    <3>2. \A k \in 1..n : i < k => i - 1 < k
      OBVIOUS
    <3> QED
      BY <2>1, <3>1, <3>2
  <2> QED
    BY <2>2, <2>3
<1> HIDE DEF T
<1>7a. \A i \in 0..n : i \in T
  BY <1>2, <1>5, <1>6, InductionTo
<1>7. n \in T
  BY <1>2, <1>7a
<1>8. \A j, k \in 1..Len(f[n]) : j < k => f[n][j] < f[n][k]
  BY <1>7 DEF T
<1>9. f[n] \in Seq(Nat) /\ DOMAIN f[n] = 1..Len(f[n])
  BY <1>1, <1>2
<1> QED
  BY <1>1, <1>8, <1>9 DEF Folder, Increasing
-----------------------------------------------------------------------------
(* The handlers, stage by stage *)

Layout(t) ==
    LET h == Handlers[t]
        b == Base(t)
    IN  /\ Len(h) \in Nat \ {0}
        /\ t # "identity_set" =>
             /\ Len(h) >= b + 7
             /\ h[b] = "identity" /\ h[b + 1] = "stat" /\ h[b + 2] = "create" /\ h[b + 3] = "fill"
             /\ h[b + 4] = "stat" /\ h[b + 5] = "create" /\ h[b + 6] = "fill"
        /\ \A k \in 1..Len(h) :
             /\ h[k] = "identity" => t # "identity_set" /\ k = b
             /\ h[k] = "stat" => t # "identity_set" /\ (k = b + 1 \/ k = b + 4)
             /\ h[k] = "create" => t # "identity_set" /\ (k = b + 2 \/ k = b + 5)
             /\ h[k] = "fill" => t # "identity_set" /\ (k = b + 3 \/ k = b + 6)

\* Where the stages stand that some property is about.
Places(t) ==
    LET h == Handlers[t]
    IN  /\ t \in Listings => Len(h) >= SelectAt(t) + 3
        /\ t \in Editors => Len(h) = EditAt(t) + 3
        /\ t \in {"read_message", "download_attachment"} => Len(h) = 13
        /\ t = "verify_signature" => Len(h) = 10 /\ h[9] = "raw"
        /\ \A k \in 1..Len(h) :
             /\ h[k] \in {"move", "mark"} => k = Len(h)
             /\ h[k] = "verify" => t = "verify_signature" /\ k = 10
             /\ h[k] = "select" <=> t \in Listings /\ k = SelectAt(t)
             /\ h[k] = "search" <=> t \in Listings /\ k = SelectAt(t) + 1
             /\ h[k] = "retry" <=> t \in Listings /\ k = SelectAt(t) + 2
             /\ h[k] = "fetch" <=> t \in Listings /\ k = SelectAt(t) + 3
             /\ t \in Listings => h[k] \notin {"message", "raw", "ids"}
             /\ h[k] \in {"add", "remove"} <=> t \in Editors /\ k = EditAt(t)
             /\ h[k] = "open" <=> t \in Editors /\ k = EditAt(t) + 1
             /\ h[k] = "write" <=> t \in Editors /\ k = EditAt(t) + 2
             /\ h[k] = "rename" <=> t \in Editors /\ k = EditAt(t) + 3
             /\ t \in Editors => (h[k] = "contacts" <=> k = EditAt(t) - 1)
             /\ t \in Editors => h[k] # "ids"
             /\ t \in Readers => (h[k] = "contacts" <=> k = 9) /\ h[k] # "ids"
             /\ h[k] = "contacts" => t # "identity_set" /\ k >= 8
             /\ h[k] = "gate" <=> t \in {"read_message", "download_attachment"} /\ k = 11
             /\ h[k] = "expose" <=> t \in {"read_message", "download_attachment"} /\ k = 13
             /\ h[k] = "redact" => t \in {"list_messages", "search_messages"} /\ k = 15
             /\ t \in {"read_message", "download_attachment"} =>
                  (h[k] \in {"message", "raw"} <=> k = 10)

StageNames ==
    {"add", "config", "contacts", "create", "expose", "extract", "fetch", "fill", "gate", "id",
     "identity", "ids", "mark", "message", "move", "name", "open", "raw", "redact", "remove",
     "rename", "retry", "search", "select", "signatures", "stat", "truncate", "verify", "write"}

\* What a handler put together from two parts is.
Joins(h, s, u) ==
    /\ h \in Seq(StageNames) /\ Len(h) = Len(s) + Len(u)
    /\ \A i \in 1..Len(s) : h[i] = s[i]
    /\ \A i \in 1..Len(u) : h[Len(s) + i] = u[i]

LEMMA Joined ==
  ASSUME NEW s \in Seq(StageNames), NEW u \in Seq(StageNames)
  PROVE  Joins(s \o u, s, u)
  BY DEF Joins

LEMMA Stages_resolveIdentityAndConfig ==
  /\ resolveIdentityAndConfig \in Seq(StageNames) /\ Len(resolveIdentityAndConfig) = 8
  /\ resolveIdentityAndConfig[1] = "identity" /\ resolveIdentityAndConfig[2] = "stat"
  /\ resolveIdentityAndConfig[3] = "create" /\ resolveIdentityAndConfig[4] = "fill"
  /\ resolveIdentityAndConfig[5] = "stat" /\ resolveIdentityAndConfig[6] = "create"
  /\ resolveIdentityAndConfig[7] = "fill" /\ resolveIdentityAndConfig[8] = "config"
  BY DEF resolveIdentityAndConfig, StageNames

LEMMA Stages_resolveConfig ==
  /\ resolveConfig \in Seq(StageNames) /\ Len(resolveConfig) = 8
  /\ resolveConfig[1] = "identity" /\ resolveConfig[2] = "stat"
  /\ resolveConfig[3] = "create" /\ resolveConfig[4] = "fill" /\ resolveConfig[5] = "stat"
  /\ resolveConfig[6] = "create" /\ resolveConfig[7] = "fill" /\ resolveConfig[8] = "config"
  BY DEF resolveConfig, resolveIdentityAndConfig, StageNames

LEMMA Stages_resolveContactsPath ==
  /\ resolveContactsPath \in Seq(StageNames) /\ Len(resolveContactsPath) = 7
  /\ resolveContactsPath[1] = "identity" /\ resolveContactsPath[2] = "stat"
  /\ resolveContactsPath[3] = "create" /\ resolveContactsPath[4] = "fill"
  /\ resolveContactsPath[5] = "stat" /\ resolveContactsPath[6] = "create"
  /\ resolveContactsPath[7] = "fill"
  BY DEF resolveContactsPath, StageNames

LEMMA Stages_SearchMessages ==
  /\ SearchMessages \in Seq(StageNames) /\ Len(SearchMessages) = 4
  /\ SearchMessages[1] = "select" /\ SearchMessages[2] = "search"
  /\ SearchMessages[3] = "retry" /\ SearchMessages[4] = "fetch"
  BY DEF SearchMessages, StageNames

LEMMA Stages_write ==
  /\ write \in Seq(StageNames) /\ Len(write) = 3 /\ write[1] = "open" /\ write[2] = "write"
  /\ write[3] = "rename"
  BY DEF write, StageNames

LEMMA Stages_resolveContext ==
  /\ resolveContext \in Seq(StageNames) /\ Len(resolveContext) = 9
  /\ resolveContext[1] = "identity" /\ resolveContext[2] = "stat"
  /\ resolveContext[3] = "create" /\ resolveContext[4] = "fill" /\ resolveContext[5] = "stat"
  /\ resolveContext[6] = "create" /\ resolveContext[7] = "fill"
  /\ resolveContext[8] = "config" /\ resolveContext[9] = "contacts"
<1> DEFINE p2 == <<"contacts">>
<1>2. /\ p2 \in Seq(StageNames) /\ Len(p2) = 1 /\ p2[1] = "contacts"
  BY DEF StageNames
<1>5. resolveContext = resolveIdentityAndConfig \o p2
  BY DEF resolveContext
<1> HIDE DEF p2
<1>6. Joins(resolveContext, resolveIdentityAndConfig, p2)
  BY <1>5, Stages_resolveIdentityAndConfig, <1>2, Joined
<1> QED
  BY <1>6, Stages_resolveIdentityAndConfig, <1>2 DEF Joins

LEMMA Stages_listMessages ==
  /\ listMessages \in Seq(StageNames) /\ Len(listMessages) = 15
  /\ listMessages[1] = "identity" /\ listMessages[2] = "stat" /\ listMessages[3] = "create"
  /\ listMessages[4] = "fill" /\ listMessages[5] = "stat" /\ listMessages[6] = "create"
  /\ listMessages[7] = "fill" /\ listMessages[8] = "config" /\ listMessages[9] = "contacts"
  /\ listMessages[10] = "select" /\ listMessages[11] = "search" /\ listMessages[12] = "retry"
  /\ listMessages[13] = "fetch" /\ listMessages[14] = "signatures"
  /\ listMessages[15] = "redact"
<1> DEFINE p3 == <<"signatures", "redact">>
<1>3. /\ p3 \in Seq(StageNames) /\ Len(p3) = 2 /\ p3[1] = "signatures" /\ p3[2] = "redact"
  BY DEF StageNames
<1> DEFINE w == resolveContext \o SearchMessages
<1>4. w = resolveContext \o SearchMessages
  OBVIOUS
<1>5. listMessages = w \o p3
  BY DEF listMessages
<1> HIDE DEF w, p3
<1>6. Joins(w, resolveContext, SearchMessages)
  BY <1>4, Stages_resolveContext, Stages_SearchMessages, Joined
<1>7. /\ w \in Seq(StageNames) /\ Len(w) = 13 /\ w[1] = "identity" /\ w[2] = "stat"
      /\ w[3] = "create" /\ w[4] = "fill" /\ w[5] = "stat" /\ w[6] = "create"
      /\ w[7] = "fill" /\ w[8] = "config" /\ w[9] = "contacts" /\ w[10] = "select"
      /\ w[11] = "search" /\ w[12] = "retry" /\ w[13] = "fetch"
  BY <1>6, Stages_resolveContext, Stages_SearchMessages DEF Joins
<1>8. Joins(listMessages, w, p3)
  BY <1>5, <1>7, <1>3, Joined
<1> QED
  BY <1>7, <1>8, <1>3 DEF Joins

LEMMA Stages_searchMessages ==
  /\ searchMessages \in Seq(StageNames) /\ Len(searchMessages) = 15
  /\ searchMessages[1] = "identity" /\ searchMessages[2] = "stat"
  /\ searchMessages[3] = "create" /\ searchMessages[4] = "fill" /\ searchMessages[5] = "stat"
  /\ searchMessages[6] = "create" /\ searchMessages[7] = "fill"
  /\ searchMessages[8] = "config" /\ searchMessages[9] = "contacts"
  /\ searchMessages[10] = "select" /\ searchMessages[11] = "search"
  /\ searchMessages[12] = "retry" /\ searchMessages[13] = "fetch"
  /\ searchMessages[14] = "signatures" /\ searchMessages[15] = "redact"
  BY Stages_listMessages DEF searchMessages, listMessages

LEMMA Stages_readMessage ==
  /\ readMessage \in Seq(StageNames) /\ Len(readMessage) = 13 /\ readMessage[1] = "identity"
  /\ readMessage[2] = "stat" /\ readMessage[3] = "create" /\ readMessage[4] = "fill"
  /\ readMessage[5] = "stat" /\ readMessage[6] = "create" /\ readMessage[7] = "fill"
  /\ readMessage[8] = "config" /\ readMessage[9] = "contacts" /\ readMessage[10] = "message"
  /\ readMessage[11] = "gate" /\ readMessage[12] = "signatures" /\ readMessage[13] = "expose"
<1> DEFINE p2 == <<"message", "gate", "signatures", "expose">>
<1>2. /\ p2 \in Seq(StageNames) /\ Len(p2) = 4 /\ p2[1] = "message" /\ p2[2] = "gate"
      /\ p2[3] = "signatures" /\ p2[4] = "expose"
  BY DEF StageNames
<1>5. readMessage = resolveContext \o p2
  BY DEF readMessage
<1> HIDE DEF p2
<1>6. Joins(readMessage, resolveContext, p2)
  BY <1>5, Stages_resolveContext, <1>2, Joined
<1> QED
  BY <1>6, Stages_resolveContext, <1>2 DEF Joins

LEMMA Stages_downloadAttachment ==
  /\ downloadAttachment \in Seq(StageNames) /\ Len(downloadAttachment) = 13
  /\ downloadAttachment[1] = "identity" /\ downloadAttachment[2] = "stat"
  /\ downloadAttachment[3] = "create" /\ downloadAttachment[4] = "fill"
  /\ downloadAttachment[5] = "stat" /\ downloadAttachment[6] = "create"
  /\ downloadAttachment[7] = "fill" /\ downloadAttachment[8] = "config"
  /\ downloadAttachment[9] = "contacts" /\ downloadAttachment[10] = "raw"
  /\ downloadAttachment[11] = "gate" /\ downloadAttachment[12] = "extract"
  /\ downloadAttachment[13] = "expose"
<1> DEFINE p2 == <<"raw", "gate", "extract", "expose">>
<1>2. /\ p2 \in Seq(StageNames) /\ Len(p2) = 4 /\ p2[1] = "raw" /\ p2[2] = "gate"
      /\ p2[3] = "extract" /\ p2[4] = "expose"
  BY DEF StageNames
<1>5. downloadAttachment = resolveContext \o p2
  BY DEF downloadAttachment
<1> HIDE DEF p2
<1>6. Joins(downloadAttachment, resolveContext, p2)
  BY <1>5, Stages_resolveContext, <1>2, Joined
<1> QED
  BY <1>6, Stages_resolveContext, <1>2 DEF Joins

LEMMA Stages_verifySignature ==
  /\ verifySignature \in Seq(StageNames) /\ Len(verifySignature) = 10
  /\ verifySignature[1] = "identity" /\ verifySignature[2] = "stat"
  /\ verifySignature[3] = "create" /\ verifySignature[4] = "fill"
  /\ verifySignature[5] = "stat" /\ verifySignature[6] = "create"
  /\ verifySignature[7] = "fill" /\ verifySignature[8] = "config"
  /\ verifySignature[9] = "raw" /\ verifySignature[10] = "verify"
<1> DEFINE p2 == <<"raw", "verify">>
<1>2. /\ p2 \in Seq(StageNames) /\ Len(p2) = 2 /\ p2[1] = "raw" /\ p2[2] = "verify"
  BY DEF StageNames
<1>5. verifySignature = resolveIdentityAndConfig \o p2
  BY DEF verifySignature
<1> HIDE DEF p2
<1>6. Joins(verifySignature, resolveIdentityAndConfig, p2)
  BY <1>5, Stages_resolveIdentityAndConfig, <1>2, Joined
<1> QED
  BY <1>6, Stages_resolveIdentityAndConfig, <1>2 DEF Joins

LEMMA Stages_showMIME ==
  /\ showMIME \in Seq(StageNames) /\ Len(showMIME) = 9 /\ showMIME[1] = "identity"
  /\ showMIME[2] = "stat" /\ showMIME[3] = "create" /\ showMIME[4] = "fill"
  /\ showMIME[5] = "stat" /\ showMIME[6] = "create" /\ showMIME[7] = "fill"
  /\ showMIME[8] = "config" /\ showMIME[9] = "raw"
<1> DEFINE p2 == <<"raw">>
<1>2. /\ p2 \in Seq(StageNames) /\ Len(p2) = 1 /\ p2[1] = "raw"
  BY DEF StageNames
<1>5. showMIME = resolveIdentityAndConfig \o p2
  BY DEF showMIME
<1> HIDE DEF p2
<1>6. Joins(showMIME, resolveIdentityAndConfig, p2)
  BY <1>5, Stages_resolveIdentityAndConfig, <1>2, Joined
<1> QED
  BY <1>6, Stages_resolveIdentityAndConfig, <1>2 DEF Joins

LEMMA Stages_checkTrust ==
  /\ checkTrust \in Seq(StageNames) /\ Len(checkTrust) = 10 /\ checkTrust[1] = "identity"
  /\ checkTrust[2] = "stat" /\ checkTrust[3] = "create" /\ checkTrust[4] = "fill"
  /\ checkTrust[5] = "stat" /\ checkTrust[6] = "create" /\ checkTrust[7] = "fill"
  /\ checkTrust[8] = "config" /\ checkTrust[9] = "contacts" /\ checkTrust[10] = "raw"
<1> DEFINE p2 == <<"raw">>
<1>2. /\ p2 \in Seq(StageNames) /\ Len(p2) = 1 /\ p2[1] = "raw"
  BY DEF StageNames
<1>5. checkTrust = resolveContext \o p2
  BY DEF checkTrust
<1> HIDE DEF p2
<1>6. Joins(checkTrust, resolveContext, p2)
  BY <1>5, Stages_resolveContext, <1>2, Joined
<1> QED
  BY <1>6, Stages_resolveContext, <1>2 DEF Joins

LEMMA Stages_moveMessage ==
  /\ moveMessage \in Seq(StageNames) /\ Len(moveMessage) = 10 /\ moveMessage[1] = "identity"
  /\ moveMessage[2] = "stat" /\ moveMessage[3] = "create" /\ moveMessage[4] = "fill"
  /\ moveMessage[5] = "stat" /\ moveMessage[6] = "create" /\ moveMessage[7] = "fill"
  /\ moveMessage[8] = "config" /\ moveMessage[9] = "id" /\ moveMessage[10] = "move"
<1> DEFINE p2 == <<"id", "move">>
<1>2. /\ p2 \in Seq(StageNames) /\ Len(p2) = 2 /\ p2[1] = "id" /\ p2[2] = "move"
  BY DEF StageNames
<1>5. moveMessage = resolveIdentityAndConfig \o p2
  BY DEF moveMessage
<1> HIDE DEF p2
<1>6. Joins(moveMessage, resolveIdentityAndConfig, p2)
  BY <1>5, Stages_resolveIdentityAndConfig, <1>2, Joined
<1> QED
  BY <1>6, Stages_resolveIdentityAndConfig, <1>2 DEF Joins

LEMMA Stages_batchMoveMessages ==
  /\ batchMoveMessages \in Seq(StageNames) /\ Len(batchMoveMessages) = 10
  /\ batchMoveMessages[1] = "identity" /\ batchMoveMessages[2] = "stat"
  /\ batchMoveMessages[3] = "create" /\ batchMoveMessages[4] = "fill"
  /\ batchMoveMessages[5] = "stat" /\ batchMoveMessages[6] = "create"
  /\ batchMoveMessages[7] = "fill" /\ batchMoveMessages[8] = "config"
  /\ batchMoveMessages[9] = "ids" /\ batchMoveMessages[10] = "move"
<1> DEFINE p2 == <<"ids", "move">>
<1>2. /\ p2 \in Seq(StageNames) /\ Len(p2) = 2 /\ p2[1] = "ids" /\ p2[2] = "move"
  BY DEF StageNames
<1>5. batchMoveMessages = resolveIdentityAndConfig \o p2
  BY DEF batchMoveMessages
<1> HIDE DEF p2
<1>6. Joins(batchMoveMessages, resolveIdentityAndConfig, p2)
  BY <1>5, Stages_resolveIdentityAndConfig, <1>2, Joined
<1> QED
  BY <1>6, Stages_resolveIdentityAndConfig, <1>2 DEF Joins

LEMMA Stages_markMessage ==
  /\ markMessage \in Seq(StageNames) /\ Len(markMessage) = 10 /\ markMessage[1] = "identity"
  /\ markMessage[2] = "stat" /\ markMessage[3] = "create" /\ markMessage[4] = "fill"
  /\ markMessage[5] = "stat" /\ markMessage[6] = "create" /\ markMessage[7] = "fill"
  /\ markMessage[8] = "config" /\ markMessage[9] = "id" /\ markMessage[10] = "mark"
<1> DEFINE p2 == <<"id", "mark">>
<1>2. /\ p2 \in Seq(StageNames) /\ Len(p2) = 2 /\ p2[1] = "id" /\ p2[2] = "mark"
  BY DEF StageNames
<1>5. markMessage = resolveIdentityAndConfig \o p2
  BY DEF markMessage
<1> HIDE DEF p2
<1>6. Joins(markMessage, resolveIdentityAndConfig, p2)
  BY <1>5, Stages_resolveIdentityAndConfig, <1>2, Joined
<1> QED
  BY <1>6, Stages_resolveIdentityAndConfig, <1>2 DEF Joins

LEMMA Stages_batchMarkMessages ==
  /\ batchMarkMessages \in Seq(StageNames) /\ Len(batchMarkMessages) = 10
  /\ batchMarkMessages[1] = "identity" /\ batchMarkMessages[2] = "stat"
  /\ batchMarkMessages[3] = "create" /\ batchMarkMessages[4] = "fill"
  /\ batchMarkMessages[5] = "stat" /\ batchMarkMessages[6] = "create"
  /\ batchMarkMessages[7] = "fill" /\ batchMarkMessages[8] = "config"
  /\ batchMarkMessages[9] = "ids" /\ batchMarkMessages[10] = "mark"
<1> DEFINE p2 == <<"ids", "mark">>
<1>2. /\ p2 \in Seq(StageNames) /\ Len(p2) = 2 /\ p2[1] = "ids" /\ p2[2] = "mark"
  BY DEF StageNames
<1>5. batchMarkMessages = resolveIdentityAndConfig \o p2
  BY DEF batchMarkMessages
<1> HIDE DEF p2
<1>6. Joins(batchMarkMessages, resolveIdentityAndConfig, p2)
  BY <1>5, Stages_resolveIdentityAndConfig, <1>2, Joined
<1> QED
  BY <1>6, Stages_resolveIdentityAndConfig, <1>2 DEF Joins

LEMMA Stages_addContact ==
  /\ addContact \in Seq(StageNames) /\ Len(addContact) = 13 /\ addContact[1] = "identity"
  /\ addContact[2] = "stat" /\ addContact[3] = "create" /\ addContact[4] = "fill"
  /\ addContact[5] = "stat" /\ addContact[6] = "create" /\ addContact[7] = "fill"
  /\ addContact[8] = "config" /\ addContact[9] = "contacts" /\ addContact[10] = "add"
  /\ addContact[11] = "open" /\ addContact[12] = "write" /\ addContact[13] = "rename"
<1> DEFINE p2 == <<"add">>
<1>2. /\ p2 \in Seq(StageNames) /\ Len(p2) = 1 /\ p2[1] = "add"
  BY DEF StageNames
<1> DEFINE w == resolveContext \o p2
<1>4. w = resolveContext \o p2
  OBVIOUS
<1>5. addContact = w \o write
  BY DEF addContact
<1> HIDE DEF w, p2
<1>6. Joins(w, resolveContext, p2)
  BY <1>4, Stages_resolveContext, <1>2, Joined
<1>7. /\ w \in Seq(StageNames) /\ Len(w) = 10 /\ w[1] = "identity" /\ w[2] = "stat"
      /\ w[3] = "create" /\ w[4] = "fill" /\ w[5] = "stat" /\ w[6] = "create"
      /\ w[7] = "fill" /\ w[8] = "config" /\ w[9] = "contacts" /\ w[10] = "add"
  BY <1>6, Stages_resolveContext, <1>2 DEF Joins
<1>8. Joins(addContact, w, write)
  BY <1>5, <1>7, Stages_write, Joined
<1> QED
  BY <1>7, <1>8, Stages_write DEF Joins

LEMMA Stages_removeContact ==
  /\ removeContact \in Seq(StageNames) /\ Len(removeContact) = 13
  /\ removeContact[1] = "identity" /\ removeContact[2] = "stat"
  /\ removeContact[3] = "create" /\ removeContact[4] = "fill" /\ removeContact[5] = "stat"
  /\ removeContact[6] = "create" /\ removeContact[7] = "fill" /\ removeContact[8] = "config"
  /\ removeContact[9] = "contacts" /\ removeContact[10] = "remove"
  /\ removeContact[11] = "open" /\ removeContact[12] = "write"
  /\ removeContact[13] = "rename"
<1> DEFINE p2 == <<"remove">>
<1>2. /\ p2 \in Seq(StageNames) /\ Len(p2) = 1 /\ p2[1] = "remove"
  BY DEF StageNames
<1> DEFINE w == resolveContext \o p2
<1>4. w = resolveContext \o p2
  OBVIOUS
<1>5. removeContact = w \o write
  BY DEF removeContact
<1> HIDE DEF w, p2
<1>6. Joins(w, resolveContext, p2)
  BY <1>4, Stages_resolveContext, <1>2, Joined
<1>7. /\ w \in Seq(StageNames) /\ Len(w) = 10 /\ w[1] = "identity" /\ w[2] = "stat"
      /\ w[3] = "create" /\ w[4] = "fill" /\ w[5] = "stat" /\ w[6] = "create"
      /\ w[7] = "fill" /\ w[8] = "config" /\ w[9] = "contacts" /\ w[10] = "remove"
  BY <1>6, Stages_resolveContext, <1>2 DEF Joins
<1>8. Joins(removeContact, w, write)
  BY <1>5, <1>7, Stages_write, Joined
<1> QED
  BY <1>7, <1>8, Stages_write DEF Joins

LEMMA Stages_listCmd ==
  /\ listCmd \in Seq(StageNames) /\ Len(listCmd) = 12 /\ listCmd[1] = "identity"
  /\ listCmd[2] = "stat" /\ listCmd[3] = "create" /\ listCmd[4] = "fill"
  /\ listCmd[5] = "stat" /\ listCmd[6] = "create" /\ listCmd[7] = "fill"
  /\ listCmd[8] = "config" /\ listCmd[9] = "select" /\ listCmd[10] = "search"
  /\ listCmd[11] = "retry" /\ listCmd[12] = "fetch"
<1>5. listCmd = resolveConfig \o SearchMessages
  BY DEF listCmd
<1>6. Joins(listCmd, resolveConfig, SearchMessages)
  BY <1>5, Stages_resolveConfig, Stages_SearchMessages, Joined
<1> QED
  BY <1>6, Stages_resolveConfig, Stages_SearchMessages DEF Joins

LEMMA Stages_searchCmd ==
  /\ searchCmd \in Seq(StageNames) /\ Len(searchCmd) = 12 /\ searchCmd[1] = "identity"
  /\ searchCmd[2] = "stat" /\ searchCmd[3] = "create" /\ searchCmd[4] = "fill"
  /\ searchCmd[5] = "stat" /\ searchCmd[6] = "create" /\ searchCmd[7] = "fill"
  /\ searchCmd[8] = "config" /\ searchCmd[9] = "select" /\ searchCmd[10] = "search"
  /\ searchCmd[11] = "retry" /\ searchCmd[12] = "fetch"
  BY Stages_listCmd DEF searchCmd, listCmd

LEMMA Stages_readCmd ==
  /\ readCmd \in Seq(StageNames) /\ Len(readCmd) = 9 /\ readCmd[1] = "identity"
  /\ readCmd[2] = "stat" /\ readCmd[3] = "create" /\ readCmd[4] = "fill"
  /\ readCmd[5] = "stat" /\ readCmd[6] = "create" /\ readCmd[7] = "fill"
  /\ readCmd[8] = "config" /\ readCmd[9] = "message"
<1> DEFINE p2 == <<"message">>
<1>2. /\ p2 \in Seq(StageNames) /\ Len(p2) = 1 /\ p2[1] = "message"
  BY DEF StageNames
<1>5. readCmd = resolveConfig \o p2
  BY DEF readCmd
<1> HIDE DEF p2
<1>6. Joins(readCmd, resolveConfig, p2)
  BY <1>5, Stages_resolveConfig, <1>2, Joined
<1> QED
  BY <1>6, Stages_resolveConfig, <1>2 DEF Joins

LEMMA Stages_moveCmd ==
  /\ moveCmd \in Seq(StageNames) /\ Len(moveCmd) = 10 /\ moveCmd[1] = "identity"
  /\ moveCmd[2] = "stat" /\ moveCmd[3] = "create" /\ moveCmd[4] = "fill"
  /\ moveCmd[5] = "stat" /\ moveCmd[6] = "create" /\ moveCmd[7] = "fill"
  /\ moveCmd[8] = "config" /\ moveCmd[9] = "id" /\ moveCmd[10] = "move"
  BY Stages_moveMessage DEF moveCmd, moveMessage, resolveConfig

LEMMA Stages_markCmd ==
  /\ markCmd \in Seq(StageNames) /\ Len(markCmd) = 10 /\ markCmd[1] = "ids"
  /\ markCmd[2] = "identity" /\ markCmd[3] = "stat" /\ markCmd[4] = "create"
  /\ markCmd[5] = "fill" /\ markCmd[6] = "stat" /\ markCmd[7] = "create"
  /\ markCmd[8] = "fill" /\ markCmd[9] = "config" /\ markCmd[10] = "mark"
<1> DEFINE p1 == <<"ids">>
<1>1. /\ p1 \in Seq(StageNames) /\ Len(p1) = 1 /\ p1[1] = "ids"
  BY DEF StageNames
<1> DEFINE p3 == <<"mark">>
<1>3. /\ p3 \in Seq(StageNames) /\ Len(p3) = 1 /\ p3[1] = "mark"
  BY DEF StageNames
<1> DEFINE w == p1 \o resolveConfig
<1>4. w = p1 \o resolveConfig
  OBVIOUS
<1>5. markCmd = w \o p3
  BY DEF markCmd
<1> HIDE DEF w, p1, p3
<1>6. Joins(w, p1, resolveConfig)
  BY <1>4, <1>1, Stages_resolveConfig, Joined
<1>7. /\ w \in Seq(StageNames) /\ Len(w) = 9 /\ w[1] = "ids" /\ w[2] = "identity"
      /\ w[3] = "stat" /\ w[4] = "create" /\ w[5] = "fill" /\ w[6] = "stat"
      /\ w[7] = "create" /\ w[8] = "fill" /\ w[9] = "config"
  BY <1>6, <1>1, Stages_resolveConfig DEF Joins
<1>8. Joins(markCmd, w, p3)
  BY <1>5, <1>7, <1>3, Joined
<1> QED
  BY <1>7, <1>8, <1>3 DEF Joins

LEMMA Stages_contactAddCmd ==
  /\ contactAddCmd \in Seq(StageNames) /\ Len(contactAddCmd) = 12
  /\ contactAddCmd[1] = "identity" /\ contactAddCmd[2] = "stat"
  /\ contactAddCmd[3] = "create" /\ contactAddCmd[4] = "fill" /\ contactAddCmd[5] = "stat"
  /\ contactAddCmd[6] = "create" /\ contactAddCmd[7] = "fill"
  /\ contactAddCmd[8] = "contacts" /\ contactAddCmd[9] = "add" /\ contactAddCmd[10] = "open"
  /\ contactAddCmd[11] = "write" /\ contactAddCmd[12] = "rename"
<1> DEFINE p2 == <<"contacts", "add">>
<1>2. /\ p2 \in Seq(StageNames) /\ Len(p2) = 2 /\ p2[1] = "contacts" /\ p2[2] = "add"
  BY DEF StageNames
<1> DEFINE w == resolveContactsPath \o p2
<1>4. w = resolveContactsPath \o p2
  OBVIOUS
<1>5. contactAddCmd = w \o write
  BY DEF contactAddCmd
<1> HIDE DEF w, p2
<1>6. Joins(w, resolveContactsPath, p2)
  BY <1>4, Stages_resolveContactsPath, <1>2, Joined
<1>7. /\ w \in Seq(StageNames) /\ Len(w) = 9 /\ w[1] = "identity" /\ w[2] = "stat"
      /\ w[3] = "create" /\ w[4] = "fill" /\ w[5] = "stat" /\ w[6] = "create"
      /\ w[7] = "fill" /\ w[8] = "contacts" /\ w[9] = "add"
  BY <1>6, Stages_resolveContactsPath, <1>2 DEF Joins
<1>8. Joins(contactAddCmd, w, write)
  BY <1>5, <1>7, Stages_write, Joined
<1> QED
  BY <1>7, <1>8, Stages_write DEF Joins

LEMMA Stages_contactRemoveCmd ==
  /\ contactRemoveCmd \in Seq(StageNames) /\ Len(contactRemoveCmd) = 12
  /\ contactRemoveCmd[1] = "identity" /\ contactRemoveCmd[2] = "stat"
  /\ contactRemoveCmd[3] = "create" /\ contactRemoveCmd[4] = "fill"
  /\ contactRemoveCmd[5] = "stat" /\ contactRemoveCmd[6] = "create"
  /\ contactRemoveCmd[7] = "fill" /\ contactRemoveCmd[8] = "contacts"
  /\ contactRemoveCmd[9] = "remove" /\ contactRemoveCmd[10] = "open"
  /\ contactRemoveCmd[11] = "write" /\ contactRemoveCmd[12] = "rename"
<1> DEFINE p2 == <<"contacts", "remove">>
<1>2. /\ p2 \in Seq(StageNames) /\ Len(p2) = 2 /\ p2[1] = "contacts" /\ p2[2] = "remove"
  BY DEF StageNames
<1> DEFINE w == resolveContactsPath \o p2
<1>4. w = resolveContactsPath \o p2
  OBVIOUS
<1>5. contactRemoveCmd = w \o write
  BY DEF contactRemoveCmd
<1> HIDE DEF w, p2
<1>6. Joins(w, resolveContactsPath, p2)
  BY <1>4, Stages_resolveContactsPath, <1>2, Joined
<1>7. /\ w \in Seq(StageNames) /\ Len(w) = 9 /\ w[1] = "identity" /\ w[2] = "stat"
      /\ w[3] = "create" /\ w[4] = "fill" /\ w[5] = "stat" /\ w[6] = "create"
      /\ w[7] = "fill" /\ w[8] = "contacts" /\ w[9] = "remove"
  BY <1>6, Stages_resolveContactsPath, <1>2 DEF Joins
<1>8. Joins(contactRemoveCmd, w, write)
  BY <1>5, <1>7, Stages_write, Joined
<1> QED
  BY <1>7, <1>8, Stages_write DEF Joins

LEMMA Stages_identitySetCmd ==
  /\ identitySetCmd \in Seq(StageNames) /\ Len(identitySetCmd) = 2
  /\ identitySetCmd[1] = "truncate" /\ identitySetCmd[2] = "name"
  BY DEF identitySetCmd, StageNames

LEMMA LayoutIs ==
  ASSUME NEW t \in DOMAIN Handlers
  PROVE  Layout(t) /\ Places(t)
<1>1. CASE t = "list_messages"
  <2> DEFINE h == Handlers[t]
  <2>1. h = listMessages
    BY <1>1 DEF Handlers
  <2> HIDE DEF h
  <2>2. \A k \in 1..Len(h) :
          k = 1 \/ k = 2 \/ k = 3 \/ k = 4 \/ k = 5 \/ k = 6 \/ k = 7 \/ k = 8 \/ k = 9 \/ k = 10 \/
          k = 11 \/ k = 12 \/ k = 13 \/ k = 14 \/ k = 15
    BY <2>1, Stages_listMessages
  <2>3. Layout(t)
    BY <1>1, <2>1, <2>2, Stages_listMessages DEF h, Layout, Base
  <2> QED
    BY <1>1, <2>1, <2>2, <2>3, Stages_listMessages
       DEF h, Places, SelectAt, EditAt, Listings, Searches, Editors, Readers
<1>2. CASE t = "search_messages"
  <2> DEFINE h == Handlers[t]
  <2>1. h = searchMessages
    BY <1>2 DEF Handlers
  <2> HIDE DEF h
  <2>2. \A k \in 1..Len(h) :
          k = 1 \/ k = 2 \/ k = 3 \/ k = 4 \/ k = 5 \/ k = 6 \/ k = 7 \/ k = 8 \/ k = 9 \/ k = 10 \/
          k = 11 \/ k = 12 \/ k = 13 \/ k = 14 \/ k = 15
    BY <2>1, Stages_searchMessages
  <2>3. Layout(t)
    BY <1>2, <2>1, <2>2, Stages_searchMessages DEF h, Layout, Base
  <2> QED
    BY <1>2, <2>1, <2>2, <2>3, Stages_searchMessages
       DEF h, Places, SelectAt, EditAt, Listings, Searches, Editors, Readers
<1>3. CASE t = "read_message"
  <2> DEFINE h == Handlers[t]
  <2>1. h = readMessage
    BY <1>3 DEF Handlers
  <2> HIDE DEF h
  <2>2. \A k \in 1..Len(h) :
          k = 1 \/ k = 2 \/ k = 3 \/ k = 4 \/ k = 5 \/ k = 6 \/ k = 7 \/ k = 8 \/ k = 9 \/ k = 10 \/
          k = 11 \/ k = 12 \/ k = 13
    BY <2>1, Stages_readMessage
  <2>3. Layout(t)
    BY <1>3, <2>1, <2>2, Stages_readMessage DEF h, Layout, Base
  <2> QED
    BY <1>3, <2>1, <2>2, <2>3, Stages_readMessage
       DEF h, Places, SelectAt, EditAt, Listings, Searches, Editors, Readers
<1>4. CASE t = "download_attachment"
  <2> DEFINE h == Handlers[t]
  <2>1. h = downloadAttachment
    BY <1>4 DEF Handlers
  <2> HIDE DEF h
  <2>2. \A k \in 1..Len(h) :
          k = 1 \/ k = 2 \/ k = 3 \/ k = 4 \/ k = 5 \/ k = 6 \/ k = 7 \/ k = 8 \/ k = 9 \/ k = 10 \/
          k = 11 \/ k = 12 \/ k = 13
    BY <2>1, Stages_downloadAttachment
  <2>3. Layout(t)
    BY <1>4, <2>1, <2>2, Stages_downloadAttachment DEF h, Layout, Base
  <2> QED
    BY <1>4, <2>1, <2>2, <2>3, Stages_downloadAttachment
       DEF h, Places, SelectAt, EditAt, Listings, Searches, Editors, Readers
<1>5. CASE t = "verify_signature"
  <2> DEFINE h == Handlers[t]
  <2>1. h = verifySignature
    BY <1>5 DEF Handlers
  <2> HIDE DEF h
  <2>2. \A k \in 1..Len(h) :
          k = 1 \/ k = 2 \/ k = 3 \/ k = 4 \/ k = 5 \/ k = 6 \/ k = 7 \/ k = 8 \/ k = 9 \/ k = 10
    BY <2>1, Stages_verifySignature
  <2>3. Layout(t)
    BY <1>5, <2>1, <2>2, Stages_verifySignature DEF h, Layout, Base
  <2> QED
    BY <1>5, <2>1, <2>2, <2>3, Stages_verifySignature
       DEF h, Places, SelectAt, EditAt, Listings, Searches, Editors, Readers
<1>6. CASE t = "show_mime"
  <2> DEFINE h == Handlers[t]
  <2>1. h = showMIME
    BY <1>6 DEF Handlers
  <2> HIDE DEF h
  <2>2. \A k \in 1..Len(h) :
          k = 1 \/ k = 2 \/ k = 3 \/ k = 4 \/ k = 5 \/ k = 6 \/ k = 7 \/ k = 8 \/ k = 9
    BY <2>1, Stages_showMIME
  <2>3. Layout(t)
    BY <1>6, <2>1, <2>2, Stages_showMIME DEF h, Layout, Base
  <2> QED
    BY <1>6, <2>1, <2>2, <2>3, Stages_showMIME
       DEF h, Places, SelectAt, EditAt, Listings, Searches, Editors, Readers
<1>7. CASE t = "check_trust"
  <2> DEFINE h == Handlers[t]
  <2>1. h = checkTrust
    BY <1>7 DEF Handlers
  <2> HIDE DEF h
  <2>2. \A k \in 1..Len(h) :
          k = 1 \/ k = 2 \/ k = 3 \/ k = 4 \/ k = 5 \/ k = 6 \/ k = 7 \/ k = 8 \/ k = 9 \/ k = 10
    BY <2>1, Stages_checkTrust
  <2>3. Layout(t)
    BY <1>7, <2>1, <2>2, Stages_checkTrust DEF h, Layout, Base
  <2> QED
    BY <1>7, <2>1, <2>2, <2>3, Stages_checkTrust
       DEF h, Places, SelectAt, EditAt, Listings, Searches, Editors, Readers
<1>8. CASE t = "move_message"
  <2> DEFINE h == Handlers[t]
  <2>1. h = moveMessage
    BY <1>8 DEF Handlers
  <2> HIDE DEF h
  <2>2. \A k \in 1..Len(h) :
          k = 1 \/ k = 2 \/ k = 3 \/ k = 4 \/ k = 5 \/ k = 6 \/ k = 7 \/ k = 8 \/ k = 9 \/ k = 10
    BY <2>1, Stages_moveMessage
  <2>3. Layout(t)
    BY <1>8, <2>1, <2>2, Stages_moveMessage DEF h, Layout, Base
  <2> QED
    BY <1>8, <2>1, <2>2, <2>3, Stages_moveMessage
       DEF h, Places, SelectAt, EditAt, Listings, Searches, Editors, Readers
<1>9. CASE t = "batch_move"
  <2> DEFINE h == Handlers[t]
  <2>1. h = batchMoveMessages
    BY <1>9 DEF Handlers
  <2> HIDE DEF h
  <2>2. \A k \in 1..Len(h) :
          k = 1 \/ k = 2 \/ k = 3 \/ k = 4 \/ k = 5 \/ k = 6 \/ k = 7 \/ k = 8 \/ k = 9 \/ k = 10
    BY <2>1, Stages_batchMoveMessages
  <2>3. Layout(t)
    BY <1>9, <2>1, <2>2, Stages_batchMoveMessages DEF h, Layout, Base
  <2> QED
    BY <1>9, <2>1, <2>2, <2>3, Stages_batchMoveMessages
       DEF h, Places, SelectAt, EditAt, Listings, Searches, Editors, Readers
<1>10. CASE t = "mark_message"
  <2> DEFINE h == Handlers[t]
  <2>1. h = markMessage
    BY <1>10 DEF Handlers
  <2> HIDE DEF h
  <2>2. \A k \in 1..Len(h) :
          k = 1 \/ k = 2 \/ k = 3 \/ k = 4 \/ k = 5 \/ k = 6 \/ k = 7 \/ k = 8 \/ k = 9 \/ k = 10
    BY <2>1, Stages_markMessage
  <2>3. Layout(t)
    BY <1>10, <2>1, <2>2, Stages_markMessage DEF h, Layout, Base
  <2> QED
    BY <1>10, <2>1, <2>2, <2>3, Stages_markMessage
       DEF h, Places, SelectAt, EditAt, Listings, Searches, Editors, Readers
<1>11. CASE t = "batch_mark"
  <2> DEFINE h == Handlers[t]
  <2>1. h = batchMarkMessages
    BY <1>11 DEF Handlers
  <2> HIDE DEF h
  <2>2. \A k \in 1..Len(h) :
          k = 1 \/ k = 2 \/ k = 3 \/ k = 4 \/ k = 5 \/ k = 6 \/ k = 7 \/ k = 8 \/ k = 9 \/ k = 10
    BY <2>1, Stages_batchMarkMessages
  <2>3. Layout(t)
    BY <1>11, <2>1, <2>2, Stages_batchMarkMessages DEF h, Layout, Base
  <2> QED
    BY <1>11, <2>1, <2>2, <2>3, Stages_batchMarkMessages
       DEF h, Places, SelectAt, EditAt, Listings, Searches, Editors, Readers
<1>12. CASE t = "add_contact"
  <2> DEFINE h == Handlers[t]
  <2>1. h = addContact
    BY <1>12 DEF Handlers
  <2> HIDE DEF h
  <2>2. \A k \in 1..Len(h) :
          k = 1 \/ k = 2 \/ k = 3 \/ k = 4 \/ k = 5 \/ k = 6 \/ k = 7 \/ k = 8 \/ k = 9 \/ k = 10 \/
          k = 11 \/ k = 12 \/ k = 13
    BY <2>1, Stages_addContact
  <2>3. Layout(t)
    BY <1>12, <2>1, <2>2, Stages_addContact DEF h, Layout, Base
  <2> QED
    BY <1>12, <2>1, <2>2, <2>3, Stages_addContact
       DEF h, Places, SelectAt, EditAt, Listings, Searches, Editors, Readers
<1>13. CASE t = "remove_contact"
  <2> DEFINE h == Handlers[t]
  <2>1. h = removeContact
    BY <1>13 DEF Handlers
  <2> HIDE DEF h
  <2>2. \A k \in 1..Len(h) :
          k = 1 \/ k = 2 \/ k = 3 \/ k = 4 \/ k = 5 \/ k = 6 \/ k = 7 \/ k = 8 \/ k = 9 \/ k = 10 \/
          k = 11 \/ k = 12 \/ k = 13
    BY <2>1, Stages_removeContact
  <2>3. Layout(t)
    BY <1>13, <2>1, <2>2, Stages_removeContact DEF h, Layout, Base
  <2> QED
    BY <1>13, <2>1, <2>2, <2>3, Stages_removeContact
       DEF h, Places, SelectAt, EditAt, Listings, Searches, Editors, Readers
<1>14. CASE t = "list"
  <2> DEFINE h == Handlers[t]
  <2>1. h = listCmd
    BY <1>14 DEF Handlers
  <2> HIDE DEF h
  <2>2. \A k \in 1..Len(h) :
          k = 1 \/ k = 2 \/ k = 3 \/ k = 4 \/ k = 5 \/ k = 6 \/ k = 7 \/ k = 8 \/ k = 9 \/ k = 10 \/
          k = 11 \/ k = 12
    BY <2>1, Stages_listCmd
  <2>3. Layout(t)
    BY <1>14, <2>1, <2>2, Stages_listCmd DEF h, Layout, Base
  <2> QED
    BY <1>14, <2>1, <2>2, <2>3, Stages_listCmd
       DEF h, Places, SelectAt, EditAt, Listings, Searches, Editors, Readers
<1>15. CASE t = "search"
  <2> DEFINE h == Handlers[t]
  <2>1. h = searchCmd
    BY <1>15 DEF Handlers
  <2> HIDE DEF h
  <2>2. \A k \in 1..Len(h) :
          k = 1 \/ k = 2 \/ k = 3 \/ k = 4 \/ k = 5 \/ k = 6 \/ k = 7 \/ k = 8 \/ k = 9 \/ k = 10 \/
          k = 11 \/ k = 12
    BY <2>1, Stages_searchCmd
  <2>3. Layout(t)
    BY <1>15, <2>1, <2>2, Stages_searchCmd DEF h, Layout, Base
  <2> QED
    BY <1>15, <2>1, <2>2, <2>3, Stages_searchCmd
       DEF h, Places, SelectAt, EditAt, Listings, Searches, Editors, Readers
<1>16. CASE t = "read"
  <2> DEFINE h == Handlers[t]
  <2>1. h = readCmd
    BY <1>16 DEF Handlers
  <2> HIDE DEF h
  <2>2. \A k \in 1..Len(h) :
          k = 1 \/ k = 2 \/ k = 3 \/ k = 4 \/ k = 5 \/ k = 6 \/ k = 7 \/ k = 8 \/ k = 9
    BY <2>1, Stages_readCmd
  <2>3. Layout(t)
    BY <1>16, <2>1, <2>2, Stages_readCmd DEF h, Layout, Base
  <2> QED
    BY <1>16, <2>1, <2>2, <2>3, Stages_readCmd
       DEF h, Places, SelectAt, EditAt, Listings, Searches, Editors, Readers
<1>17. CASE t = "move"
  <2> DEFINE h == Handlers[t]
  <2>1. h = moveCmd
    BY <1>17 DEF Handlers
  <2> HIDE DEF h
  <2>2. \A k \in 1..Len(h) :
          k = 1 \/ k = 2 \/ k = 3 \/ k = 4 \/ k = 5 \/ k = 6 \/ k = 7 \/ k = 8 \/ k = 9 \/ k = 10
    BY <2>1, Stages_moveCmd
  <2>3. Layout(t)
    BY <1>17, <2>1, <2>2, Stages_moveCmd DEF h, Layout, Base
  <2> QED
    BY <1>17, <2>1, <2>2, <2>3, Stages_moveCmd
       DEF h, Places, SelectAt, EditAt, Listings, Searches, Editors, Readers
<1>18. CASE t = "mark"
  <2> DEFINE h == Handlers[t]
  <2>1. h = markCmd
    BY <1>18 DEF Handlers
  <2> HIDE DEF h
  <2>2. \A k \in 1..Len(h) :
          k = 1 \/ k = 2 \/ k = 3 \/ k = 4 \/ k = 5 \/ k = 6 \/ k = 7 \/ k = 8 \/ k = 9 \/ k = 10
    BY <2>1, Stages_markCmd
  <2>3. Layout(t)
    BY <1>18, <2>1, <2>2, Stages_markCmd DEF h, Layout, Base
  <2> QED
    BY <1>18, <2>1, <2>2, <2>3, Stages_markCmd
       DEF h, Places, SelectAt, EditAt, Listings, Searches, Editors, Readers
<1>19. CASE t = "contact_add"
  <2> DEFINE h == Handlers[t]
  <2>1. h = contactAddCmd
    BY <1>19 DEF Handlers
  <2> HIDE DEF h
  <2>2. \A k \in 1..Len(h) :
          k = 1 \/ k = 2 \/ k = 3 \/ k = 4 \/ k = 5 \/ k = 6 \/ k = 7 \/ k = 8 \/ k = 9 \/ k = 10 \/
          k = 11 \/ k = 12
    BY <2>1, Stages_contactAddCmd
  <2>3. Layout(t)
    BY <1>19, <2>1, <2>2, Stages_contactAddCmd DEF h, Layout, Base
  <2> QED
    BY <1>19, <2>1, <2>2, <2>3, Stages_contactAddCmd
       DEF h, Places, SelectAt, EditAt, Listings, Searches, Editors, Readers
<1>20. CASE t = "contact_remove"
  <2> DEFINE h == Handlers[t]
  <2>1. h = contactRemoveCmd
    BY <1>20 DEF Handlers
  <2> HIDE DEF h
  <2>2. \A k \in 1..Len(h) :
          k = 1 \/ k = 2 \/ k = 3 \/ k = 4 \/ k = 5 \/ k = 6 \/ k = 7 \/ k = 8 \/ k = 9 \/ k = 10 \/
          k = 11 \/ k = 12
    BY <2>1, Stages_contactRemoveCmd
  <2>3. Layout(t)
    BY <1>20, <2>1, <2>2, Stages_contactRemoveCmd DEF h, Layout, Base
  <2> QED
    BY <1>20, <2>1, <2>2, <2>3, Stages_contactRemoveCmd
       DEF h, Places, SelectAt, EditAt, Listings, Searches, Editors, Readers
<1>21. CASE t = "identity_set"
  <2> DEFINE h == Handlers[t]
  <2>1. h = identitySetCmd
    BY <1>21 DEF Handlers
  <2> HIDE DEF h
  <2>2. \A k \in 1..Len(h) :
          k = 1 \/ k = 2
    BY <2>1, Stages_identitySetCmd
  <2>3. Layout(t)
    BY <1>21, <2>1, <2>2, Stages_identitySetCmd DEF h, Layout, Base
  <2> QED
    BY <1>21, <2>1, <2>2, <2>3, Stages_identitySetCmd
       DEF h, Places, SelectAt, EditAt, Listings, Searches, Editors, Readers
<1> QED
  BY <1>1, <1>2, <1>3, <1>4, <1>5, <1>6, <1>7, <1>8, <1>9, <1>10, <1>11, <1>12, <1>13, <1>14, <1>15,
     <1>16, <1>17, <1>18, <1>19, <1>20, <1>21 DEF Handlers
-----------------------------------------------------------------------------
(* What the actions do to the calls *)

Same(c, F) == \A f \in Fields \ F : call'[c][f] = call[c][f]

\* pc goes on by n, to the end if there are no more stages.
Advances(c, n) ==
    /\ call'[c].pc = IF call[c].pc + n > Len(Handlers[call[c].tool]) THEN 0 ELSE call[c].pc + n
    /\ call'[c].ok = (call[c].pc + n > Len(Handlers[call[c].tool]))

\* A stage of c is over, n stages on, and has written the fields F.
Moves(c, n, F) ==
    /\ Shape'
    /\ Advances(c, n)
    /\ Same(c, F \cup {"pc", "ok"})
    /\ \A d \in Callers \ {c} : call'[d] = call[d]

\* The call of c is over without a result.
Stops(c) ==
    /\ Shape'
    /\ call'[c] = Idle \/ call'[c] = [Idle EXCEPT !.tool = call[c].tool]
    /\ \A d \in Callers \ {c} : call'[d] = call[d]

Starts(c) ==
    /\ Shape'
    /\ call[c] = Idle
    /\ \E t \in DOMAIN Handlers : call'[c] = [Idle EXCEPT !.tool = t, !.pc = 1]
    /\ \A d \in Callers \ {c} : call'[d] = call[d]

Steady(c) == Same(c, {"fd"})

LEMMA IdleShape ==
  ASSUME NEW t, NEW k
  PROVE  /\ DOMAIN Idle = Fields
         /\ DOMAIN [Idle EXCEPT !.tool = t] = Fields
         /\ DOMAIN [Idle EXCEPT !.tool = t, !.pc = k] = Fields
         /\ \A f \in Fields \ {"tool"} : [Idle EXCEPT !.tool = t][f] = Idle[f]
         /\ \A f \in Fields \ {"tool", "pc"} : [Idle EXCEPT !.tool = t, !.pc = k][f] = Idle[f]
         /\ [Idle EXCEPT !.tool = t].tool = t
         /\ [Idle EXCEPT !.tool = t, !.pc = k].tool = t
         /\ [Idle EXCEPT !.tool = t, !.pc = k].pc = k
<1>1. DOMAIN Idle = Fields
  BY DEF Idle, Fields
<1> HIDE DEF Idle
<1> QED
  BY <1>1 DEF Fields

LEMMA SkipMoves ==
  ASSUME Shape, NEW c \in Callers, NEW n, NEW r, NEW F, DOMAIN r = Fields,
         \A f \in Fields \ F : r[f] = call[c][f], Skip(c, n, r)
  PROVE  Moves(c, n, F) /\ \A f \in Fields \ {"pc", "ok"} : call'[c][f] = r[f]
<1> DEFINE a == After(c, n, r)
<1>1. /\ DOMAIN a = Fields
      /\ \A f \in Fields \ {"pc", "ok"} : a[f] = r[f]
      /\ a.pc = IF call[c].pc + n > Len(Handlers[call[c].tool]) THEN 0 ELSE call[c].pc + n
      /\ a.ok = (call[c].pc + n > Len(Handlers[call[c].tool]))
  BY DEF After, Fields
<1>2. call' = [call EXCEPT ![c] = a]
  BY DEF Skip
<1> HIDE DEF a
<1>3. call'[c] = a /\ \A d \in Callers \ {c} : call'[d] = call[d]
  BY <1>2 DEF Shape
<1>4. Shape'
  BY <1>1, <1>2, <1>3 DEF Shape
<1> QED
  BY <1>1, <1>3, <1>4 DEF Moves, Advances, Same

LEMMA GoPlain ==
  ASSUME Shape, NEW c \in Callers, Go(c, call[c])
  PROVE  Moves(c, 1, {})
<1>1. DOMAIN call[c] = Fields
  BY DEF Shape
<1> QED
  BY <1>1, SkipMoves DEF Go

LEMMA FailStops ==
  ASSUME Shape, NEW c \in Callers, Fail(c)
  PROVE  Stops(c)
<1> DEFINE r == [Idle EXCEPT !.tool = call[c].tool]
<1>1. DOMAIN r = Fields
  BY IdleShape
<1>2. call' = [call EXCEPT ![c] = r]
  BY DEF Fail
<1> HIDE DEF r
<1>3. call'[c] = r /\ \A d \in Callers \ {c} : call'[d] = call[d]
  BY <1>2 DEF Shape
<1>4. Shape'
  BY <1>1, <1>2, <1>3 DEF Shape
<1> QED
  BY <1>3, <1>4 DEF Stops, r

Who(c) == IF c \in Tools /\ override # None THEN override ELSE Resolve(names)

LEMMA IdentityMoves ==
  ASSUME Shape, NEW c \in Callers, ResolveIdentity(c)
  PROVE  /\ At(c, "identity")
         /\ \/ Moves(c, 1, {"id"}) /\ Who(c) # Broken /\ call'[c].id = Who(c)
            \/ c \in Tools /\ Stops(c)
            \/ c \notin Tools /\ Moves(c, 7, {"id"}) /\ call'[c].id = Root
<1>0. /\ At(c, "identity")
      /\ IF Who(c) # Broken THEN Go(c, [call[c] EXCEPT !.id = Who(c)])
         ELSE IF c \in Tools THEN Fail(c) ELSE Skip(c, 7, [call[c] EXCEPT !.id = Root])
  BY DEF ResolveIdentity, Who
<1> DEFINE r(x) == [call[c] EXCEPT !.id = x]
<1>1. \A x : DOMAIN r(x) = Fields /\ r(x).id = x /\ \A f \in Fields \ {"id"} : r(x)[f] = call[c][f]
  BY DEF Shape, Fields
<1>2. CASE Who(c) # Broken
  <2>1. Skip(c, 1, r(Who(c)))
    BY <1>0, <1>2 DEF Go
  <2> DEFINE v == r(Who(c))
  <2>2. /\ DOMAIN v = Fields /\ v.id = Who(c) /\ \A f \in Fields \ {"id"} : v[f] = call[c][f]
        /\ Skip(c, 1, v)
    BY <1>1, <2>1
  <2> HIDE DEF v
  <2>3. Moves(c, 1, {"id"}) /\ \A f \in Fields \ {"pc", "ok"} : call'[c][f] = v[f]
    BY <2>2, SkipMoves
  <2>4. call'[c].id = Who(c)
    BY <2>2, <2>3 DEF Fields
  <2> QED
    BY <1>0, <1>2, <2>3, <2>4
<1>3. CASE Who(c) = Broken /\ c \notin Tools
  <2>1. Skip(c, 7, r(Root))
    BY <1>0, <1>3
  <2> HIDE DEF r
  <2> QED
    BY <1>0, <1>1, <1>3, <2>1, SkipMoves DEF Fields
<1>4. CASE Who(c) = Broken /\ c \in Tools
  BY <1>0, <1>4, FailStops
<1> QED
  BY <1>2, <1>3, <1>4

LEMMA StatMoves ==
  ASSUME Shape, NEW c \in Callers, Stat(c)
  PROVE  /\ At(c, "stat")
         /\ \/ /\ Moves(c, 1, {"buf"}) /\ call'[c].buf = files[Root][call[c].file]
               /\ copyNeeded(Mine(c)[call[c].file].st, files[Root][call[c].file].st)
            \/ Moves(c, 3, {"file"}) /\ call'[c].file = "contacts.json"
<1> DEFINE g == call[c].file
<1>0. /\ At(c, "stat")
      /\ IF copyNeeded(Mine(c)[g].st, files[Root][g].st)
           THEN Go(c, [call[c] EXCEPT !.buf = files[Root][g]])
           ELSE Skip(c, 3, [call[c] EXCEPT !.file = "contacts.json"])
  BY DEF Stat
<1>1. CASE copyNeeded(Mine(c)[g].st, files[Root][g].st)
  <2> DEFINE v == [call[c] EXCEPT !.buf = files[Root][g]]
  <2>1a. Skip(c, 1, v)
    BY <1>0, <1>1 DEF Go
  <2>1b. DOMAIN v = Fields /\ \A f \in Fields \ {"buf"} : v[f] = call[c][f]
    BY DEF Shape, Fields
  <2>1e. /\ v.buf = files[Root][g]
    BY DEF Shape, Fields
  <2> HIDE DEF v
  <2>1c. Moves(c, 1, {"buf"}) /\ \A f \in Fields \ {"pc", "ok"} : call'[c][f] = v[f]
    BY <2>1a, <2>1b, SkipMoves
  <2>1d. /\ call'[c].buf = files[Root][g]
    BY <2>1e, <2>1c DEF Fields
  <2> QED
    BY <1>0, <1>1, <2>1c, <2>1d
<1>2. CASE ~copyNeeded(Mine(c)[g].st, files[Root][g].st)
  <2>0. Skip(c, 3, [call[c] EXCEPT !.file = "contacts.json"])
    BY <1>0, <1>2
  <2> DEFINE v == [call[c] EXCEPT !.file = "contacts.json"]
  <2>1a. Skip(c, 3, v)
    BY <2>0 DEF Go
  <2>1b. DOMAIN v = Fields /\ \A f \in Fields \ {"file"} : v[f] = call[c][f]
    BY DEF Shape, Fields
  <2>1e. /\ v.file = "contacts.json"
    BY DEF Shape, Fields
  <2> HIDE DEF v
  <2>1c. Moves(c, 3, {"file"}) /\ \A f \in Fields \ {"pc", "ok"} : call'[c][f] = v[f]
    BY <2>1a, <2>1b, SkipMoves
  <2>1d. /\ call'[c].file = "contacts.json"
    BY <2>1e, <2>1c DEF Fields
  <2> QED
    BY <1>0, <2>1c, <2>1d
<1> QED
  BY <1>1, <1>2

LEMMA CreateMoves ==
  ASSUME Shape, NEW c \in Callers, Create(c)
  PROVE  /\ At(c, "create")
         /\ \/ /\ Moves(c, 1, {"fd"}) /\ call'[c].fd = "file"
               /\ Mine(c)[call[c].file] = Absent
               /\ files' = [files EXCEPT ![call[c].id][call[c].file] = Torn]
            \/ c \in Tools /\ Stops(c) /\ files' = files
            \/ /\ c \notin Tools /\ Moves(c, Unmigrated(c), {"id", "buf"}) /\ files' = files
               /\ call'[c].id = Root /\ call'[c].buf = Absent
<1>0. /\ At(c, "create")
      /\ IF Mine(c)[call[c].file] = Absent
           THEN /\ files' = [files EXCEPT ![call[c].id][call[c].file] = Torn]
                /\ Go(c, [call[c] EXCEPT !.fd = "file"])
           ELSE /\ files' = files
                /\ IF c \in Tools THEN Fail(c)
                   ELSE Skip(c, Unmigrated(c), [call[c] EXCEPT !.id = Root, !.buf = Absent])
  BY DEF Create
<1>1. CASE Mine(c)[call[c].file] = Absent
  <2> DEFINE v == [call[c] EXCEPT !.fd = "file"]
  <2>1a. Skip(c, 1, v)
    BY <1>0, <1>1 DEF Go
  <2>1b. DOMAIN v = Fields /\ \A f \in Fields \ {"fd"} : v[f] = call[c][f]
    BY DEF Shape, Fields
  <2>1e. /\ v.fd = "file"
    BY DEF Shape, Fields
  <2> HIDE DEF v
  <2>1c. Moves(c, 1, {"fd"}) /\ \A f \in Fields \ {"pc", "ok"} : call'[c][f] = v[f]
    BY <2>1a, <2>1b, SkipMoves
  <2>1d. /\ call'[c].fd = "file"
    BY <2>1e, <2>1c DEF Fields
  <2> QED
    BY <1>0, <1>1, <2>1c, <2>1d
<1>2. CASE Mine(c)[call[c].file] # Absent /\ c \in Tools
  BY <1>0, <1>2, FailStops
<1>3. CASE Mine(c)[call[c].file] # Absent /\ c \notin Tools
  <2>0. Skip(c, Unmigrated(c), [call[c] EXCEPT !.id = Root, !.buf = Absent])
    BY <1>0, <1>3
  <2> DEFINE v == [call[c] EXCEPT !.id = Root, !.buf = Absent]
  <2>1a. Skip(c, Unmigrated(c), v)
    BY <2>0 DEF Go
  <2>1b. DOMAIN v = Fields /\ \A f \in Fields \ {"id", "buf"} : v[f] = call[c][f]
    BY DEF Shape, Fields
  <2>1e. /\ v.id = Root /\ v.buf = Absent
    BY DEF Shape, Fields
  <2> HIDE DEF v
  <2>1c. Moves(c, Unmigrated(c), {"id", "buf"}) /\ \A f \in Fields \ {"pc", "ok"} : call'[c][f] = v[f]
    BY <2>1a, <2>1b, SkipMoves
  <2>1d. /\ call'[c].id = Root /\ call'[c].buf = Absent
    BY <2>1e, <2>1c DEF Fields
  <2> QED
    BY <1>0, <1>3, <2>1c, <2>1d
<1> QED
  BY <1>1, <1>2, <1>3

LEMMA FillMoves ==
  ASSUME Shape, NEW c \in Callers, Fill(c)
  PROVE  /\ At(c, "fill") /\ Moves(c, 1, {"fd", "buf", "file"}) /\ call'[c].fd = None
         /\ call'[c].buf = Absent /\ call'[c].file = "contacts.json"
<1> DEFINE v == [call[c] EXCEPT !.fd = None, !.buf = Absent, !.file = "contacts.json"]
<1>1a. Skip(c, 1, v)
  BY DEF Fill, Go
<1>1b. DOMAIN v = Fields /\ \A f \in Fields \ {"fd", "buf", "file"} : v[f] = call[c][f]
  BY DEF Shape, Fields
<1>1e. /\ v.fd = None /\ v.buf = Absent /\ v.file = "contacts.json"
  BY DEF Shape, Fields
<1> HIDE DEF v
<1>1c. Moves(c, 1, {"fd", "buf", "file"}) /\ \A f \in Fields \ {"pc", "ok"} : call'[c][f] = v[f]
  BY <1>1a, <1>1b, SkipMoves
<1>1d. /\ call'[c].fd = None /\ call'[c].buf = Absent /\ call'[c].file = "contacts.json"
  BY <1>1e, <1>1c DEF Fields
<1> QED
  BY <1>1c, <1>1d DEF Fill

LEMMA FillFailsMoves ==
  ASSUME Shape, NEW c \in Callers, FillFails(c)
  PROVE  /\ At(c, "fill")
         /\ \/ c \in Tools /\ Stops(c)
            \/ /\ c \notin Tools /\ Moves(c, Unmigrated(c) - 1, {"id", "buf", "fd"})
               /\ call'[c].id = Root /\ call'[c].buf = Absent /\ call'[c].fd = None
<1>1. CASE c \in Tools
  BY <1>1, FailStops DEF FillFails
<1>2. CASE c \notin Tools
  <2> DEFINE v == [call[c] EXCEPT !.id = Root, !.buf = Absent, !.fd = None]
  <2>1a. Skip(c, Unmigrated(c) - 1, v)
    BY <1>2 DEF FillFails
  <2>1b. DOMAIN v = Fields /\ \A f \in Fields \ {"id", "buf", "fd"} : v[f] = call[c][f]
    BY DEF Shape, Fields
  <2>1e. /\ v.id = Root /\ v.buf = Absent /\ v.fd = None
    BY DEF Shape, Fields
  <2> HIDE DEF v
  <2>1c. Moves(c, Unmigrated(c) - 1, {"id", "buf", "fd"}) /\ \A f \in Fields \ {"pc", "ok"} : call'[c][f] = v[f]
    BY <2>1a, <2>1b, SkipMoves
  <2>1d. /\ call'[c].id = Root /\ call'[c].buf = Absent /\ call'[c].fd = None
    BY <2>1e, <2>1c DEF Fields
  <2> QED
    BY <1>2, <2>1c, <2>1d DEF FillFails
<1> QED
  BY <1>1, <1>2

LEMMA PlainMoves ==
  ASSUME Shape, NEW c \in Callers,
         \/ LoadConfig(c) \/ TruncateConfig(c) \/ (\E h \in Handles : NameIdentity(c, h))
         \/ Gate(c) \/ (\E k \in PartNumbers : Extract(c, k))
  PROVE  /\ \E s \in {"config", "truncate", "name", "gate", "extract"} : At(c, s)
         /\ Moves(c, 1, {}) \/ Stops(c)
<1>1. CASE LoadConfig(c)
  BY <1>1, GoPlain, FailStops DEF LoadConfig
<1>2. CASE TruncateConfig(c)
  BY <1>2, GoPlain, FailStops DEF TruncateConfig
<1>3. CASE \E h \in Handles : NameIdentity(c, h)
  BY <1>3, GoPlain, FailStops DEF NameIdentity
<1>4. CASE Gate(c)
  BY <1>4, GoPlain, FailStops DEF Gate
<1>5. CASE \E k \in PartNumbers : Extract(c, k)
  BY <1>5, GoPlain, FailStops DEF Extract
<1> QED
  BY <1>1, <1>2, <1>3, <1>4, <1>5

LEMMA LoadMoves ==
  ASSUME Shape, NEW c \in Callers, Load(c)
  PROVE  /\ At(c, "contacts")
         /\ \/ Stops(c)
            \/ /\ Moves(c, 1, {"book"}) /\ call'[c].book = Mine(c)["contacts.json"].book
               /\ Mine(c)["contacts.json"].st # "torn"
<1> DEFINE b == Mine(c)["contacts.json"].book
<1>1. CASE Mine(c)["contacts.json"].st = "torn"
  BY <1>1, FailStops DEF Load
<1>2. CASE Mine(c)["contacts.json"].st # "torn"
  <2>0. Skip(c, 1, [call[c] EXCEPT !.book = b])
    BY <1>2 DEF Load, Go
  <2> DEFINE v == [call[c] EXCEPT !.book = b]
  <2>1a. Skip(c, 1, v)
    BY <2>0 DEF Go
  <2>1b. DOMAIN v = Fields /\ \A f \in Fields \ {"book"} : v[f] = call[c][f]
    BY DEF Shape, Fields
  <2>1e. /\ v.book = b
    BY DEF Shape, Fields
  <2> HIDE DEF v
  <2>1c. Moves(c, 1, {"book"}) /\ \A f \in Fields \ {"pc", "ok"} : call'[c][f] = v[f]
    BY <2>1a, <2>1b, SkipMoves
  <2>1d. /\ call'[c].book = b
    BY <2>1e, <2>1c DEF Fields
  <2> QED
    BY <1>2, <2>1c, <2>1d DEF Load
<1> QED
  BY <1>1, <1>2


\* SELECT and its three ways on.
LEMMA SelectMoves ==
  ASSUME Shape, NEW c \in Callers, NEW q, NEW p, Select(c, q, p)
  PROVE  /\ At(c, "select")
         /\ call'[c].q = q /\ call'[c].page = p /\ call'[c].view = inbox
         /\ call'[c].at = inbox /\ call'[c].unseen = Range(inbox) \ seen
         /\ \/ Moves(c, 4, {"q", "page", "view", "at", "unseen"}) /\ Len(inbox) = 0
            \/ /\ Moves(c, 3, {"q", "page", "view", "at", "unseen", "sel", "total"})
               /\ Len(inbox) > 0 /\ ~HasCriteria(q) /\ p.offset = 0
               /\ call'[c].sel = Recent(inbox, Len(inbox), p.count) /\ call'[c].total = Len(inbox)
            \/ Moves(c, 1, {"q", "page", "view", "at", "unseen"})
<1> DEFINE n == Len(inbox)
           asked == Snapshot([call[c] EXCEPT !.q = q, !.page = p, !.view = inbox])
<1>0. /\ At(c, "select")
      /\ \/ n = 0 /\ Skip(c, 4, asked)
         \/ /\ n > 0 /\ ~HasCriteria(q) /\ p.offset = 0
            /\ Skip(c, 3, [asked EXCEPT !.sel = Recent(inbox, n, p.count), !.total = n])
         \/ Skip(c, 1, asked)
  BY DEF Select, Go
<1>1. CASE n = 0 /\ Skip(c, 4, asked)
  <2> DEFINE v == asked
  <2>1a. Skip(c, 4, v)
    BY <1>1 DEF Go
  <2>1b. /\ DOMAIN v = Fields
         /\ \A f \in Fields \ {"q", "page", "view", "at", "unseen"} : v[f] = call[c][f]
    BY DEF Shape, Fields, Snapshot
  <2>1e. /\ v.q = q /\ v.page = p /\ v.view = inbox /\ v.at = inbox
         /\ v.unseen = Range(inbox) \ seen
    BY DEF Shape, Fields, Snapshot
  <2> HIDE DEF v
  <2>1c. Moves(c, 4, {"q", "page", "view", "at", "unseen"})
         /\ \A f \in Fields \ {"pc", "ok"} : call'[c][f] = v[f]
    BY <2>1a, <2>1b, SkipMoves
  <2>1d. /\ call'[c].q = q /\ call'[c].page = p /\ call'[c].view = inbox /\ call'[c].at = inbox
         /\ call'[c].unseen = Range(inbox) \ seen
    BY <2>1e, <2>1c DEF Fields
  <2> QED
    BY <1>0, <1>1, <2>1c, <2>1d
<1>2. CASE /\ n > 0 /\ ~HasCriteria(q) /\ p.offset = 0
           /\ Skip(c, 3, [asked EXCEPT !.sel = Recent(inbox, n, p.count), !.total = n])
  <2> DEFINE v == [asked EXCEPT !.sel = Recent(inbox, n, p.count), !.total = n]
  <2>1a. Skip(c, 3, v)
    BY <1>2 DEF Go
  <2>1b. /\ DOMAIN v = Fields
         /\ \A f \in Fields \ {"q", "page", "view", "at", "unseen", "sel", "total"} : v[f] = call[c][f]
    BY DEF Shape, Fields, Snapshot
  <2>1e. /\ v.q = q /\ v.page = p /\ v.view = inbox /\ v.at = inbox
         /\ v.unseen = Range(inbox) \ seen /\ v.sel = Recent(inbox, n, p.count) /\ v.total = n
    BY DEF Shape, Fields, Snapshot
  <2> HIDE DEF v
  <2>1c. Moves(c, 3, {"q", "page", "view", "at", "unseen", "sel", "total"})
         /\ \A f \in Fields \ {"pc", "ok"} : call'[c][f] = v[f]
    BY <2>1a, <2>1b, SkipMoves
  <2>1d. /\ call'[c].q = q /\ call'[c].page = p /\ call'[c].view = inbox /\ call'[c].at = inbox
         /\ call'[c].unseen = Range(inbox) \ seen /\ call'[c].sel = Recent(inbox, n, p.count)
         /\ call'[c].total = n
    BY <2>1e, <2>1c DEF Fields
  <2> QED
    BY <1>0, <1>2, <2>1c, <2>1d
<1>3. CASE Skip(c, 1, asked)
  <2> DEFINE v == asked
  <2>1a. Skip(c, 1, v)
    BY <1>3 DEF Go
  <2>1b. /\ DOMAIN v = Fields
         /\ \A f \in Fields \ {"q", "page", "view", "at", "unseen"} : v[f] = call[c][f]
    BY DEF Shape, Fields, Snapshot
  <2>1e. /\ v.q = q /\ v.page = p /\ v.view = inbox /\ v.at = inbox
         /\ v.unseen = Range(inbox) \ seen
    BY DEF Shape, Fields, Snapshot
  <2> HIDE DEF v
  <2>1c. Moves(c, 1, {"q", "page", "view", "at", "unseen"})
         /\ \A f \in Fields \ {"pc", "ok"} : call'[c][f] = v[f]
    BY <2>1a, <2>1b, SkipMoves
  <2>1d. /\ call'[c].q = q /\ call'[c].page = p /\ call'[c].view = inbox /\ call'[c].at = inbox
         /\ call'[c].unseen = Range(inbox) \ seen
    BY <2>1e, <2>1c DEF Fields
  <2> QED
    BY <1>0, <2>1c, <2>1d
<1> QED
  BY <1>0, <1>1, <1>2, <1>3

LEMMA FoundMoves ==
  ASSUME Shape, NEW c \in Callers, NEW k, NEW q, Found(c, k, q)
  PROVE  LET uids == UIDSearch(q, inbox, seen)
             sel == window(uids, call[c].page.count, call[c].page.offset)
         IN  /\ Moves(c, IF sel = <<>> THEN k + 1 ELSE k, {"q", "sel", "total", "at", "unseen"})
             /\ call'[c].q = q /\ call'[c].sel = sel /\ call'[c].total = Len(uids)
             /\ call'[c].at = inbox /\ call'[c].unseen = Range(inbox) \ seen
<1> DEFINE uids == UIDSearch(q, inbox, seen)
           sel == window(uids, call[c].page.count, call[c].page.offset)
           n == IF sel = <<>> THEN k + 1 ELSE k
<1>0. Skip(c, n, Snapshot([call[c] EXCEPT !.q = q, !.sel = sel, !.total = Len(uids)]))
  BY DEF Found
<1> HIDE DEF uids, sel, n
<1> DEFINE v == Snapshot([call[c] EXCEPT !.q = q, !.sel = sel, !.total = Len(uids)])
<1>1a. Skip(c, n, v)
  BY <1>0 DEF Go
<1>1b. /\ DOMAIN v = Fields
       /\ \A f \in Fields \ {"q", "sel", "total", "at", "unseen"} : v[f] = call[c][f]
  BY DEF Shape, Fields, Snapshot
<1>1e. /\ v.q = q
       /\ v.sel = sel /\ v.total = Len(uids) /\ v.at = inbox /\ v.unseen = Range(inbox) \ seen
  BY DEF Shape, Fields, Snapshot
<1> HIDE DEF v
<1>1c. Moves(c, n, {"q", "sel", "total", "at", "unseen"})
       /\ \A f \in Fields \ {"pc", "ok"} : call'[c][f] = v[f]
  BY <1>1a, <1>1b, SkipMoves
<1>1d. /\ call'[c].q = q /\ call'[c].sel = sel /\ call'[c].total = Len(uids)
       /\ call'[c].at = inbox /\ call'[c].unseen = Range(inbox) \ seen
  BY <1>1e, <1>1c DEF Fields
<1> QED
  BY <1>1c, <1>1d DEF uids, sel, n

LEMMA FallbackMoves ==
  ASSUME Shape, NEW c \in Callers, searchFallback(c)
  PROVE  /\ At(c, "search")
         /\ \/ Moves(c, 1, {})
            \/ Stops(c)
            \/ /\ Moves(c, 2, {"sel", "total", "degraded"}) /\ ~call[c].q.unread
               /\ \E v \in {call[c].view, Only(call[c].view, Range(inbox))} :
                    call'[c].sel = Recent(v, Len(call[c].view), call[c].page.count)
               /\ call'[c].total = Len(call[c].view) /\ call'[c].degraded = TRUE
<1> DEFINE view == call[c].view
           rec(x) == Recent(x, Len(view), call[c].page.count)
<1>1. CASE call[c].q.unread
  BY <1>1, GoPlain, FailStops DEF searchFallback
<1>2. CASE ~call[c].q.unread
  <2>1. PICK x \in {view, Only(view, Range(inbox))} :
          Skip(c, 2, [call[c] EXCEPT !.sel = rec(x), !.total = Len(view), !.degraded = TRUE])
    BY <1>2 DEF searchFallback
  <2> DEFINE sel == rec(x)
  <2>2. Skip(c, 2, [call[c] EXCEPT !.sel = sel, !.total = Len(view), !.degraded = TRUE])
    BY <2>1
  <2> HIDE DEF sel
  <2> DEFINE v == [call[c] EXCEPT !.sel = sel, !.total = Len(view), !.degraded = TRUE]
  <2>3a. Skip(c, 2, v)
    BY <2>2 DEF Go
  <2>3b. DOMAIN v = Fields /\ \A f \in Fields \ {"sel", "total", "degraded"} : v[f] = call[c][f]
    BY DEF Shape, Fields
  <2>3e. /\ v.sel = sel
         /\ v.total = Len(view) /\ v.degraded = TRUE
    BY DEF Shape, Fields
  <2> HIDE DEF v
  <2>3c. Moves(c, 2, {"sel", "total", "degraded"})
         /\ \A f \in Fields \ {"pc", "ok"} : call'[c][f] = v[f]
    BY <2>3a, <2>3b, SkipMoves
  <2>3d. /\ call'[c].sel = sel /\ call'[c].total = Len(view) /\ call'[c].degraded = TRUE
    BY <2>3e, <2>3c DEF Fields
  <2> QED
    BY <1>2, <2>1, <2>3c, <2>3d DEF sel, searchFallback
<1> QED
  BY <1>1, <1>2

LEMMA FetchMoves ==
  ASSUME Shape, NEW c \in Callers, Fetch(c)
  PROVE  /\ At(c, "fetch")
         /\ Moves(c, 1, {"rows", "sel", "view", "check", "trust"})
         /\ call'[c].rows = Only(call[c].sel, Range(inbox))
         /\ call'[c].sel = <<>> /\ call'[c].view = <<>>
         /\ call'[c].trust = [i \in DOMAIN call'[c].rows |-> ClassifyTrust(Mail[call'[c].rows[i]].top)]
<1> DEFINE rows == Only(call[c].sel, Range(inbox))
           check == [i \in DOMAIN rows |-> HasSig(Mail[rows[i]].top)]
           trust == [i \in DOMAIN rows |-> ClassifyTrust(Mail[rows[i]].top)]
<1>0. /\ At(c, "fetch")
      /\ Skip(c, 1, [call[c] EXCEPT !.rows = rows, !.sel = <<>>, !.view = <<>>,
                                    !.check = check, !.trust = trust])
  BY DEF Fetch, Go
<1> HIDE DEF check, trust, rows
<1> DEFINE v == [call[c] EXCEPT !.rows = rows, !.sel = <<>>, !.view = <<>>,
                              !.check = check, !.trust = trust]
<1>1a. Skip(c, 1, v)
  BY <1>0 DEF Go
<1>1b. /\ DOMAIN v = Fields
       /\ \A f \in Fields \ {"rows", "sel", "view", "check", "trust"} : v[f] = call[c][f]
  BY DEF Shape, Fields
<1>1e. /\ v.rows = rows /\ v.sel = <<>> /\ v.view = <<>> /\ v.check = check /\ v.trust = trust
  BY DEF Shape, Fields
<1> HIDE DEF v
<1>1c. Moves(c, 1, {"rows", "sel", "view", "check", "trust"})
       /\ \A f \in Fields \ {"pc", "ok"} : call'[c][f] = v[f]
  BY <1>1a, <1>1b, SkipMoves
<1>1d. /\ call'[c].rows = rows /\ call'[c].sel = <<>> /\ call'[c].view = <<>>
       /\ call'[c].check = check /\ call'[c].trust = trust
  BY <1>1e, <1>1c DEF Fields
<1> QED
  BY <1>0, <1>1c, <1>1d DEF rows, trust

LEMMA MessageMoves ==
  ASSUME Shape, NEW c \in Callers, NEW u, FetchMessage(c, u)
  PROVE  /\ At(c, "message") /\ u \in Range(inbox)
         /\ Moves(c, 1, {"rows", "check", "trust"})
         /\ call'[c].rows = <<u>>
         /\ \E e \in {Mail[u].top, Mail[u].inner} : call'[c].trust = <<ClassifyTrust(e)>>
<1>0. PICK decrypts \in BOOLEAN :
        /\ At(c, "message") /\ u \in Range(inbox)
        /\ Go(c, [call[c] EXCEPT !.rows = <<u>>, !.check = <<HasSig(Plaintext(Mail[u], decrypts))>>,
                                 !.trust = <<ClassifyTrust(Plaintext(Mail[u], decrypts))>>])
  BY DEF FetchMessage
<1> DEFINE e == Plaintext(Mail[u], decrypts)
           rows == <<u>>
           check == <<HasSig(e)>>
           trust == <<ClassifyTrust(e)>>
<1>2. Skip(c, 1, [call[c] EXCEPT !.rows = rows, !.check = check, !.trust = trust])
  BY <1>0 DEF Go
<1>3. e \in {Mail[u].top, Mail[u].inner}
  BY DEF Plaintext
<1> HIDE DEF e, rows, check, trust
<1> DEFINE v == [call[c] EXCEPT !.rows = rows, !.check = check, !.trust = trust]
<1>1a. Skip(c, 1, v)
  BY <1>2 DEF Go
<1>1b. DOMAIN v = Fields /\ \A f \in Fields \ {"rows", "check", "trust"} : v[f] = call[c][f]
  BY DEF Shape, Fields
<1>1e. /\ v.rows = rows /\ v.check = check /\ v.trust = trust
  BY DEF Shape, Fields
<1> HIDE DEF v
<1>1c. Moves(c, 1, {"rows", "check", "trust"})
       /\ \A f \in Fields \ {"pc", "ok"} : call'[c][f] = v[f]
  BY <1>1a, <1>1b, SkipMoves
<1>1d. /\ call'[c].rows = rows /\ call'[c].check = check /\ call'[c].trust = trust
  BY <1>1e, <1>1c DEF Fields
<1> QED
  BY <1>0, <1>1c, <1>1d, <1>3 DEF rows, trust

LEMMA RawMoves ==
  ASSUME Shape, NEW c \in Callers, NEW u, FetchRaw(c, u)
  PROVE  /\ At(c, "raw") /\ u \in Range(inbox)
         /\ Moves(c, 1, {"rows", "trust"})
         /\ call'[c].rows = <<u>>
         /\ \E level \in {ClassifyTrust(Mail[u].top), "unverified"} : call'[c].trust = <<level>>
<1> DEFINE level == IF call[c].tool = "check_trust" THEN ClassifyTrust(Mail[u].top) ELSE "unverified"
           rows == <<u>>
           trust == <<level>>
<1>0. /\ At(c, "raw") /\ u \in Range(inbox)
      /\ Skip(c, 1, [call[c] EXCEPT !.rows = rows, !.trust = trust])
  BY DEF FetchRaw, Go
<1>3. level \in {ClassifyTrust(Mail[u].top), "unverified"}
  OBVIOUS
<1> HIDE DEF level, rows, trust
<1> DEFINE v == [call[c] EXCEPT !.rows = rows, !.trust = trust]
<1>1a. Skip(c, 1, v)
  BY <1>0 DEF Go
<1>1b. DOMAIN v = Fields /\ \A f \in Fields \ {"rows", "trust"} : v[f] = call[c][f]
  BY DEF Shape, Fields
<1>1e. /\ v.rows = rows /\ v.trust = trust
  BY DEF Shape, Fields
<1> HIDE DEF v
<1>1c. Moves(c, 1, {"rows", "trust"})
       /\ \A f \in Fields \ {"pc", "ok"} : call'[c][f] = v[f]
  BY <1>1a, <1>1b, SkipMoves
<1>1d. /\ call'[c].rows = rows /\ call'[c].trust = trust
  BY <1>1e, <1>1c DEF Fields
<1> QED
  BY <1>0, <1>1c, <1>1d, <1>3 DEF rows, trust

LEMMA SignaturesMoves ==
  ASSUME Shape, NEW c \in Callers, VerifySignatures(c)
  PROVE  /\ At(c, "signatures")
         /\ Moves(c, 1, {"check", "trust"})
         /\ \E done, fit \in SUBSET DOMAIN call[c].rows :
              call'[c].trust = [i \in DOMAIN call[c].rows |->
                IF i \in done THEN Verify(Mail[call[c].rows[i]].top, i \in fit) ELSE call[c].trust[i]]
<1> DEFINE rows == call[c].rows
           can == {i \in DOMAIN rows : call[c].check[i] /\ rows[i] \in Range(inbox)}
           levels(done, fit) == [i \in DOMAIN rows |->
                IF i \in done THEN Verify(Mail[rows[i]].top, i \in fit) ELSE call[c].trust[i]]
<1>0. PICK done \in SUBSET can, fit \in SUBSET can :
        Skip(c, 1, [call[c] EXCEPT !.check = <<>>, !.trust = levels(done, fit)])
  BY DEF VerifySignatures, Go
<1> DEFINE trust == levels(done, fit)
<1>2. Skip(c, 1, [call[c] EXCEPT !.check = <<>>, !.trust = trust])
  BY <1>0
<1> HIDE DEF trust
<1> DEFINE v == [call[c] EXCEPT !.check = <<>>, !.trust = trust]
<1>1a. Skip(c, 1, v)
  BY <1>2 DEF Go
<1>1b. DOMAIN v = Fields /\ \A f \in Fields \ {"check", "trust"} : v[f] = call[c][f]
  BY DEF Shape, Fields
<1>1e. /\ v.check = <<>> /\ v.trust = trust
  BY DEF Shape, Fields
<1> HIDE DEF v
<1>1c. Moves(c, 1, {"check", "trust"})
       /\ \A f \in Fields \ {"pc", "ok"} : call'[c][f] = v[f]
  BY <1>1a, <1>1b, SkipMoves
<1>1d. /\ call'[c].check = <<>> /\ call'[c].trust = trust
  BY <1>1e, <1>1c DEF Fields
<1>3. done \in SUBSET DOMAIN rows /\ fit \in SUBSET DOMAIN rows
  BY <1>0
<1> QED
  BY <1>1c, <1>1d, <1>3 DEF trust, VerifySignatures

LEMMA VerifyMoves ==
  ASSUME Shape, NEW c \in Callers, VerifyRaw(c)
  PROVE  /\ At(c, "verify")
         /\ \/ Stops(c)
            \/ /\ Moves(c, 1, {"trust"})
               /\ \E gpg \in BOOLEAN :
                    call'[c].trust = <<Verify(Mail[call[c].rows[1]].top, gpg)>>
<1> DEFINE levels(gpg) == <<Verify(Mail[call[c].rows[1]].top, gpg)>>
<1>0. /\ At(c, "verify")
      /\ (\E gpg \in BOOLEAN : Skip(c, 1, [call[c] EXCEPT !.trust = levels(gpg)])) \/ Fail(c)
  BY DEF VerifyRaw, Go
<1>2. CASE Fail(c)
  BY <1>0, <1>2, FailStops
<1>3. CASE \E gpg \in BOOLEAN : Skip(c, 1, [call[c] EXCEPT !.trust = levels(gpg)])
  <2>0. PICK gpg \in BOOLEAN : Skip(c, 1, [call[c] EXCEPT !.trust = levels(gpg)])
    BY <1>3
  <2> DEFINE trust == levels(gpg)
  <2>2. Skip(c, 1, [call[c] EXCEPT !.trust = trust])
    BY <2>0
  <2> HIDE DEF trust
  <2> DEFINE v == [call[c] EXCEPT !.trust = trust]
  <2>1a. Skip(c, 1, v)
    BY <2>2
  <2>1b. DOMAIN v = Fields /\ \A f \in Fields \ {"trust"} : v[f] = call[c][f]
    BY DEF Shape, Fields
  <2>1e. /\ v.trust = trust
    BY DEF Shape, Fields
  <2> HIDE DEF v
  <2>1c. Moves(c, 1, {"trust"})
         /\ \A f \in Fields \ {"pc", "ok"} : call'[c][f] = v[f]
    BY <2>1a, <2>1b, SkipMoves
  <2>1d. /\ call'[c].trust = trust
    BY <2>1e, <2>1c DEF Fields
  <2> QED
    BY <1>0, <2>1c, <2>1d DEF trust
<1> QED
  BY <1>0, <1>2, <1>3

LEMMA ExposeMoves ==
  ASSUME Shape, NEW c \in Callers, Expose(c)
  PROVE  At(c, "expose") /\ Moves(c, 1, {"shown"}) /\ call'[c].shown = Range(call[c].rows)
<1> DEFINE shown == Range(call[c].rows)
<1>0. At(c, "expose") /\ Skip(c, 1, [call[c] EXCEPT !.shown = shown])
  BY DEF Expose, Go
<1> HIDE DEF shown
<1> DEFINE v == [call[c] EXCEPT !.shown = shown]
<1>1a. Skip(c, 1, v)
  BY <1>0 DEF Go
<1>1b. DOMAIN v = Fields /\ \A f \in Fields \ {"shown"} : v[f] = call[c][f]
  BY DEF Shape, Fields
<1>1e. /\ v.shown = shown
  BY DEF Shape, Fields
<1> HIDE DEF v
<1>1c. Moves(c, 1, {"shown"})
       /\ \A f \in Fields \ {"pc", "ok"} : call'[c][f] = v[f]
  BY <1>1a, <1>1b, SkipMoves
<1>1d. /\ call'[c].shown = shown
  BY <1>1e, <1>1c DEF Fields
<1> QED
  BY <1>0, <1>1c, <1>1d DEF shown

LEMMA RedactMoves ==
  ASSUME Shape, NEW c \in Callers, Redact(c)
  PROVE  At(c, "redact") /\ Moves(c, 1, {"shown"}) /\ call'[c].shown = {u \in Range(call[c].rows) : May(c, u)}
<1> DEFINE shown == {u \in Range(call[c].rows) : May(c, u)}
<1>0. At(c, "redact") /\ Skip(c, 1, [call[c] EXCEPT !.shown = shown])
  BY DEF Redact, Go
<1> HIDE DEF shown
<1> DEFINE v == [call[c] EXCEPT !.shown = shown]
<1>1a. Skip(c, 1, v)
  BY <1>0 DEF Go
<1>1b. DOMAIN v = Fields /\ \A f \in Fields \ {"shown"} : v[f] = call[c][f]
  BY DEF Shape, Fields
<1>1e. /\ v.shown = shown
  BY DEF Shape, Fields
<1> HIDE DEF v
<1>1c. Moves(c, 1, {"shown"})
       /\ \A f \in Fields \ {"pc", "ok"} : call'[c][f] = v[f]
  BY <1>1a, <1>1b, SkipMoves
<1>1d. /\ call'[c].shown = shown
  BY <1>1e, <1>1c DEF Fields
<1> QED
  BY <1>0, <1>1c, <1>1d DEF shown

LEMMA OneIdMoves ==
  ASSUME Shape, NEW c \in Callers, NEW u, OneId(c, u)
  PROVE  /\ At(c, "id") /\ Moves(c, 1, {"ids", "asked"})
         /\ call'[c].ids = <<u>> /\ call'[c].asked = {u}
<1> DEFINE ids == <<u>>
           asked == {u}
<1>0. At(c, "id") /\ Skip(c, 1, [call[c] EXCEPT !.ids = ids, !.asked = asked])
  BY DEF OneId, Go
<1> HIDE DEF ids, asked
<1> DEFINE v == [call[c] EXCEPT !.ids = ids, !.asked = asked]
<1>1a. Skip(c, 1, v)
  BY <1>0 DEF Go
<1>1b. DOMAIN v = Fields /\ \A f \in Fields \ {"ids", "asked"} : v[f] = call[c][f]
  BY DEF Shape, Fields
<1>1e. v.ids = ids /\ v.asked = asked
  BY DEF Shape, Fields
<1> HIDE DEF v
<1>1c. /\ Moves(c, 1, {"ids", "asked"})
       /\ \A f \in Fields \ {"pc", "ok"} : call'[c][f] = v[f]
  BY <1>1a, <1>1b, SkipMoves
<1>1d. call'[c].ids = ids /\ call'[c].asked = asked
  BY <1>1e, <1>1c DEF Fields
<1> QED
  BY <1>0, <1>1c, <1>1d DEF ids, asked

LEMMA ManyIdsMoves ==
  ASSUME Shape, NEW c \in Callers, NEW ids, ManyIds(c, ids)
  PROVE  /\ At(c, "ids")
         /\ \/ Stops(c)
            \/ Moves(c, Len(Handlers[call[c].tool]), {})
            \/ /\ Moves(c, 1, {"ids", "asked"}) /\ call'[c].ids = parseUIDs(ids)
               /\ call'[c].asked = Range(ids) /\ parseUIDs(ids) # <<>>
<1> DEFINE uids == parseUIDs(ids)
           asked == Range(ids)
           all == Len(Handlers[call[c].tool])
<1>0. /\ At(c, "ids")
      /\ \/ Fail(c)
         \/ Skip(c, all, call[c])
         \/ uids # <<>> /\ Skip(c, 1, [call[c] EXCEPT !.ids = uids, !.asked = asked])
  BY DEF ManyIds, Go
<1> HIDE DEF uids, asked, all
<1>1. CASE Fail(c)
  BY <1>0, <1>1, FailStops
<1>2. CASE Skip(c, all, call[c])
  <2>1. DOMAIN call[c] = Fields /\ \A f \in Fields \ {} : call[c][f] = call[c][f]
    BY DEF Shape
  <2>2. Moves(c, all, {})
    BY <1>2, <2>1, SkipMoves
  <2> QED
    BY <1>0, <2>2 DEF all
<1>3. CASE uids # <<>> /\ Skip(c, 1, [call[c] EXCEPT !.ids = uids, !.asked = asked])
  <2> DEFINE v == [call[c] EXCEPT !.ids = uids, !.asked = asked]
  <2>1a. Skip(c, 1, v)
    BY <1>3 DEF Go
  <2>1b. DOMAIN v = Fields /\ \A f \in Fields \ {"ids", "asked"} : v[f] = call[c][f]
    BY DEF Shape, Fields
  <2>1e. v.ids = uids /\ v.asked = asked
    BY DEF Shape, Fields
  <2> HIDE DEF v
  <2>1c. /\ Moves(c, 1, {"ids", "asked"})
         /\ \A f \in Fields \ {"pc", "ok"} : call'[c][f] = v[f]
    BY <2>1a, <2>1b, SkipMoves
  <2>1d. call'[c].ids = uids /\ call'[c].asked = asked
    BY <2>1e, <2>1c DEF Fields
  <2> QED
    BY <1>0, <1>3, <2>1c, <2>1d DEF uids, asked
<1> QED
  BY <1>0, <1>1, <1>2, <1>3

LEMMA MoveMoves ==
  ASSUME Shape, NEW c \in Callers, MoveMessages(c)
  PROVE  /\ At(c, "move") /\ Moves(c, 1, {"hit", "exact", "n"})
         /\ call'[c].hit = Range(call[c].ids) \cap Range(inbox)
         /\ call'[c].n = Cardinality(call'[c].hit) \/ (call'[c].n = 0 /\ ~call'[c].exact)
<1> DEFINE hit == Range(call[c].ids) \cap Range(inbox)
<1>0. PICK exact \in BOOLEAN :
        Skip(c, 1, [call[c] EXCEPT !.hit = hit, !.exact = exact,
                                   !.n = IF exact THEN Cardinality(hit) ELSE 0])
  BY DEF MoveMessages, Go
<1> DEFINE n == IF exact THEN Cardinality(hit) ELSE 0
<1>2. Skip(c, 1, [call[c] EXCEPT !.hit = hit, !.exact = exact, !.n = n])
  BY <1>0
<1>3. n = Cardinality(hit) \/ (n = 0 /\ ~exact)
  OBVIOUS
<1>4. At(c, "move")
  BY DEF MoveMessages
<1> HIDE DEF hit, n
<1> DEFINE v == [call[c] EXCEPT !.hit = hit, !.exact = exact, !.n = n]
<1>1a. Skip(c, 1, v)
  BY <1>2 DEF Go
<1>1b. DOMAIN v = Fields /\ \A f \in Fields \ {"hit", "exact", "n"} : v[f] = call[c][f]
  BY DEF Shape, Fields
<1>1e. v.hit = hit /\ v.exact = exact /\ v.n = n
  BY DEF Shape, Fields
<1> HIDE DEF v
<1>1c. /\ Moves(c, 1, {"hit", "exact", "n"})
       /\ \A f \in Fields \ {"pc", "ok"} : call'[c][f] = v[f]
  BY <1>1a, <1>1b, SkipMoves
<1>1d. call'[c].hit = hit /\ call'[c].exact = exact /\ call'[c].n = n
  BY <1>1e, <1>1c DEF Fields
<1> QED
  BY <1>3, <1>4, <1>1c, <1>1d DEF hit

LEMMA MarkMoves ==
  ASSUME Shape, NEW c \in Callers, NEW flag, SetSeenBatch(c, flag)
  PROVE  /\ At(c, "mark") /\ Moves(c, 1, {"hit", "n"})
         /\ call'[c].hit = Range(call[c].ids) \cap Range(inbox)
         /\ call'[c].n = Cardinality(call'[c].hit)
<1> DEFINE hit == Range(call[c].ids) \cap Range(inbox)
           n == Cardinality(hit)
<1>0. At(c, "mark") /\ Skip(c, 1, [call[c] EXCEPT !.hit = hit, !.n = n])
  BY DEF SetSeenBatch, Go
<1>3. n = Cardinality(hit)
  OBVIOUS
<1> HIDE DEF hit, n
<1> DEFINE v == [call[c] EXCEPT !.hit = hit, !.n = n]
<1>1a. Skip(c, 1, v)
  BY <1>0 DEF Go
<1>1b. DOMAIN v = Fields /\ \A f \in Fields \ {"hit", "n"} : v[f] = call[c][f]
  BY DEF Shape, Fields
<1>1e. v.hit = hit /\ v.n = n
  BY DEF Shape, Fields
<1> HIDE DEF v
<1>1c. /\ Moves(c, 1, {"hit", "n"})
       /\ \A f \in Fields \ {"pc", "ok"} : call'[c][f] = v[f]
  BY <1>1a, <1>1b, SkipMoves
<1>1d. call'[c].hit = hit /\ call'[c].n = n
  BY <1>1e, <1>1c DEF Fields
<1> QED
  BY <1>0, <1>3, <1>1c, <1>1d DEF hit

LEMMA AddMoves ==
  ASSUME Shape, NEW c \in Callers, NEW k, Add(c, k)
  PROVE  /\ At(c, "add")
         /\ \/ Stops(c)
            \/ /\ Moves(c, 1, {"new", "want"})
               /\ \E card : /\ CheckNameConflict(call[c].book, card)
                            /\ call'[c].new = Append(call[c].book, card)
                            /\ call'[c].want = Append(Mine(c)["contacts.json"].book, card)
<1> DEFINE perms == IF c \in Tools /\ k.grant # <<>> THEN call[c].id :> k.grant ELSE <<>>
           card == [name |-> k.name, email |-> k.email, aliases |-> k.aliases,
                    key |-> FALSE, perms |-> perms]
           new == Append(call[c].book, card)
           want == Append(Mine(c)["contacts.json"].book, card)
<1>0. /\ At(c, "add")
      /\ Fail(c) \/ (CanAdd(call[c].book, card) /\ Skip(c, 1, [call[c] EXCEPT !.new = new, !.want = want]))
  BY DEF Add, Go
<1>1. new = Append(call[c].book, card) /\ want = Append(Mine(c)["contacts.json"].book, card)
  OBVIOUS
<1> HIDE DEF card, new, want
<1>2. CASE Fail(c)
  BY <1>0, <1>2, FailStops
<1>3. CASE CanAdd(call[c].book, card) /\ Skip(c, 1, [call[c] EXCEPT !.new = new, !.want = want])
  <2> DEFINE v == [call[c] EXCEPT !.new = new, !.want = want]
  <2>1a. Skip(c, 1, v)
    BY <1>3 DEF Go
  <2>1b. DOMAIN v = Fields /\ \A f \in Fields \ {"new", "want"} : v[f] = call[c][f]
    BY DEF Shape, Fields
  <2>1e. v.new = new /\ v.want = want
    BY DEF Shape, Fields
  <2> HIDE DEF v
  <2>1c. /\ Moves(c, 1, {"new", "want"})
         /\ \A f \in Fields \ {"pc", "ok"} : call'[c][f] = v[f]
    BY <2>1a, <2>1b, SkipMoves
  <2>1d. call'[c].new = new /\ call'[c].want = want
    BY <2>1e, <2>1c DEF Fields
  <2>2. CheckNameConflict(call[c].book, card)
    BY <1>3 DEF CanAdd
  <2> QED
    BY <1>0, <1>1, <2>1c, <2>1d, <2>2
<1> QED
  BY <1>0, <1>2, <1>3

LEMMA RemoveMoves ==
  ASSUME Shape, NEW c \in Callers, NEW q, RemoveFound(c, q)
  PROVE  /\ At(c, "remove")
         /\ \/ Stops(c)
            \/ /\ Moves(c, 1, {"new", "want"})
               /\ \E S : LET found == Only(call[c].book, S)
                             held == Mine(c)["contacts.json"].book
                         IN  /\ found # <<>>
                             /\ call'[c].new = RemoveContact(call[c].book, found[1].name)
                             /\ call'[c].want = Only(held, Range(held) \ {found[1]})
<1> DEFINE book == call[c].book
           S == IF c \in Tools THEN {x \in Range(book) : q \in {x.name, x.email} \cup x.aliases}
                ELSE {x \in Range(book) : x.name = q}
           found == Only(book, S)
           held == Mine(c)["contacts.json"].book
           new == RemoveContact(book, found[1].name)
           want == Only(held, Range(held) \ {found[1]})
<1>0. /\ At(c, "remove")
      /\ Fail(c) \/ (found # <<>> /\ Skip(c, 1, [call[c] EXCEPT !.new = new, !.want = want]))
  BY DEF RemoveFound, Find, Go
<1>1. /\ new = RemoveContact(book, Only(book, S)[1].name)
      /\ want = Only(held, Range(held) \ {Only(book, S)[1]})
      /\ found = Only(book, S)
  OBVIOUS
<1> HIDE DEF S, found, new, want
<1>2. CASE Fail(c)
  BY <1>0, <1>2, FailStops
<1>3. CASE found # <<>> /\ Skip(c, 1, [call[c] EXCEPT !.new = new, !.want = want])
  <2> DEFINE v == [call[c] EXCEPT !.new = new, !.want = want]
  <2>1a. Skip(c, 1, v)
    BY <1>3 DEF Go
  <2>1b. DOMAIN v = Fields /\ \A f \in Fields \ {"new", "want"} : v[f] = call[c][f]
    BY DEF Shape, Fields
  <2>1e. v.new = new /\ v.want = want
    BY DEF Shape, Fields
  <2> HIDE DEF v
  <2>1c. /\ Moves(c, 1, {"new", "want"})
         /\ \A f \in Fields \ {"pc", "ok"} : call'[c][f] = v[f]
    BY <2>1a, <2>1b, SkipMoves
  <2>1d. call'[c].new = new /\ call'[c].want = want
    BY <2>1e, <2>1c DEF Fields
  <2> QED
    BY <1>0, <1>1, <1>3, <2>1c, <2>1d
<1> QED
  BY <1>0, <1>2, <1>3

LEMMA OpenMoves ==
  ASSUME Shape, NEW c \in Callers, OpenTmp(c)
  PROVE  /\ At(c, "open") /\ Moves(c, 1, {"fd", "file"})
         /\ call'[c].fd = "tmp" /\ call'[c].file = "contacts.json"
<1>0. At(c, "open") /\ Skip(c, 1, [call[c] EXCEPT !.fd = "tmp", !.file = "contacts.json"])
  BY DEF OpenTmp, Go
<1> DEFINE v == [call[c] EXCEPT !.fd = "tmp", !.file = "contacts.json"]
<1>1a. Skip(c, 1, v)
  BY <1>0 DEF Go
<1>1b. DOMAIN v = Fields /\ \A f \in Fields \ {"fd", "file"} : v[f] = call[c][f]
  BY DEF Shape, Fields
<1>1e. v.fd = "tmp" /\ v.file = "contacts.json"
  BY DEF Shape, Fields
<1> HIDE DEF v
<1>1c. /\ Moves(c, 1, {"fd", "file"})
       /\ \A f \in Fields \ {"pc", "ok"} : call'[c][f] = v[f]
  BY <1>1a, <1>1b, SkipMoves
<1>1d. call'[c].fd = "tmp" /\ call'[c].file = "contacts.json"
  BY <1>1e, <1>1c DEF Fields
<1> QED
  BY <1>0, <1>1c, <1>1d

LEMMA WriteMoves ==
  ASSUME Shape, NEW c \in Callers, WriteTmp(c)
  PROVE  At(c, "write") /\ Moves(c, 1, {"fd"}) /\ call'[c].fd = None
<1>0. At(c, "write") /\ Skip(c, 1, [call[c] EXCEPT !.fd = None])
  BY DEF WriteTmp, Go
<1> DEFINE v == [call[c] EXCEPT !.fd = None]
<1>1a. Skip(c, 1, v)
  BY <1>0 DEF Go
<1>1b. DOMAIN v = Fields /\ \A f \in Fields \ {"fd"} : v[f] = call[c][f]
  BY DEF Shape, Fields
<1>1e. v.fd = None
  BY DEF Shape, Fields
<1> HIDE DEF v
<1>1c. /\ Moves(c, 1, {"fd"})
       /\ \A f \in Fields \ {"pc", "ok"} : call'[c][f] = v[f]
  BY <1>1a, <1>1b, SkipMoves
<1>1d. call'[c].fd = None
  BY <1>1e, <1>1c DEF Fields
<1> QED
  BY <1>0, <1>1c, <1>1d

\* The rename moves what others have open.
LEMMA RenameMoves ==
  ASSUME Shape, NEW c \in Callers, Rename(c)
  PROVE  /\ At(c, "rename") /\ Shape'
         /\ Advances(c, 1) /\ Same(c, {"pc", "ok", "fd"})
         /\ \A d \in Callers \ {c} :
              \/ call'[d] = call[d]
              \/ /\ Same(d, {"fd"}) /\ call'[d].fd = Moved(call[d].fd)
                 /\ call[d].id = call[c].id /\ call[d].file = "contacts.json"
<1> DEFINE after(d) == IF call[d].id = call[c].id /\ call[d].file = "contacts.json"
                         THEN [call[d] EXCEPT !.fd = Moved(call[d].fd)] ELSE call[d]
           a == after(c)
           last == After(c, 1, a)
<1>0. /\ At(c, "rename")
      /\ call' = [d \in Callers |-> IF d = c THEN last ELSE after(d)]
  BY DEF Rename
<1>1. \A d \in Callers :
        /\ DOMAIN after(d) = Fields
        /\ \A f \in Fields \ {"fd"} : after(d)[f] = call[d][f]
        /\ \/ after(d) = call[d]
           \/ /\ after(d).fd = Moved(call[d].fd)
              /\ call[d].id = call[c].id /\ call[d].file = "contacts.json"
  BY DEF Shape, Fields
<1>2. DOMAIN a = Fields /\ \A f \in Fields \ {"fd"} : a[f] = call[c][f]
  BY <1>1
<1> HIDE DEF a, after
<1>3. /\ DOMAIN last = Fields
      /\ \A f \in Fields \ {"pc", "ok"} : last[f] = a[f]
      /\ last.pc = IF call[c].pc + 1 > Len(Handlers[call[c].tool]) THEN 0 ELSE call[c].pc + 1
      /\ last.ok = (call[c].pc + 1 > Len(Handlers[call[c].tool]))
  BY <1>2 DEF After, Fields
<1> HIDE DEF last
<1>4. call'[c] = last /\ \A d \in Callers \ {c} : call'[d] = after(d)
  BY <1>0
<1>5. Shape'
  BY <1>0, <1>1, <1>3, <1>4 DEF Shape
<1>6. Advances(c, 1) /\ Same(c, {"pc", "ok", "fd"})
  BY <1>2, <1>3, <1>4 DEF Advances, Same
<1> QED
  BY <1>0, <1>1, <1>4, <1>5, <1>6 DEF Same

LEMMA FailureStops ==
  ASSUME Shape, NEW c \in Callers, ServerFails(c) \/ WriteFails(c) \/ RenameFails(c)
  PROVE  Running(c) /\ Stops(c)
<1>1. Running(c) /\ Fail(c)
  BY DEF ServerFails, WriteFails, RenameFails, At
<1> QED
  BY <1>1, FailStops

LEMMA EndStops ==
  ASSUME Shape, NEW c \in Callers, Finish(c) \/ Crash(c)
  PROVE  Stops(c)
<1>1. call' = [call EXCEPT ![c] = Idle]
  BY DEF Finish, Crash
<1>2. DOMAIN Idle = Fields
  BY IdleShape
<1> HIDE DEF Idle
<1>3. call'[c] = Idle /\ \A d \in Callers \ {c} : call'[d] = call[d]
  BY <1>1 DEF Shape
<1>4. Shape'
  BY <1>1, <1>2, <1>3 DEF Shape
<1> QED
  BY <1>3, <1>4 DEF Stops

LEMMA BeginStarts ==
  ASSUME Shape, NEW c \in Callers, NEW t \in DOMAIN Handlers, Begin(c, t)
  PROVE  Starts(c)
<1> DEFINE r == [Idle EXCEPT !.tool = t, !.pc = 1]
<1>1. call' = [call EXCEPT ![c] = r] /\ call[c] = Idle
  BY DEF Begin
<1>2. DOMAIN r = Fields
  BY IdleShape
<1> HIDE DEF r
<1>3. call'[c] = r /\ \A d \in Callers \ {c} : call'[d] = call[d]
  BY <1>1 DEF Shape
<1>4. Shape'
  BY <1>1, <1>2, <1>3 DEF Shape
<1> QED
  BY <1>1, <1>3, <1>4 DEF Starts, r
-----------------------------------------------------------------------------
(* What a stage does to the call, property by property *)

\* How many stages a stage may take the call on.
Hop(c, n) ==
    \/ n = 1
    \/ St(c) = "identity" /\ n = 7
    \/ St(c) = "stat" /\ n = 3
    \/ St(c) = "create" /\ n = Unmigrated(c)
    \/ St(c) = "fill" /\ n = Unmigrated(c) - 1
    \/ St(c) = "select" /\ n \in {3, 4}
    \/ St(c) = "search" /\ n \in {2, 3}
    \/ St(c) = "retry" /\ n = 2
    \/ St(c) = "ids" /\ n = Len(Handlers[call[c].tool])

FlowWork(c) ==
    /\ Running(c) /\ call'[c].tool = call[c].tool
    /\ \E n : Hop(c, n) /\ Advances(c, n)
    /\ St(c) \notin {"stat", "fill", "open"} => call'[c].file = call[c].file
    /\ St(c) = "stat" =>
         \/ Advances(c, 1) /\ call'[c].file = call[c].file
         \/ Advances(c, 3) /\ call'[c].file = "contacts.json"
    /\ St(c) = "fill" =>
         \/ Advances(c, 1) /\ call'[c].file = "contacts.json"
         \/ Advances(c, Unmigrated(c) - 1)

TrustWork(c) ==
    /\ St(c) \notin {"fetch", "message", "raw"} => call'[c].rows = call[c].rows
    /\ St(c) \notin {"fetch", "message", "raw", "signatures", "verify"} =>
         call'[c].trust = call[c].trust
    /\ St(c) = "fetch" =>
         /\ call'[c].rows = Only(call[c].sel, Range(inbox))
         /\ call'[c].trust =
              [i \in DOMAIN call'[c].rows |-> ClassifyTrust(Mail[call'[c].rows[i]].top)]
    /\ St(c) = "message" =>
         \E u \in Range(inbox) :
             /\ call'[c].rows = <<u>>
             /\ \E e \in {Mail[u].top, Mail[u].inner} : call'[c].trust = <<ClassifyTrust(e)>>
    /\ St(c) = "raw" =>
         \E u \in Range(inbox) :
             /\ call'[c].rows = <<u>>
             /\ \E level \in {ClassifyTrust(Mail[u].top), "unverified"} : call'[c].trust = <<level>>
    /\ St(c) = "signatures" =>
         \E done, fit \in SUBSET DOMAIN call[c].rows :
             call'[c].trust = [i \in DOMAIN call[c].rows |->
               IF i \in done THEN Verify(Mail[call[c].rows[i]].top, i \in fit) ELSE call[c].trust[i]]
    /\ St(c) = "verify" =>
         \E gpg \in BOOLEAN : call'[c].trust = <<Verify(Mail[call[c].rows[1]].top, gpg)>>

CountWork(c) ==
    /\ St(c) \notin {"id", "ids"} => call'[c].ids = call[c].ids /\ call'[c].asked = call[c].asked
    /\ St(c) \notin {"move", "mark"} => call'[c].hit = call[c].hit /\ call'[c].n = call[c].n
    /\ St(c) # "move" => call'[c].exact = call[c].exact
    /\ St(c) = "id" => \E u : call'[c].ids = <<u>> /\ call'[c].asked = {u}
    /\ St(c) = "ids" =>
         \/ call'[c].ids = call[c].ids /\ call'[c].asked = call[c].asked
         \/ \E ids \in IdLists : /\ call'[c].ids = parseUIDs(ids) /\ parseUIDs(ids) # <<>>
                                 /\ call'[c].asked = Range(ids)
    /\ St(c) \in {"move", "mark"} =>
         /\ call'[c].hit = Range(call[c].ids) \cap Range(inbox)
         /\ \/ call'[c].n = Cardinality(call'[c].hit)
            \/ call'[c].n = 0 /\ ~call'[c].exact

ReadWork(c) ==
    /\ St(c) \notin {"identity", "create", "fill"} => call'[c].id = call[c].id
    /\ St(c) # "contacts" => call'[c].book = call[c].book
    /\ St(c) \notin {"expose", "redact"} => call'[c].shown = call[c].shown
    /\ St(c) = "identity" => names' = names /\ override' = override
    /\ St(c) = "identity" =>
         \/ Who(c) # Broken /\ call'[c].id = Who(c)
         \/ c \notin Tools /\ call'[c].id = Root
    /\ St(c) \in {"create", "fill"} =>
         call'[c].id = call[c].id \/ (c \notin Tools /\ call'[c].id = Root)
    /\ St(c) = "contacts" =>
         files' = files /\ call'[c].book = Mine(c)["contacts.json"].book
    /\ St(c) = "gate" => May(c, call[c].rows[1])
    /\ St(c) = "expose" => call'[c].shown = Range(call[c].rows)
    /\ St(c) = "redact" => \A u \in call'[c].shown : May(c, u)

\* What SEARCH with the query q finds, and the stages it goes on by.
FoundWork(c, k, q) ==
    LET uids == UIDSearch(q, inbox, seen)
        sel == window(uids, call[c].page.count, call[c].page.offset)
    IN  /\ Advances(c, IF sel = <<>> THEN k + 1 ELSE k)
        /\ call'[c].q = q /\ call'[c].sel = sel /\ call'[c].total = Len(uids)
        /\ call'[c].at = inbox /\ call'[c].unseen = Range(inbox) \ seen
        /\ call'[c].degraded = call[c].degraded

SelectWork(c, q, p) ==
    /\ call'[c].q = q /\ call'[c].page = p /\ call'[c].view = inbox
    /\ call'[c].at = inbox /\ call'[c].unseen = Range(inbox) \ seen
    /\ \/ /\ Advances(c, 4) /\ Len(inbox) = 0
          /\ call'[c].sel = call[c].sel /\ call'[c].total = call[c].total
       \/ /\ Advances(c, 3) /\ Len(inbox) > 0 /\ ~HasCriteria(q) /\ p.offset = 0
          /\ call'[c].sel = Recent(inbox, Len(inbox), p.count) /\ call'[c].total = Len(inbox)
       \/ Advances(c, 1) /\ call'[c].sel = call[c].sel

FallbackWork(c) ==
    \/ /\ Advances(c, 1) /\ call'[c].q = call[c].q /\ call'[c].degraded = call[c].degraded
       /\ call'[c].at = call[c].at /\ call'[c].sel = call[c].sel
    \/ /\ Advances(c, 2) /\ call'[c].q = call[c].q /\ ~call[c].q.unread
       /\ call'[c].at = call[c].at /\ call'[c].degraded = TRUE
       /\ \E v \in {call[c].view, Only(call[c].view, Range(inbox))} :
            call'[c].sel = Recent(v, Len(call[c].view), call[c].page.count)

ListWork(c) ==
    /\ St(c) \notin {"select", "search", "retry"} =>
         /\ call'[c].q = call[c].q /\ call'[c].total = call[c].total
         /\ call'[c].at = call[c].at /\ call'[c].unseen = call[c].unseen
    /\ St(c) # "select" => call'[c].page = call[c].page
    /\ St(c) \notin {"select", "search", "retry", "fetch"} => call'[c].sel = call[c].sel
    /\ St(c) \notin {"select", "fetch"} => call'[c].view = call[c].view
    /\ St(c) = "fetch" => call'[c].sel = <<>> /\ call'[c].view = <<>>
    /\ St(c) # "search" => call'[c].degraded = call[c].degraded
    /\ St(c) = "select" => \E q \in Queries, p \in Pages : SelectWork(c, q, p)
    /\ St(c) = "search" => FoundWork(c, 2, call[c].q) \/ FallbackWork(c)
    /\ St(c) = "retry" => FoundWork(c, 1, [call[c].q EXCEPT !.repo = FALSE])

EditWork(c) ==
    /\ St(c) \notin {"add", "remove"} =>
         call'[c].new = call[c].new /\ call'[c].want = call[c].want
    /\ St(c) \notin {"create", "fill", "open", "write", "rename"} => call'[c].fd = call[c].fd
    /\ St(c) \notin {"stat", "create", "fill"} => call'[c].buf = call[c].buf
    /\ St(c) = "stat" =>
         \/ call'[c].buf = call[c].buf
         \/ /\ Advances(c, 1) /\ call'[c].file = call[c].file
            /\ call'[c].buf = files[Root][call[c].file]
    /\ St(c) = "create" =>
         \/ call'[c].buf = Absent
         \/ Advances(c, 1) /\ call'[c].file = call[c].file /\ call'[c].buf = call[c].buf
    /\ St(c) = "fill" => call'[c].buf = Absent
    /\ St(c) = "add" =>
         \E card : /\ CheckNameConflict(call[c].book, card)
                   /\ call'[c].new = Append(call[c].book, card)
                   /\ call'[c].want = Append(Mine(c)["contacts.json"].book, card)
    /\ St(c) = "remove" =>
         \E S : LET found == Only(call[c].book, S)
                   held == Mine(c)["contacts.json"].book
               IN  /\ found # <<>>
                   /\ call'[c].new = RemoveContact(call[c].book, found[1].name)
                   /\ call'[c].want = Only(held, Range(held) \ {found[1]})

Works(c) ==
    /\ FlowWork(c) /\ TrustWork(c) /\ CountWork(c) /\ ReadWork(c) /\ ListWork(c) /\ EditWork(c)

LEMMA AtSt ==
  ASSUME NEW c, NEW s
  PROVE  At(c, s) <=> Running(c) /\ St(c) = s
  BY DEF At, St

LEMMA IdentityKeeps ==
  ASSUME NEW c, ResolveIdentity(c)
  PROVE  names' = names /\ override' = override
  BY DEF ResolveIdentity, Unmoved, idVars

LEMMA LoadKeeps ==
  ASSUME NEW c, Load(c)
  PROVE  files' = files
  BY DEF Load, Unmoved, fileVars

LEMMA IdentityWorks ==
  ASSUME Shape, NEW c \in Callers, ResolveIdentity(c)
  PROVE  Shape' /\ (\A d \in Callers \ {c} : call'[d] = call[d]) /\ (Works(c) \/ Stops(c))
<1> SUFFICES ASSUME ~Stops(c) PROVE Shape' /\ (\A d \in Callers \ {c} : call'[d] = call[d]) /\ Works(c)
  BY DEF Stops
<1>1. Running(c) /\ St(c) = "identity"
  BY IdentityMoves, AtSt
<1>2. Shape' /\ \A d \in Callers \ {c} : call'[d] = call[d]
  BY IdentityMoves DEF Moves
<1>3. FlowWork(c)
  BY <1>1, IdentityMoves DEF FlowWork, Hop, Moves, Same, Fields
<1>4. TrustWork(c)
  BY <1>1, IdentityMoves DEF TrustWork, Moves, Same, Fields
<1>5. CountWork(c)
  BY <1>1, IdentityMoves DEF CountWork, Moves, Same, Fields
<1>6. ReadWork(c)
  BY <1>1, IdentityMoves, IdentityKeeps DEF ReadWork, Moves, Same, Fields
<1>7. ListWork(c)
  BY <1>1, IdentityMoves DEF ListWork, FoundWork, SelectWork, FallbackWork, Moves, Same, Fields
<1>8. EditWork(c)
  BY <1>1, IdentityMoves DEF EditWork, Moves, Same, Fields
<1> QED
  BY <1>2, <1>3, <1>4, <1>5, <1>6, <1>7, <1>8 DEF Works

LEMMA StatWorks ==
  ASSUME Shape, NEW c \in Callers, Stat(c)
  PROVE  Shape' /\ (\A d \in Callers \ {c} : call'[d] = call[d]) /\ Works(c)
<1>1. Running(c) /\ St(c) = "stat"
  BY StatMoves, AtSt
<1>2. Shape' /\ \A d \in Callers \ {c} : call'[d] = call[d]
  BY StatMoves DEF Moves
<1>3. FlowWork(c)
  BY <1>1, StatMoves DEF FlowWork, Hop, Moves, Same, Fields
<1>4. TrustWork(c)
  BY <1>1, StatMoves DEF TrustWork, Moves, Same, Fields
<1>5. CountWork(c)
  BY <1>1, StatMoves DEF CountWork, Moves, Same, Fields
<1>6. ReadWork(c)
  BY <1>1, StatMoves DEF ReadWork, Moves, Same, Fields
<1>7. ListWork(c)
  BY <1>1, StatMoves DEF ListWork, FoundWork, SelectWork, FallbackWork, Moves, Same, Fields
<1>8. EditWork(c)
  BY <1>1, StatMoves DEF EditWork, Moves, Same, Fields
<1> QED
  BY <1>2, <1>3, <1>4, <1>5, <1>6, <1>7, <1>8 DEF Works

LEMMA CreateWorks ==
  ASSUME Shape, NEW c \in Callers, Create(c)
  PROVE  Shape' /\ (\A d \in Callers \ {c} : call'[d] = call[d]) /\ (Works(c) \/ Stops(c))
<1> SUFFICES ASSUME ~Stops(c) PROVE Shape' /\ (\A d \in Callers \ {c} : call'[d] = call[d]) /\ Works(c)
  BY DEF Stops
<1>1. Running(c) /\ St(c) = "create"
  BY CreateMoves, AtSt
<1>2. Shape' /\ \A d \in Callers \ {c} : call'[d] = call[d]
  BY CreateMoves DEF Moves
<1>3. FlowWork(c)
  BY <1>1, CreateMoves DEF FlowWork, Hop, Moves, Same, Fields
<1>4. TrustWork(c)
  BY <1>1, CreateMoves DEF TrustWork, Moves, Same, Fields
<1>5. CountWork(c)
  BY <1>1, CreateMoves DEF CountWork, Moves, Same, Fields
<1>6. ReadWork(c)
  BY <1>1, CreateMoves DEF ReadWork, Moves, Same, Fields
<1>7. ListWork(c)
  BY <1>1, CreateMoves DEF ListWork, FoundWork, SelectWork, FallbackWork, Moves, Same, Fields
<1>8. EditWork(c)
  BY <1>1, CreateMoves DEF EditWork, Moves, Same, Fields
<1> QED
  BY <1>2, <1>3, <1>4, <1>5, <1>6, <1>7, <1>8 DEF Works

LEMMA FillWorks ==
  ASSUME Shape, NEW c \in Callers, Fill(c)
  PROVE  Shape' /\ (\A d \in Callers \ {c} : call'[d] = call[d]) /\ Works(c)
<1>1. Running(c) /\ St(c) = "fill"
  BY FillMoves, AtSt
<1>2. Shape' /\ \A d \in Callers \ {c} : call'[d] = call[d]
  BY FillMoves DEF Moves
<1>3. FlowWork(c)
  BY <1>1, FillMoves DEF FlowWork, Hop, Moves, Same, Fields
<1>4. TrustWork(c)
  BY <1>1, FillMoves DEF TrustWork, Moves, Same, Fields
<1>5. CountWork(c)
  BY <1>1, FillMoves DEF CountWork, Moves, Same, Fields
<1>6. ReadWork(c)
  BY <1>1, FillMoves DEF ReadWork, Moves, Same, Fields
<1>7. ListWork(c)
  BY <1>1, FillMoves DEF ListWork, FoundWork, SelectWork, FallbackWork, Moves, Same, Fields
<1>8. EditWork(c)
  BY <1>1, FillMoves DEF EditWork, Moves, Same, Fields
<1> QED
  BY <1>2, <1>3, <1>4, <1>5, <1>6, <1>7, <1>8 DEF Works

LEMMA FillFailsWorks ==
  ASSUME Shape, NEW c \in Callers, FillFails(c)
  PROVE  Shape' /\ (\A d \in Callers \ {c} : call'[d] = call[d]) /\ (Works(c) \/ Stops(c))
<1> SUFFICES ASSUME ~Stops(c) PROVE Shape' /\ (\A d \in Callers \ {c} : call'[d] = call[d]) /\ Works(c)
  BY DEF Stops
<1>1. Running(c) /\ St(c) = "fill"
  BY FillFailsMoves, AtSt
<1>2. Shape' /\ \A d \in Callers \ {c} : call'[d] = call[d]
  BY FillFailsMoves DEF Moves
<1>3. FlowWork(c)
  BY <1>1, FillFailsMoves DEF FlowWork, Hop, Moves, Same, Fields
<1>4. TrustWork(c)
  BY <1>1, FillFailsMoves DEF TrustWork, Moves, Same, Fields
<1>5. CountWork(c)
  BY <1>1, FillFailsMoves DEF CountWork, Moves, Same, Fields
<1>6. ReadWork(c)
  BY <1>1, FillFailsMoves DEF ReadWork, Moves, Same, Fields
<1>7. ListWork(c)
  BY <1>1, FillFailsMoves DEF ListWork, FoundWork, SelectWork, FallbackWork, Moves, Same, Fields
<1>8. EditWork(c)
  BY <1>1, FillFailsMoves DEF EditWork, Moves, Same, Fields
<1> QED
  BY <1>2, <1>3, <1>4, <1>5, <1>6, <1>7, <1>8 DEF Works

LEMMA LoadWorks ==
  ASSUME Shape, NEW c \in Callers, Load(c)
  PROVE  Shape' /\ (\A d \in Callers \ {c} : call'[d] = call[d]) /\ (Works(c) \/ Stops(c))
<1> SUFFICES ASSUME ~Stops(c) PROVE Shape' /\ (\A d \in Callers \ {c} : call'[d] = call[d]) /\ Works(c)
  BY DEF Stops
<1>1. Running(c) /\ St(c) = "contacts"
  BY LoadMoves, AtSt
<1>2. Shape' /\ \A d \in Callers \ {c} : call'[d] = call[d]
  BY LoadMoves DEF Moves
<1>3. FlowWork(c)
  BY <1>1, LoadMoves DEF FlowWork, Hop, Moves, Same, Fields
<1>4. TrustWork(c)
  BY <1>1, LoadMoves DEF TrustWork, Moves, Same, Fields
<1>5. CountWork(c)
  BY <1>1, LoadMoves DEF CountWork, Moves, Same, Fields
<1>6. ReadWork(c)
  BY <1>1, LoadMoves, LoadKeeps DEF ReadWork, Moves, Same, Fields
<1>7. ListWork(c)
  BY <1>1, LoadMoves DEF ListWork, FoundWork, SelectWork, FallbackWork, Moves, Same, Fields
<1>8. EditWork(c)
  BY <1>1, LoadMoves DEF EditWork, Moves, Same, Fields
<1> QED
  BY <1>2, <1>3, <1>4, <1>5, <1>6, <1>7, <1>8 DEF Works

LEMMA SelectWorks ==
  ASSUME Shape, NEW c \in Callers, NEW q \in Queries, NEW p \in Pages, Select(c, q, p)
  PROVE  Shape' /\ (\A d \in Callers \ {c} : call'[d] = call[d]) /\ Works(c)
<1>1. Running(c) /\ St(c) = "select"
  BY SelectMoves, AtSt
<1>2. Shape' /\ \A d \in Callers \ {c} : call'[d] = call[d]
  BY SelectMoves DEF Moves
<1>3. FlowWork(c)
  BY <1>1, SelectMoves DEF FlowWork, Hop, Moves, Same, Fields
<1>4. TrustWork(c)
  BY <1>1, SelectMoves DEF TrustWork, Moves, Same, Fields
<1>5. CountWork(c)
  BY <1>1, SelectMoves DEF CountWork, Moves, Same, Fields
<1>6. ReadWork(c)
  BY <1>1, SelectMoves DEF ReadWork, Moves, Same, Fields
<1>7. ListWork(c)
  BY <1>1, SelectMoves DEF ListWork, FoundWork, SelectWork, FallbackWork, Moves, Same, Fields
<1>8. EditWork(c)
  BY <1>1, SelectMoves DEF EditWork, Moves, Same, Fields
<1> QED
  BY <1>2, <1>3, <1>4, <1>5, <1>6, <1>7, <1>8 DEF Works

LEMMA FallbackWorks ==
  ASSUME Shape, NEW c \in Callers, searchFallback(c)
  PROVE  Shape' /\ (\A d \in Callers \ {c} : call'[d] = call[d]) /\ (Works(c) \/ Stops(c))
<1> SUFFICES ASSUME ~Stops(c) PROVE Shape' /\ (\A d \in Callers \ {c} : call'[d] = call[d]) /\ Works(c)
  BY DEF Stops
<1>1. Running(c) /\ St(c) = "search"
  BY FallbackMoves, AtSt
<1>2. Shape' /\ \A d \in Callers \ {c} : call'[d] = call[d]
  BY FallbackMoves DEF Moves
<1>3. FlowWork(c)
  BY <1>1, FallbackMoves DEF FlowWork, Hop, Moves, Same, Fields
<1>4. TrustWork(c)
  BY <1>1, FallbackMoves DEF TrustWork, Moves, Same, Fields
<1>5. CountWork(c)
  BY <1>1, FallbackMoves DEF CountWork, Moves, Same, Fields
<1>6. ReadWork(c)
  BY <1>1, FallbackMoves DEF ReadWork, Moves, Same, Fields
<1>7. ListWork(c)
  BY <1>1, FallbackMoves DEF ListWork, FoundWork, SelectWork, FallbackWork, Moves, Same, Fields
<1>8. EditWork(c)
  BY <1>1, FallbackMoves DEF EditWork, Moves, Same, Fields
<1> QED
  BY <1>2, <1>3, <1>4, <1>5, <1>6, <1>7, <1>8 DEF Works

LEMMA FetchWorks ==
  ASSUME Shape, NEW c \in Callers, Fetch(c)
  PROVE  Shape' /\ (\A d \in Callers \ {c} : call'[d] = call[d]) /\ Works(c)
<1>1. Running(c) /\ St(c) = "fetch"
  BY FetchMoves, AtSt
<1>2. Shape' /\ \A d \in Callers \ {c} : call'[d] = call[d]
  BY FetchMoves DEF Moves
<1>3. FlowWork(c)
  BY <1>1, FetchMoves DEF FlowWork, Hop, Moves, Same, Fields
<1>4. TrustWork(c)
  BY <1>1, FetchMoves DEF TrustWork, Moves, Same, Fields
<1>5. CountWork(c)
  BY <1>1, FetchMoves DEF CountWork, Moves, Same, Fields
<1>6. ReadWork(c)
  BY <1>1, FetchMoves DEF ReadWork, Moves, Same, Fields
<1>7. ListWork(c)
  BY <1>1, FetchMoves DEF ListWork, FoundWork, SelectWork, FallbackWork, Moves, Same, Fields
<1>8. EditWork(c)
  BY <1>1, FetchMoves DEF EditWork, Moves, Same, Fields
<1> QED
  BY <1>2, <1>3, <1>4, <1>5, <1>6, <1>7, <1>8 DEF Works

LEMMA MessageWorks ==
  ASSUME Shape, NEW c \in Callers, NEW u, FetchMessage(c, u)
  PROVE  Shape' /\ (\A d \in Callers \ {c} : call'[d] = call[d]) /\ Works(c)
<1>1. Running(c) /\ St(c) = "message"
  BY MessageMoves, AtSt
<1>2. Shape' /\ \A d \in Callers \ {c} : call'[d] = call[d]
  BY MessageMoves DEF Moves
<1>3. FlowWork(c)
  BY <1>1, MessageMoves DEF FlowWork, Hop, Moves, Same, Fields
<1>4. TrustWork(c)
  BY <1>1, MessageMoves DEF TrustWork, Moves, Same, Fields
<1>5. CountWork(c)
  BY <1>1, MessageMoves DEF CountWork, Moves, Same, Fields
<1>6. ReadWork(c)
  BY <1>1, MessageMoves DEF ReadWork, Moves, Same, Fields
<1>7. ListWork(c)
  BY <1>1, MessageMoves DEF ListWork, FoundWork, SelectWork, FallbackWork, Moves, Same, Fields
<1>8. EditWork(c)
  BY <1>1, MessageMoves DEF EditWork, Moves, Same, Fields
<1> QED
  BY <1>2, <1>3, <1>4, <1>5, <1>6, <1>7, <1>8 DEF Works

LEMMA RawWorks ==
  ASSUME Shape, NEW c \in Callers, NEW u, FetchRaw(c, u)
  PROVE  Shape' /\ (\A d \in Callers \ {c} : call'[d] = call[d]) /\ Works(c)
<1>1. Running(c) /\ St(c) = "raw"
  BY RawMoves, AtSt
<1>2. Shape' /\ \A d \in Callers \ {c} : call'[d] = call[d]
  BY RawMoves DEF Moves
<1>3. FlowWork(c)
  BY <1>1, RawMoves DEF FlowWork, Hop, Moves, Same, Fields
<1>4. TrustWork(c)
  BY <1>1, RawMoves DEF TrustWork, Moves, Same, Fields
<1>5. CountWork(c)
  BY <1>1, RawMoves DEF CountWork, Moves, Same, Fields
<1>6. ReadWork(c)
  BY <1>1, RawMoves DEF ReadWork, Moves, Same, Fields
<1>7. ListWork(c)
  BY <1>1, RawMoves DEF ListWork, FoundWork, SelectWork, FallbackWork, Moves, Same, Fields
<1>8. EditWork(c)
  BY <1>1, RawMoves DEF EditWork, Moves, Same, Fields
<1> QED
  BY <1>2, <1>3, <1>4, <1>5, <1>6, <1>7, <1>8 DEF Works

LEMMA SignaturesWorks ==
  ASSUME Shape, NEW c \in Callers, VerifySignatures(c)
  PROVE  Shape' /\ (\A d \in Callers \ {c} : call'[d] = call[d]) /\ Works(c)
<1>1. Running(c) /\ St(c) = "signatures"
  BY SignaturesMoves, AtSt
<1>2. Shape' /\ \A d \in Callers \ {c} : call'[d] = call[d]
  BY SignaturesMoves DEF Moves
<1>3. FlowWork(c)
  BY <1>1, SignaturesMoves DEF FlowWork, Hop, Moves, Same, Fields
<1>4. TrustWork(c)
  BY <1>1, SignaturesMoves DEF TrustWork, Moves, Same, Fields
<1>5. CountWork(c)
  BY <1>1, SignaturesMoves DEF CountWork, Moves, Same, Fields
<1>6. ReadWork(c)
  BY <1>1, SignaturesMoves DEF ReadWork, Moves, Same, Fields
<1>7. ListWork(c)
  BY <1>1, SignaturesMoves DEF ListWork, FoundWork, SelectWork, FallbackWork, Moves, Same, Fields
<1>8. EditWork(c)
  BY <1>1, SignaturesMoves DEF EditWork, Moves, Same, Fields
<1> QED
  BY <1>2, <1>3, <1>4, <1>5, <1>6, <1>7, <1>8 DEF Works

LEMMA VerifyWorks ==
  ASSUME Shape, NEW c \in Callers, VerifyRaw(c)
  PROVE  Shape' /\ (\A d \in Callers \ {c} : call'[d] = call[d]) /\ (Works(c) \/ Stops(c))
<1> SUFFICES ASSUME ~Stops(c) PROVE Shape' /\ (\A d \in Callers \ {c} : call'[d] = call[d]) /\ Works(c)
  BY DEF Stops
<1>1. Running(c) /\ St(c) = "verify"
  BY VerifyMoves, AtSt
<1>2. Shape' /\ \A d \in Callers \ {c} : call'[d] = call[d]
  BY VerifyMoves DEF Moves
<1>3. FlowWork(c)
  BY <1>1, VerifyMoves DEF FlowWork, Hop, Moves, Same, Fields
<1>4. TrustWork(c)
  BY <1>1, VerifyMoves DEF TrustWork, Moves, Same, Fields
<1>5. CountWork(c)
  BY <1>1, VerifyMoves DEF CountWork, Moves, Same, Fields
<1>6. ReadWork(c)
  BY <1>1, VerifyMoves DEF ReadWork, Moves, Same, Fields
<1>7. ListWork(c)
  BY <1>1, VerifyMoves DEF ListWork, FoundWork, SelectWork, FallbackWork, Moves, Same, Fields
<1>8. EditWork(c)
  BY <1>1, VerifyMoves DEF EditWork, Moves, Same, Fields
<1> QED
  BY <1>2, <1>3, <1>4, <1>5, <1>6, <1>7, <1>8 DEF Works

LEMMA ExposeWorks ==
  ASSUME Shape, NEW c \in Callers, Expose(c)
  PROVE  Shape' /\ (\A d \in Callers \ {c} : call'[d] = call[d]) /\ Works(c)
<1>1. Running(c) /\ St(c) = "expose"
  BY ExposeMoves, AtSt
<1>2. Shape' /\ \A d \in Callers \ {c} : call'[d] = call[d]
  BY ExposeMoves DEF Moves
<1>3. FlowWork(c)
  BY <1>1, ExposeMoves DEF FlowWork, Hop, Moves, Same, Fields
<1>4. TrustWork(c)
  BY <1>1, ExposeMoves DEF TrustWork, Moves, Same, Fields
<1>5. CountWork(c)
  BY <1>1, ExposeMoves DEF CountWork, Moves, Same, Fields
<1>6. ReadWork(c)
  BY <1>1, ExposeMoves DEF ReadWork, Moves, Same, Fields
<1>7. ListWork(c)
  BY <1>1, ExposeMoves DEF ListWork, FoundWork, SelectWork, FallbackWork, Moves, Same, Fields
<1>8. EditWork(c)
  BY <1>1, ExposeMoves DEF EditWork, Moves, Same, Fields
<1> QED
  BY <1>2, <1>3, <1>4, <1>5, <1>6, <1>7, <1>8 DEF Works

LEMMA RedactWorks ==
  ASSUME Shape, NEW c \in Callers, Redact(c)
  PROVE  Shape' /\ (\A d \in Callers \ {c} : call'[d] = call[d]) /\ Works(c)
<1>1. Running(c) /\ St(c) = "redact"
  BY RedactMoves, AtSt
<1>2. Shape' /\ \A d \in Callers \ {c} : call'[d] = call[d]
  BY RedactMoves DEF Moves
<1>3. FlowWork(c)
  BY <1>1, RedactMoves DEF FlowWork, Hop, Moves, Same, Fields
<1>4. TrustWork(c)
  BY <1>1, RedactMoves DEF TrustWork, Moves, Same, Fields
<1>5. CountWork(c)
  BY <1>1, RedactMoves DEF CountWork, Moves, Same, Fields
<1>6. ReadWork(c)
  BY <1>1, RedactMoves DEF ReadWork, Moves, Same, Fields
<1>7. ListWork(c)
  BY <1>1, RedactMoves DEF ListWork, FoundWork, SelectWork, FallbackWork, Moves, Same, Fields
<1>8. EditWork(c)
  BY <1>1, RedactMoves DEF EditWork, Moves, Same, Fields
<1> QED
  BY <1>2, <1>3, <1>4, <1>5, <1>6, <1>7, <1>8 DEF Works

LEMMA OneIdWorks ==
  ASSUME Shape, NEW c \in Callers, NEW u, OneId(c, u)
  PROVE  Shape' /\ (\A d \in Callers \ {c} : call'[d] = call[d]) /\ Works(c)
<1>1. Running(c) /\ St(c) = "id"
  BY OneIdMoves, AtSt
<1>2. Shape' /\ \A d \in Callers \ {c} : call'[d] = call[d]
  BY OneIdMoves DEF Moves
<1>3. FlowWork(c)
  BY <1>1, OneIdMoves DEF FlowWork, Hop, Moves, Same, Fields
<1>4. TrustWork(c)
  BY <1>1, OneIdMoves DEF TrustWork, Moves, Same, Fields
<1>5. CountWork(c)
  BY <1>1, OneIdMoves DEF CountWork, Moves, Same, Fields
<1>6. ReadWork(c)
  BY <1>1, OneIdMoves DEF ReadWork, Moves, Same, Fields
<1>7. ListWork(c)
  BY <1>1, OneIdMoves DEF ListWork, FoundWork, SelectWork, FallbackWork, Moves, Same, Fields
<1>8. EditWork(c)
  BY <1>1, OneIdMoves DEF EditWork, Moves, Same, Fields
<1> QED
  BY <1>2, <1>3, <1>4, <1>5, <1>6, <1>7, <1>8 DEF Works

LEMMA ManyIdsWorks ==
  ASSUME Shape, NEW c \in Callers, NEW ids \in IdLists, ManyIds(c, ids)
  PROVE  Shape' /\ (\A d \in Callers \ {c} : call'[d] = call[d]) /\ (Works(c) \/ Stops(c))
<1> SUFFICES ASSUME ~Stops(c) PROVE Shape' /\ (\A d \in Callers \ {c} : call'[d] = call[d]) /\ Works(c)
  BY DEF Stops
<1>1. Running(c) /\ St(c) = "ids"
  BY ManyIdsMoves, AtSt
<1>2. Shape' /\ \A d \in Callers \ {c} : call'[d] = call[d]
  BY ManyIdsMoves DEF Moves
<1>3. FlowWork(c)
  BY <1>1, ManyIdsMoves DEF FlowWork, Hop, Moves, Same, Fields
<1>4. TrustWork(c)
  BY <1>1, ManyIdsMoves DEF TrustWork, Moves, Same, Fields
<1>5. CountWork(c)
  BY <1>1, ManyIdsMoves DEF CountWork, Moves, Same, Fields
<1>6. ReadWork(c)
  BY <1>1, ManyIdsMoves DEF ReadWork, Moves, Same, Fields
<1>7. ListWork(c)
  BY <1>1, ManyIdsMoves DEF ListWork, FoundWork, SelectWork, FallbackWork, Moves, Same, Fields
<1>8. EditWork(c)
  BY <1>1, ManyIdsMoves DEF EditWork, Moves, Same, Fields
<1> QED
  BY <1>2, <1>3, <1>4, <1>5, <1>6, <1>7, <1>8 DEF Works

LEMMA MoveWorks ==
  ASSUME Shape, NEW c \in Callers, MoveMessages(c)
  PROVE  Shape' /\ (\A d \in Callers \ {c} : call'[d] = call[d]) /\ Works(c)
<1>1. Running(c) /\ St(c) = "move"
  BY MoveMoves, AtSt
<1>2. Shape' /\ \A d \in Callers \ {c} : call'[d] = call[d]
  BY MoveMoves DEF Moves
<1>3. FlowWork(c)
  BY <1>1, MoveMoves DEF FlowWork, Hop, Moves, Same, Fields
<1>4. TrustWork(c)
  BY <1>1, MoveMoves DEF TrustWork, Moves, Same, Fields
<1>5. CountWork(c)
  BY <1>1, MoveMoves DEF CountWork, Moves, Same, Fields
<1>6. ReadWork(c)
  BY <1>1, MoveMoves DEF ReadWork, Moves, Same, Fields
<1>7. ListWork(c)
  BY <1>1, MoveMoves DEF ListWork, FoundWork, SelectWork, FallbackWork, Moves, Same, Fields
<1>8. EditWork(c)
  BY <1>1, MoveMoves DEF EditWork, Moves, Same, Fields
<1> QED
  BY <1>2, <1>3, <1>4, <1>5, <1>6, <1>7, <1>8 DEF Works

LEMMA MarkWorks ==
  ASSUME Shape, NEW c \in Callers, NEW flag, SetSeenBatch(c, flag)
  PROVE  Shape' /\ (\A d \in Callers \ {c} : call'[d] = call[d]) /\ Works(c)
<1>1. Running(c) /\ St(c) = "mark"
  BY MarkMoves, AtSt
<1>2. Shape' /\ \A d \in Callers \ {c} : call'[d] = call[d]
  BY MarkMoves DEF Moves
<1>3. FlowWork(c)
  BY <1>1, MarkMoves DEF FlowWork, Hop, Moves, Same, Fields
<1>4. TrustWork(c)
  BY <1>1, MarkMoves DEF TrustWork, Moves, Same, Fields
<1>5. CountWork(c)
  BY <1>1, MarkMoves DEF CountWork, Moves, Same, Fields
<1>6. ReadWork(c)
  BY <1>1, MarkMoves DEF ReadWork, Moves, Same, Fields
<1>7. ListWork(c)
  BY <1>1, MarkMoves DEF ListWork, FoundWork, SelectWork, FallbackWork, Moves, Same, Fields
<1>8. EditWork(c)
  BY <1>1, MarkMoves DEF EditWork, Moves, Same, Fields
<1> QED
  BY <1>2, <1>3, <1>4, <1>5, <1>6, <1>7, <1>8 DEF Works

LEMMA AddWorks ==
  ASSUME Shape, NEW c \in Callers, NEW k, Add(c, k)
  PROVE  Shape' /\ (\A d \in Callers \ {c} : call'[d] = call[d]) /\ (Works(c) \/ Stops(c))
<1> SUFFICES ASSUME ~Stops(c) PROVE Shape' /\ (\A d \in Callers \ {c} : call'[d] = call[d]) /\ Works(c)
  BY DEF Stops
<1>1. Running(c) /\ St(c) = "add"
  BY AddMoves, AtSt
<1>2. Shape' /\ \A d \in Callers \ {c} : call'[d] = call[d]
  BY AddMoves DEF Moves
<1>3. FlowWork(c)
  BY <1>1, AddMoves DEF FlowWork, Hop, Moves, Same, Fields
<1>4. TrustWork(c)
  BY <1>1, AddMoves DEF TrustWork, Moves, Same, Fields
<1>5. CountWork(c)
  BY <1>1, AddMoves DEF CountWork, Moves, Same, Fields
<1>6. ReadWork(c)
  BY <1>1, AddMoves DEF ReadWork, Moves, Same, Fields
<1>7. ListWork(c)
  BY <1>1, AddMoves DEF ListWork, FoundWork, SelectWork, FallbackWork, Moves, Same, Fields
<1>8. EditWork(c)
  BY <1>1, AddMoves DEF EditWork, Moves, Same, Fields
<1> QED
  BY <1>2, <1>3, <1>4, <1>5, <1>6, <1>7, <1>8 DEF Works

LEMMA RemoveWorks ==
  ASSUME Shape, NEW c \in Callers, NEW q, RemoveFound(c, q)
  PROVE  Shape' /\ (\A d \in Callers \ {c} : call'[d] = call[d]) /\ (Works(c) \/ Stops(c))
<1> SUFFICES ASSUME ~Stops(c) PROVE Shape' /\ (\A d \in Callers \ {c} : call'[d] = call[d]) /\ Works(c)
  BY DEF Stops
<1>1. Running(c) /\ St(c) = "remove"
  BY RemoveMoves, AtSt
<1>2. Shape' /\ \A d \in Callers \ {c} : call'[d] = call[d]
  BY RemoveMoves DEF Moves
<1>3. FlowWork(c)
  BY <1>1, RemoveMoves DEF FlowWork, Hop, Moves, Same, Fields
<1>4. TrustWork(c)
  BY <1>1, RemoveMoves DEF TrustWork, Moves, Same, Fields
<1>5. CountWork(c)
  BY <1>1, RemoveMoves DEF CountWork, Moves, Same, Fields
<1>6. ReadWork(c)
  BY <1>1, RemoveMoves DEF ReadWork, Moves, Same, Fields
<1>7. ListWork(c)
  BY <1>1, RemoveMoves DEF ListWork, FoundWork, SelectWork, FallbackWork, Moves, Same, Fields
<1>8. EditWork(c)
  BY <1>1, RemoveMoves DEF EditWork, Moves, Same, Fields
<1> QED
  BY <1>2, <1>3, <1>4, <1>5, <1>6, <1>7, <1>8 DEF Works

LEMMA OpenWorks ==
  ASSUME Shape, NEW c \in Callers, OpenTmp(c)
  PROVE  Shape' /\ (\A d \in Callers \ {c} : call'[d] = call[d]) /\ Works(c)
<1>1. Running(c) /\ St(c) = "open"
  BY OpenMoves, AtSt
<1>2. Shape' /\ \A d \in Callers \ {c} : call'[d] = call[d]
  BY OpenMoves DEF Moves
<1>3. FlowWork(c)
  BY <1>1, OpenMoves DEF FlowWork, Hop, Moves, Same, Fields
<1>4. TrustWork(c)
  BY <1>1, OpenMoves DEF TrustWork, Moves, Same, Fields
<1>5. CountWork(c)
  BY <1>1, OpenMoves DEF CountWork, Moves, Same, Fields
<1>6. ReadWork(c)
  BY <1>1, OpenMoves DEF ReadWork, Moves, Same, Fields
<1>7. ListWork(c)
  BY <1>1, OpenMoves DEF ListWork, FoundWork, SelectWork, FallbackWork, Moves, Same, Fields
<1>8. EditWork(c)
  BY <1>1, OpenMoves DEF EditWork, Moves, Same, Fields
<1> QED
  BY <1>2, <1>3, <1>4, <1>5, <1>6, <1>7, <1>8 DEF Works

LEMMA WriteWorks ==
  ASSUME Shape, NEW c \in Callers, WriteTmp(c)
  PROVE  Shape' /\ (\A d \in Callers \ {c} : call'[d] = call[d]) /\ Works(c)
<1>1. Running(c) /\ St(c) = "write"
  BY WriteMoves, AtSt
<1>2. Shape' /\ \A d \in Callers \ {c} : call'[d] = call[d]
  BY WriteMoves DEF Moves
<1>3. FlowWork(c)
  BY <1>1, WriteMoves DEF FlowWork, Hop, Moves, Same, Fields
<1>4. TrustWork(c)
  BY <1>1, WriteMoves DEF TrustWork, Moves, Same, Fields
<1>5. CountWork(c)
  BY <1>1, WriteMoves DEF CountWork, Moves, Same, Fields
<1>6. ReadWork(c)
  BY <1>1, WriteMoves DEF ReadWork, Moves, Same, Fields
<1>7. ListWork(c)
  BY <1>1, WriteMoves DEF ListWork, FoundWork, SelectWork, FallbackWork, Moves, Same, Fields
<1>8. EditWork(c)
  BY <1>1, WriteMoves DEF EditWork, Moves, Same, Fields
<1> QED
  BY <1>2, <1>3, <1>4, <1>5, <1>6, <1>7, <1>8 DEF Works
LEMMA SearchWorks ==
  ASSUME Shape, NEW c \in Callers, Search(c)
  PROVE  Shape' /\ (\A d \in Callers \ {c} : call'[d] = call[d]) /\ Works(c)
<1>1. Running(c) /\ St(c) = "search" /\ Found(c, 2, call[c].q)
  BY AtSt DEF Search
<1> DEFINE q == call[c].q
           uids == UIDSearch(q, inbox, seen)
           sel == window(uids, call[c].page.count, call[c].page.offset)
           n == IF sel = <<>> THEN 2 + 1 ELSE 2
<1>2. /\ Moves(c, n, {"q", "sel", "total", "at", "unseen"})
      /\ call'[c].q = q /\ call'[c].sel = sel /\ call'[c].total = Len(uids)
      /\ call'[c].at = inbox /\ call'[c].unseen = Range(inbox) \ seen
  BY <1>1, FoundMoves
<1>3. n \in {2, 2 + 1}
  OBVIOUS
<1>4. FoundWork(c, 2, q)
  BY <1>2 DEF FoundWork, Moves, Same, Fields
<1> HIDE DEF q, uids, sel, n
<1>5. FlowWork(c)
  BY <1>1, <1>2, <1>3 DEF FlowWork, Hop, Moves, Same, Fields
<1>6. TrustWork(c) /\ CountWork(c) /\ ReadWork(c) /\ EditWork(c)
  BY <1>1, <1>2 DEF TrustWork, CountWork, ReadWork, EditWork, Moves, Same, Fields
<1>7. ListWork(c)
  BY <1>1, <1>2, <1>4 DEF ListWork, q, Moves, Same, Fields
<1> QED
  BY <1>2, <1>5, <1>6, <1>7 DEF Works, Moves

LEMMA RetryWorks ==
  ASSUME Shape, NEW c \in Callers, Retry(c)
  PROVE  Shape' /\ (\A d \in Callers \ {c} : call'[d] = call[d]) /\ Works(c)
<1>1. Running(c) /\ St(c) = "retry" /\ Found(c, 1, [call[c].q EXCEPT !.repo = FALSE])
  BY AtSt DEF Retry
<1> DEFINE q == [call[c].q EXCEPT !.repo = FALSE]
           uids == UIDSearch(q, inbox, seen)
           sel == window(uids, call[c].page.count, call[c].page.offset)
           n == IF sel = <<>> THEN 1 + 1 ELSE 1
<1>2. /\ Moves(c, n, {"q", "sel", "total", "at", "unseen"})
      /\ call'[c].q = q /\ call'[c].sel = sel /\ call'[c].total = Len(uids)
      /\ call'[c].at = inbox /\ call'[c].unseen = Range(inbox) \ seen
  BY <1>1, FoundMoves
<1>3. n \in {1, 1 + 1}
  OBVIOUS
<1>4. FoundWork(c, 1, q)
  BY <1>2 DEF FoundWork, Moves, Same, Fields
<1> HIDE DEF q, uids, sel, n
<1>5. FlowWork(c)
  BY <1>1, <1>2, <1>3 DEF FlowWork, Hop, Moves, Same, Fields
<1>6. TrustWork(c) /\ CountWork(c) /\ ReadWork(c) /\ EditWork(c)
  BY <1>1, <1>2 DEF TrustWork, CountWork, ReadWork, EditWork, Moves, Same, Fields
<1>7. ListWork(c)
  BY <1>1, <1>2, <1>4 DEF ListWork, q, Moves, Same, Fields
<1> QED
  BY <1>2, <1>5, <1>6, <1>7 DEF Works, Moves

LEMMA PlainWorks ==
  ASSUME Shape, NEW c \in Callers,
         \/ LoadConfig(c) \/ TruncateConfig(c) \/ (\E h \in Handles : NameIdentity(c, h))
         \/ Gate(c) \/ (\E k \in PartNumbers : Extract(c, k))
  PROVE  Shape' /\ (\A d \in Callers \ {c} : call'[d] = call[d]) /\ (Works(c) \/ Stops(c))
<1> SUFFICES ASSUME ~Stops(c) PROVE Shape' /\ (\A d \in Callers \ {c} : call'[d] = call[d]) /\ Works(c)
  BY DEF Stops
<1>1. Running(c) /\ St(c) \in {"config", "truncate", "name", "gate", "extract"}
  BY PlainMoves, AtSt
<1>2. Moves(c, 1, {})
  BY PlainMoves
<1>3. ASSUME St(c) = "gate" PROVE May(c, call[c].rows[1])
  <2>1. Gate(c)
    BY <1>3, AtSt DEF LoadConfig, TruncateConfig, NameIdentity, Extract
  <2>2. ~Fail(c)
    BY FailStops
  <2> QED
    BY <2>1, <2>2 DEF Gate
<1>4. FlowWork(c)
  BY <1>1, <1>2 DEF FlowWork, Hop, Moves, Same, Fields
<1>5. TrustWork(c) /\ CountWork(c) /\ ListWork(c) /\ EditWork(c)
  BY <1>1, <1>2 DEF TrustWork, CountWork, ListWork, EditWork, Moves, Same, Fields
<1>6. ReadWork(c)
  BY <1>1, <1>2, <1>3 DEF ReadWork, Moves, Same, Fields
<1> QED
  BY <1>2, <1>4, <1>5, <1>6 DEF Works, Moves

LEMMA RenameWorks ==
  ASSUME Shape, NEW c \in Callers, Rename(c)
  PROVE  Shape' /\ (\A d \in Callers \ {c} : Steady(d)) /\ Works(c)
<1>1. Running(c) /\ St(c) = "rename"
  BY RenameMoves, AtSt
<1>2. FlowWork(c)
  BY <1>1, RenameMoves DEF FlowWork, Hop, Same, Fields
<1>3. TrustWork(c) /\ CountWork(c) /\ ReadWork(c) /\ ListWork(c) /\ EditWork(c)
  BY <1>1, RenameMoves DEF TrustWork, CountWork, ReadWork, ListWork, EditWork, Same, Fields
<1>4. \A d \in Callers \ {c} : Steady(d)
  BY RenameMoves DEF Steady, Same
<1> QED
  BY <1>2, <1>3, <1>4, RenameMoves DEF Works

-----------------------------------------------------------------------------
(* Every step is a stage of one caller, its beginning or its end; all other *)
(* calls stay, save for what they have open.                                *)

Alike(d) == \A c \in Callers \ {d} : call'[c] = call[c]

Acts(d) ==
    /\ \A c \in Callers \ {d} : Steady(c)
    /\ Works(d) \/ Starts(d) \/ Stops(d)

Rests == \A c \in Callers : Steady(c)

\* The call of d is the only one that changes.
ActsAlone(d) == Alike(d) /\ (Works(d) \/ Starts(d) \/ Stops(d))

LEMMA SameSteady ==
  ASSUME NEW c, call'[c] = call[c]
  PROVE  Steady(c)
  BY DEF Steady, Same

LEMMA AloneActs ==
  ASSUME NEW d \in Callers, ActsAlone(d)
  PROVE  Acts(d)
  BY SameSteady DEF Acts, ActsAlone, Alike

LEMMA ResolvingActs ==
  ASSUME Shape, NEW d \in Callers, Resolving(d)
  PROVE  Shape' /\ ActsAlone(d)
  BY IdentityWorks, StatWorks, CreateWorks, FillWorks, FillFailsWorks, LoadWorks, PlainWorks
     DEF Resolving, ActsAlone, Alike

LEMMA ListingActs ==
  ASSUME Shape, NEW d \in Callers, Listing(d)
  PROVE  Shape' /\ ActsAlone(d)
<1>1. CASE \E q \in Queries, p \in Pages : Select(d, q, p)
  BY <1>1, SelectWorks DEF ActsAlone, Alike
<1>2. CASE Search(d) \/ searchFallback(d) \/ Retry(d) \/ Fetch(d)
  BY <1>2, SearchWorks, FallbackWorks, RetryWorks, FetchWorks DEF ActsAlone, Alike
<1>3. CASE ServerFails(d)
  BY <1>3, FailureStops DEF Stops, ActsAlone, Alike
<1> QED
  BY <1>1, <1>2, <1>3 DEF Listing

LEMMA ReadingActs ==
  ASSUME Shape, NEW d \in Callers, Reading(d)
  PROVE  Shape' /\ ActsAlone(d)
<1>1. CASE \E u \in DOMAIN Mail : FetchMessage(d, u) \/ FetchRaw(d, u)
  BY <1>1, MessageWorks, RawWorks DEF ActsAlone, Alike
<1>2. CASE Gate(d) \/ \E k \in PartNumbers : Extract(d, k)
  BY <1>2, PlainWorks DEF ActsAlone, Alike
<1>3. CASE VerifySignatures(d) \/ VerifyRaw(d) \/ Expose(d) \/ Redact(d)
  BY <1>3, SignaturesWorks, VerifyWorks, ExposeWorks, RedactWorks DEF ActsAlone, Alike
<1> QED
  BY <1>1, <1>2, <1>3 DEF Reading

LEMMA ChangingActs ==
  ASSUME Shape, NEW d \in Callers, Changing(d), ~Rename(d)
  PROVE  Shape' /\ ActsAlone(d)
<1>1. CASE \/ \E u \in DOMAIN Mail : OneId(d, u)
           \/ \E ids \in IdLists : ManyIds(d, ids)
           \/ MoveMessages(d)
           \/ \E flag \in BOOLEAN : SetSeenBatch(d, flag)
  BY <1>1, OneIdWorks, ManyIdsWorks, MoveWorks, MarkWorks DEF ActsAlone, Alike
<1>2. CASE (\E n \in Newcomers : Add(d, n)) \/ \E q \in Names \cup Exact : RemoveFound(d, q)
  BY <1>2, AddWorks, RemoveWorks DEF ActsAlone, Alike
<1>3. CASE OpenTmp(d) \/ WriteTmp(d)
  BY <1>3, OpenWorks, WriteWorks DEF ActsAlone, Alike
<1>4. CASE WriteFails(d) \/ RenameFails(d)
  BY <1>4, FailureStops DEF Stops, ActsAlone, Alike
<1> QED
  BY <1>1, <1>2, <1>3, <1>4 DEF Changing

LEMMA EndsAct ==
  ASSUME Shape, NEW d \in Callers, Finish(d) \/ Crash(d) \/ \E t \in DOMAIN Handlers : Begin(d, t)
  PROVE  Shape' /\ ActsAlone(d)
  BY BeginStarts, EndStops DEF Starts, Stops, ActsAlone, Alike

LEMMA StepActs ==
  ASSUME Shape, Step
  PROVE  Shape' /\ (Rests \/ \E d \in Callers : Acts(d))
<1>1. ASSUME NEW d \in Callers, Rename(d) PROVE Shape' /\ Acts(d)
  BY <1>1, RenameWorks DEF Acts
<1>2. CASE (\E h \in Handles \cup {""} : switchIdentity(h)) \/ Arrive
  <2>1. call' = call
    BY <1>2 DEF switchIdentity, Arrive
  <2> QED
    BY <2>1, SameSteady DEF Shape, Rests
<1> QED
  BY <1>1, <1>2, ResolvingActs, ListingActs, ReadingActs, ChangingActs, EndsAct, AloneActs DEF Step
-----------------------------------------------------------------------------
(* Where a call goes *)

\* EnsureIdentityDir ends at its end; a stage that cannot skip any goes on to
\* the next.
Lands(c) ==
    LET t == call[c].tool
        b == Base(t)
    IN  /\ t # "identity_set" /\ call[c].pc \in b..(b + 6) =>
             call'[c].pc \in (call[c].pc + 1)..(b + 7) /\ ~call'[c].ok
        /\ St(c) \in {"identity", "stat", "create", "fill"} =>
             t # "identity_set" /\ call[c].pc \in b..(b + 6)
        /\ St(c) \notin {"identity", "stat", "create", "fill", "select", "search", "retry", "ids"} =>
             Advances(c, 1)
        /\ St(c) = "ids" => Advances(c, 1) \/ (call'[c].pc = 0 /\ call'[c].ok)

LEMMA Placed ==
  ASSUME NEW c \in Callers, FlowInv(c), Running(c)
  PROVE  /\ call[c].tool \in DOMAIN Handlers
         /\ Layout(call[c].tool) /\ Places(call[c].tool)
         /\ call[c].pc \in 1..Len(Handlers[call[c].tool])
         /\ Base(call[c].tool) \in {1, 2}
<1>1. call[c].tool \in DOMAIN Handlers
  BY DEF FlowInv
<1>2. Layout(call[c].tool) /\ Places(call[c].tool)
  BY <1>1, LayoutIs
<1>3. call[c].pc \in 1..Len(Handlers[call[c].tool])
  BY <1>2 DEF FlowInv, Running, Layout
<1> QED
  BY <1>1, <1>2, <1>3 DEF Base

LEMMA WorksLands ==
  ASSUME NEW c \in Callers, FlowInv(c), FlowWork(c)
  PROVE  Lands(c)
<1> DEFINE t == call[c].tool
           b == Base(t)
           h == Handlers[t]
           pc == call[c].pc
<1>1. /\ Layout(t) /\ pc \in 1..Len(h) /\ b \in {1, 2} /\ Running(c)
  BY Placed DEF FlowWork
<1>2. Len(h) \in Nat /\ St(c) = h[pc]
  BY <1>1 DEF Layout, St
<1>3. St(c) \in {"identity", "stat", "create", "fill"} => t # "identity_set" /\ pc \in b..(b + 6)
  <2>1. /\ h[pc] = "identity" => t # "identity_set" /\ pc = b
        /\ h[pc] = "stat" => t # "identity_set" /\ (pc = b + 1 \/ pc = b + 4)
        /\ h[pc] = "create" => t # "identity_set" /\ (pc = b + 2 \/ pc = b + 5)
        /\ h[pc] = "fill" => t # "identity_set" /\ (pc = b + 3 \/ pc = b + 6)
    BY <1>1 DEF Layout
  <2> HIDE DEF h, b, t
  <2> QED
    BY <1>1, <1>2, <2>1
<1>4. ASSUME t # "identity_set", pc \in b..(b + 6)
      PROVE  call'[c].pc \in (pc + 1)..(b + 7) /\ ~call'[c].ok
  <2>1. Len(h) >= b + 7
    BY <1>1, <1>4 DEF Layout
  <2>2. ASSUME NEW n \in 1..7, pc + n <= b + 7, Advances(c, n)
        PROVE  call'[c].pc \in (pc + 1)..(b + 7) /\ ~call'[c].ok
    <3>1. ~(pc + n > Len(h))
      <4> HIDE DEF h, b, pc
      <4> QED
        BY <1>1, <1>2, <2>1, <2>2
    <3>2. call'[c].pc = pc + n /\ ~call'[c].ok
      BY <2>2, <3>1 DEF Advances
    <3> HIDE DEF h, b, pc
    <3> QED
      BY <1>1, <1>2, <2>2, <3>2
  <2>3. PICK n : Hop(c, n) /\ Advances(c, n)
    BY DEF FlowWork
  <2>4. /\ pc = b => St(c) = "identity"
        /\ pc = b + 1 => St(c) = "stat"
        /\ pc = b + 2 => St(c) = "create" /\ Unmigrated(c) = 5
        /\ pc = b + 3 => St(c) = "fill" /\ Unmigrated(c) = 5
        /\ pc = b + 4 => St(c) = "stat"
        /\ pc = b + 5 => St(c) = "create" /\ Unmigrated(c) = 2
        /\ pc = b + 6 => St(c) = "fill" /\ Unmigrated(c) = 2
    <3>1. /\ pc = b => St(c) = "identity"
          /\ pc = b + 1 => St(c) = "stat"
          /\ pc = b + 2 => St(c) = "create"
          /\ pc = b + 3 => St(c) = "fill"
          /\ pc = b + 4 => St(c) = "stat"
          /\ pc = b + 5 => St(c) = "create"
          /\ pc = b + 6 => St(c) = "fill"
      BY <1>1, <1>2, <1>4 DEF Layout
    <3>2. /\ pc - b <= 3 => Unmigrated(c) = 5
          /\ pc - b \in 4..6 => Unmigrated(c) = 2
      BY <1>1, <1>4 DEF FlowInv, Unmigrated
    <3> QED
      BY <3>1, <3>2, <1>1, <1>2
  <2>5. n \in 1..7 /\ pc + n <= b + 7
    <3>1. /\ n \in {1, 7} \/ St(c) # "identity"
          /\ n \in {1, 3} \/ St(c) # "stat"
          /\ n \in {1, Unmigrated(c)} \/ St(c) # "create"
          /\ n \in {1, Unmigrated(c) - 1} \/ St(c) # "fill"
      BY <2>3 DEF Hop
    <3> HIDE DEF b, pc
    <3> QED
      BY <1>1, <1>4, <2>4, <3>1
  <2> QED
    BY <2>2, <2>3, <2>5
<1>5. ASSUME St(c) \notin {"identity", "stat", "create", "fill", "select", "search", "retry", "ids"}
      PROVE  Advances(c, 1)
  BY <1>5 DEF FlowWork, Hop
<1>6. ASSUME St(c) = "ids"
      PROVE  Advances(c, 1) \/ (call'[c].pc = 0 /\ call'[c].ok)
  <2>1. Advances(c, 1) \/ Advances(c, Len(h))
    BY <1>6 DEF FlowWork, Hop
  <2>2. pc + Len(h) > Len(h)
    BY <1>1, <1>2
  <2> QED
    BY <2>1, <2>2 DEF Advances
<1> QED
  BY <1>3, <1>4, <1>5, <1>6 DEF Lands

LEMMA FlowWorks ==
  ASSUME NEW c \in Callers, FlowInv(c), FlowWork(c)
  PROVE  FlowInv(c)'
<1> DEFINE t == call[c].tool
           b == Base(t)
           h == Handlers[t]
           pc == call[c].pc
<1>1. /\ Layout(t) /\ pc \in 1..Len(h) /\ b \in {1, 2} /\ Running(c) /\ Lands(c)
      /\ t \in DOMAIN Handlers /\ t # None
  BY Placed, WorksLands DEF FlowWork, FlowInv
<1>2. Len(h) \in Nat /\ St(c) = h[pc] /\ call'[c].tool = t
  BY <1>1 DEF Layout, St, FlowWork
<1>3. ASSUME NEW n \in Nat, Advances(c, n)
      PROVE  /\ call'[c].pc \in Nat
             /\ call'[c].pc <= Len(h)
             /\ call'[c].ok => call'[c].pc = 0
  <2>1. CASE pc + n > Len(h)
    <3>1. call'[c].pc = 0 /\ call'[c].ok = TRUE
      BY <1>3, <2>1 DEF Advances
    <3>3. Len(h) \in Nat
      BY <1>2
    <3> HIDE DEF h
    <3> QED
      BY <3>1, <3>3
  <2>2. CASE ~(pc + n > Len(h))
    <3>a. ~call'[c].ok
      BY <1>3, <2>2 DEF Advances
    <3>b. call'[c].pc = pc + n
      BY <1>3, <2>2 DEF Advances
    <3> HIDE DEF pc, h
    <3>2. pc + n <= Len(h) /\ pc + n \in Nat
      BY <1>1, <1>2, <2>2
    <3> QED
      BY <3>a, <3>b, <3>2
  <2> QED
    BY <2>1, <2>2
<1>4. PICK n : Hop(c, n) /\ Advances(c, n)
  BY DEF FlowWork
<1>5. n \in Nat
  BY <1>2, <1>4 DEF Hop, Unmigrated
<1>6. ASSUME t # "identity_set", call'[c].pc > 0
      PROVE  /\ call'[c].pc - b <= 3 => call'[c].file = "email.json"
             /\ call'[c].pc - b \in 4..6 => call'[c].file = "contacts.json"
  <2>1. CASE pc \in b..(b + 6)
    <3>1. call'[c].pc \in (pc + 1)..(b + 7)
      BY <1>1, <1>6, <2>1 DEF Lands
    <3>2. /\ pc - b <= 3 => call[c].file = "email.json" /\ Unmigrated(c) = 5
          /\ pc - b \in 4..6 => call[c].file = "contacts.json" /\ Unmigrated(c) = 2
      BY <1>1, <1>6 DEF FlowInv, Unmigrated
    <3>a. Len(h) >= b + 7
      BY <1>1, <1>6 DEF Layout
    <3>b. \A m \in Nat : Advances(c, m) /\ pc + m <= b + 7 => call'[c].pc = pc + m
      BY <1>1, <1>2, <3>a DEF Advances
    <3>3. CASE pc = b
      <4>1. St(c) = "identity"
        BY <1>1, <1>2, <1>6, <3>3 DEF Layout
      <4>2. (n = 1 \/ n = 7) /\ call'[c].file = call[c].file
        BY <1>4, <4>1 DEF Hop, FlowWork
      <4>3. call'[c].pc = pc + n
        BY <1>1, <1>4, <3>b, <3>3, <4>2
      <4> QED
        BY <1>1, <3>2, <3>3, <4>2, <4>3
    <3>4. CASE pc = b + 1 \/ pc = b + 4
      <4>1. St(c) = "stat"
        BY <1>1, <1>2, <1>6, <3>4 DEF Layout
      <4>2. \/ Advances(c, 1) /\ call'[c].file = call[c].file
            \/ Advances(c, 3) /\ call'[c].file = "contacts.json"
        BY <4>1 DEF FlowWork
      <4>3. \/ call'[c].pc = pc + 1 /\ call'[c].file = call[c].file
            \/ call'[c].pc = pc + 3 /\ call'[c].file = "contacts.json"
        BY <1>1, <3>b, <3>4, <4>2
      <4> HIDE DEF b, pc
      <4> QED
        BY <1>1, <3>2, <3>4, <4>3
    <3>5. CASE pc = b + 2 \/ pc = b + 5
      <4>1. St(c) = "create"
        BY <1>1, <1>2, <1>6, <3>5 DEF Layout
      <4>2. (n = 1 \/ n = Unmigrated(c)) /\ call'[c].file = call[c].file
        BY <1>4, <4>1 DEF Hop, FlowWork
      <4>3. call'[c].pc = pc + n
        <5> HIDE DEF b, pc
        <5>1. n \in Nat /\ pc + n <= b + 7
          BY <1>1, <3>2, <3>5, <4>2
        <5> QED
          BY <1>4, <3>b, <5>1
      <4> HIDE DEF b, pc
      <4>4. call'[c].pc = b + 3 \/ call'[c].pc = b + 6 \/ call'[c].pc = b + 7
        BY <1>1, <3>2, <3>5, <4>2, <4>3
      <4>5. call'[c].pc = b + 3 => pc = b + 2
        BY <1>1, <3>2, <3>5, <4>2, <4>3
      <4>6. call'[c].pc = b + 6 => pc = b + 5
        BY <1>1, <3>2, <3>5, <4>2, <4>3
      <4> QED
        BY <1>1, <3>2, <3>5, <4>2, <4>4, <4>5, <4>6
    <3>6. CASE pc = b + 3 \/ pc = b + 6
      <4>1. St(c) = "fill"
        BY <1>1, <1>2, <1>6, <3>6 DEF Layout
      <4>2. \/ Advances(c, 1) /\ call'[c].file = "contacts.json"
            \/ Advances(c, Unmigrated(c) - 1)
        BY <4>1 DEF FlowWork
      <4> DEFINE rest == Unmigrated(c) - 1
      <4>r. rest \in Nat /\ pc \in Nat /\ b \in Nat /\ pc + rest = b + 7 /\ pc + 1 <= b + 7
        BY <1>1, <3>2, <3>6
      <4>3. \/ call'[c].pc = pc + 1 /\ call'[c].file = "contacts.json"
            \/ call'[c].pc = b + 7
        <5>1. CASE Advances(c, 1) /\ call'[c].file = "contacts.json"
          BY <3>b, <4>r, <5>1
        <5>2. CASE Advances(c, rest)
          <6> HIDE DEF rest, b, pc
          <6> QED
            BY <3>b, <4>r, <5>2
        <5> QED
          BY <4>2, <5>1, <5>2
      <4> HIDE DEF rest
      <4> QED
        BY <1>1, <3>2, <3>6, <4>3
    <3> QED
      BY <1>1, <2>1, <3>3, <3>4, <3>5, <3>6
  <2>2. CASE pc < b
    <3>1. pc = 1 /\ b = 2
      BY <1>1, <2>2
    <3>2. St(c) \notin {"identity", "stat", "create", "fill"}
      BY <1>1, <2>2 DEF Lands
    <3>3. t = "mark" /\ h[1] = "ids"
      BY <3>1, <1>1, Stages_markCmd DEF Base, Handlers
    <3>4. St(c) = "ids"
      BY <1>2, <3>1, <3>3
    <3>5. Advances(c, 1) /\ call'[c].file = call[c].file
      BY <1>1, <1>6, <3>4 DEF Lands, FlowWork
    <3>6. call'[c].pc = 2
      BY <1>6, <3>1, <3>5 DEF Advances
    <3>7. call[c].file = "email.json"
      BY <1>1, <1>6, <3>1 DEF FlowInv
    <3> QED
      BY <3>1, <3>5, <3>6, <3>7
  <2>3. CASE pc > b + 6
    <3>1. n >= 1
      <4>1. St(c) \notin {"create", "fill"}
        BY <1>1, <2>3 DEF Lands
      <4> QED
        BY <1>1, <1>2, <1>4, <4>1 DEF Hop
    <3>2. call'[c].pc = pc + n
      BY <1>4, <1>6 DEF Advances
    <3> QED
      BY <1>1, <1>5, <2>3, <3>1, <3>2
  <2> QED
    BY <1>1, <2>1, <2>2, <2>3
<1>7. call'[c].tool \in DOMAIN Handlers \cup {None} /\ call'[c].tool # None
  BY <1>1, <1>2
<1> QED
  BY <1>2, <1>3, <1>4, <1>5, <1>6, <1>7 DEF FlowInv, Running

LEMMA StartsAs ==
  ASSUME NEW c, Starts(c)
  PROVE  /\ call'[c].tool \in DOMAIN Handlers /\ call'[c].pc = 1
         /\ \A f \in Fields \ {"tool", "pc"} : call'[c][f] = Idle[f]
         /\ call'[c].ok = FALSE
<1>1. PICK t \in DOMAIN Handlers : call'[c] = [Idle EXCEPT !.tool = t, !.pc = 1]
  BY DEF Starts
<1>2. Idle.ok = FALSE
  BY DEF Idle
<1> DEFINE r == [Idle EXCEPT !.tool = t, !.pc = 1]
<1>3. /\ \A f \in Fields \ {"tool", "pc"} : r[f] = Idle[f]
      /\ r.tool = t /\ r.pc = 1
  <2>1. DOMAIN Idle = Fields
    BY IdleShape
  <2> QED
    BY <2>1 DEF Fields
<1>4. call'[c] = r
  BY <1>1
<1> HIDE DEF r
<1>5. "ok" \in Fields \ {"tool", "pc"}
  BY DEF Fields
<1> QED
  BY <1>2, <1>3, <1>4, <1>5

LEMMA StopsAs ==
  ASSUME NEW c, Stops(c)
  PROVE  /\ call'[c].tool = None \/ call'[c].tool = call[c].tool
         /\ call'[c].pc = 0 /\ call'[c].ok = FALSE
         /\ \A f \in Fields \ {"tool"} : call'[c][f] = Idle[f]
<1> DEFINE r == [Idle EXCEPT !.tool = call[c].tool]
<1>1. Idle.ok = FALSE /\ Idle.pc = 0 /\ Idle.tool = None
  BY DEF Idle
<1>2. (\A f \in Fields \ {"tool"} : r[f] = Idle[f]) /\ r.tool = call[c].tool
  <2>1. DOMAIN Idle = Fields
    BY IdleShape
  <2> QED
    BY <2>1 DEF Fields
<1>3. call'[c] = Idle \/ call'[c] = r
  BY DEF Stops
<1> HIDE DEF r
<1>4. {"ok", "pc"} \subseteq Fields \ {"tool"}
  BY DEF Fields
<1> QED
  BY <1>1, <1>2, <1>3, <1>4

\* A call that begins or breaks off has nothing yet.
LEMMA ResetAs ==
  ASSUME NEW c, Starts(c) \/ Stops(c)
  PROVE  \A f \in Fields \ {"tool", "pc"} : call'[c][f] = Idle[f]
  BY StartsAs, StopsAs

LEMMA FlowStep ==
  ASSUME Shape, Step, \A c \in Callers : FlowInv(c)
  PROVE  \A c \in Callers : FlowInv(c)'
<1>1. ASSUME NEW c \in Callers, Steady(c) PROVE FlowInv(c)'
  <2>1. /\ call'[c].tool = call[c].tool /\ call'[c].pc = call[c].pc
        /\ call'[c].ok = call[c].ok /\ call'[c].file = call[c].file
    BY <1>1 DEF Steady, Same, Fields
  <2> QED
    BY <2>1 DEF FlowInv, Running
<1>2. ASSUME NEW c \in Callers, Starts(c) PROVE FlowInv(c)'
  <2>1. call'[c].file = "email.json"
    <3>1. "file" \in Fields \ {"tool", "pc"} /\ Idle.file = "email.json"
      BY DEF Fields, Idle
    <3> QED
      BY <1>2, <3>1, ResetAs
  <2>2. call'[c].tool \in DOMAIN Handlers /\ call'[c].pc = 1 /\ call'[c].ok = FALSE
    BY <1>2, StartsAs
  <2>3. call'[c].tool # None
    BY <2>2 DEF Handlers, None
  <2>4. 1 <= Len(Handlers[call'[c].tool]) /\ Base(call'[c].tool) \in {1, 2}
    BY <2>2, LayoutIs DEF Layout, Base
  <2>5. ~call'[c].ok
    BY <2>2
  <2> QED
    BY <2>1, <2>2, <2>3, <2>4, <2>5 DEF FlowInv, Running
<1>3. ASSUME NEW c \in Callers, Stops(c) PROVE FlowInv(c)'
  <2>1. call'[c].tool \in {None, call[c].tool} /\ call'[c].pc = 0 /\ call'[c].ok = FALSE
    BY <1>3, StopsAs
  <2>2. ~call'[c].ok
    BY <2>1
  <2>3. ~(call'[c].pc > 0)
    BY <2>1
  <2> QED
    BY <2>1, <2>2, <2>3 DEF FlowInv, Running
<1> QED
  BY <1>1, <1>2, <1>3, FlowWorks, StepActs DEF Rests, Acts, Works
-----------------------------------------------------------------------------
(* Pages of a folder *)

\* r is s from a to b.
Part(r, s, a, b) ==
    /\ Len(r) = IF a <= b THEN b - a + 1 ELSE 0
    /\ \A i \in 1..Len(r) : r[i] = s[a + i - 1]
    /\ \A x : x \in Range(r) <=> \E i \in a..b : x = s[i]

LEMMA SubSeqIs ==
  ASSUME NEW X, NEW s \in Seq(X), NEW a \in Nat \ {0}, NEW b \in Nat, b <= Len(s),
         NEW r, r = SubSeq(s, a, b)
  PROVE  r \in Seq(X) /\ Part(r, s, a, b)
<1>1. /\ r \in Seq(X)
      /\ Len(r) = IF a <= b THEN b - a + 1 ELSE 0
      /\ \A i \in 1..Len(r) : r[i] = s[a + i - 1]
  OBVIOUS
<1>2. DOMAIN r = 1..Len(r) /\ Len(r) \in Nat
  BY <1>1
<1>3. ASSUME NEW i \in a..b PROVE s[i] \in Range(r)
  <2>1. i - a + 1 \in 1..Len(r) /\ r[i - a + 1] = s[i]
    BY <1>1, <1>2
  <2> QED
    BY <1>2, <2>1 DEF Range
<1>4. ASSUME NEW i \in 1..Len(r) PROVE a + i - 1 \in a..b
  BY <1>1, <1>2
<1>5. ASSUME NEW x \in Range(r) PROVE \E i \in a..b : x = s[i]
  <2>1. PICK i \in 1..Len(r) : x = r[i]
    BY <1>2 DEF Range
  <2> QED
    BY <1>1, <1>4, <2>1
<1>6. \A x : x \in Range(r) <=> \E i \in a..b : x = s[i]
  BY <1>3, <1>5
<1> QED
  BY <1>1, <1>6 DEF Part

LEMMA SubSeqIncreasing ==
  ASSUME NEW s, Folder(s), NEW a \in Nat \ {0}, NEW b \in Nat, b <= Len(s)
  PROVE  Folder(SubSeq(s, a, b))
<1> DEFINE r == SubSeq(s, a, b)
<1>1. s \in Seq(Nat)
  BY DEF Folder
<1>0. r = SubSeq(s, a, b)
  OBVIOUS
<1> HIDE DEF r
<1>2. /\ r \in Seq(Nat)
      /\ Len(r) = IF a <= b THEN b - a + 1 ELSE 0
      /\ \A i \in 1..Len(r) : r[i] = s[a + i - 1]
  <2>1. r \in Seq(Nat) /\ Part(r, s, a, b)
    BY <1>0, <1>1, SubSeqIs
  <2> QED
    BY <2>1 DEF Part
<1>3. DOMAIN r = 1..Len(r) /\ DOMAIN s = 1..Len(s) /\ Len(r) \in Nat /\ Len(s) \in Nat
  BY <1>1, <1>2
<1>4. ASSUME NEW i \in DOMAIN r, NEW j \in DOMAIN r, i < j
      PROVE  r[i] < r[j]
  <2>1. a + i - 1 \in DOMAIN s /\ a + j - 1 \in DOMAIN s /\ a + i - 1 < a + j - 1
    <3>1. i \in 1..Len(r) /\ j \in 1..Len(r) /\ i < j
      BY <1>3, <1>4
    <3>2. Len(r) = IF a <= b THEN b - a + 1 ELSE 0
      BY <1>2
    <3>3. Len(s) \in Nat /\ Len(r) \in Nat /\ DOMAIN s = 1..Len(s)
      BY <1>3
    <3>4. a <= b /\ i <= b - a + 1 /\ j <= b - a + 1
      BY <3>1, <3>2, <3>3
    <3> QED
      BY <3>1, <3>3, <3>4
  <2>2. s[a + i - 1] < s[a + j - 1]
    BY <2>1 DEF Folder, Increasing
  <2>3. r[i] = s[a + i - 1] /\ r[j] = s[a + j - 1]
    BY <1>2, <1>3
  <2> QED
    BY <2>2, <2>3
<1> QED
  BY <1>2, <1>4 DEF Folder, Increasing, r

Sizes == [count : Nat, offset : Nat]

LEMMA WindowIs ==
  ASSUME NEW s, Folder(s), NEW p \in Sizes
  PROVE  LET r == window(s, p.count, p.offset)
         IN  /\ Folder(r) /\ Len(r) \in Nat /\ Len(r) <= p.count
             /\ Range(r) = PageOf(s, p)
             /\ r = <<>> => PageOf(s, p) = {}
<1> DEFINE k == p.count
           o == p.offset
           r == window(s, k, o)
           end == Len(s) - o
           start == IF end > k THEN end - k ELSE 0
<1>1. k \in Nat /\ o \in Nat /\ s \in Seq(Nat) /\ Len(s) \in Nat /\ DOMAIN s = 1..Len(s)
  BY DEF Sizes, Folder
<1>2. PageOf(s, p) = {s[i] : i \in {j \in 1..Len(s) : Len(s) - j \in o..(o + k - 1)}}
  BY <1>1 DEF PageOf
<1>3. r = IF end <= 0 \/ k <= 0 THEN <<>> ELSE SubSeq(s, start + 1, end)
  BY DEF window
<1> HIDE DEF r, k, o
<1>4. CASE end <= 0 \/ k <= 0
  <2>1. r = <<>>
    BY <1>3, <1>4
  <2>2. \A j \in 1..Len(s) : Len(s) - j \notin o..(o + k - 1)
    BY <1>1, <1>4
  <2>3. PageOf(s, p) = {}
    BY <1>2, <2>2
  <2>4. Folder(<<>>) /\ Len(<<>>) = 0 /\ Range(<<>>) = {}
    BY DEF Folder, Increasing, Range
  <2> QED
    BY <1>1, <2>1, <2>3, <2>4 DEF r, k, o
<1>5. CASE ~(end <= 0 \/ k <= 0)
  <2>1. /\ start + 1 \in Nat \ {0} /\ end \in Nat /\ end <= Len(s)
        /\ start + 1 <= end /\ end - start <= k
    BY <1>1, <1>5
  <2>2. r = SubSeq(s, start + 1, end)
    BY <1>3, <1>5
  <2>3. \A j \in 1..Len(s) : Len(s) - j \in o..(o + k - 1) <=> j \in (start + 1)..end
    BY <1>1, <1>5
  <2>4. (start + 1)..end \subseteq 1..Len(s)
    <3> DEFINE a == start + 1
    <3>1. a \in Nat \ {0} /\ end \in Nat /\ end <= Len(s) /\ Len(s) \in Nat
      BY <1>1, <2>1
    <3> HIDE DEF a, end
    <3>2. a..end \subseteq 1..Len(s)
      BY <3>1
    <3> QED
      BY <3>2 DEF a
  <2> HIDE DEF start, end
  <2>5. \A x : x \in PageOf(s, p) <=> \E i \in (start + 1)..end : x = s[i]
    BY <1>2, <2>3, <2>4
  <2>6. Folder(r)
    BY <2>1, <2>2, SubSeqIncreasing
  <2>7. /\ Len(r) = IF start + 1 <= end THEN end - (start + 1) + 1 ELSE 0
        /\ \A x : x \in Range(r) <=> \E i \in (start + 1)..end : x = s[i]
    <3> DEFINE a == start + 1
    <3>1. a \in Nat \ {0} /\ r = SubSeq(s, a, end)
      BY <2>1, <2>2
    <3> HIDE DEF a
    <3>2. Part(r, s, a, end)
      BY <1>1, <2>1, <3>1, SubSeqIs
    <3> QED
      BY <3>2 DEF a, Part
  <2>8. start \in Int
    BY <1>1, <2>1 DEF start, end
  <2>9. Len(r) \in Nat /\ Len(r) <= k /\ Len(r) > 0
    BY <1>1, <2>1, <2>7, <2>8
  <2>10. r # <<>>
    BY <2>9
  <2>11. Range(r) = PageOf(s, p)
    BY <2>5, <2>7
  <2> QED
    BY <2>6, <2>9, <2>10, <2>11 DEF r, k, o
<1> QED
  BY <1>4, <1>5

\* The recency path shows the last count messages of a folder of n; of one
\* that has become shorter no more than that.
LEMMA RecentIs ==
  ASSUME NEW s, Folder(s), NEW n \in Nat, NEW p \in Sizes
  PROVE  LET r == Recent(s, n, p.count)
         IN  /\ Folder(r) /\ Len(r) \in Nat /\ Len(r) <= p.count
             /\ n = Len(s) /\ p.offset = 0 => Range(r) = PageOf(s, p)
<1> DEFINE k == p.count
           w == IF k > n THEN n ELSE k
           start == IF n > w THEN n - w + 1 ELSE 1
           stop == IF n > Len(s) THEN Len(s) ELSE n
           r == Recent(s, n, k)
<1>1. k \in Nat /\ s \in Seq(Nat) /\ Len(s) \in Nat /\ DOMAIN s = 1..Len(s)
  BY DEF Sizes, Folder
<1>2. r = SubSeq(s, start, stop)
  BY DEF Recent, InRange, recencySet, clampCount
<1>3. start \in Nat \ {0} /\ stop \in Nat /\ stop <= Len(s)
  BY <1>1
<1> HIDE DEF r, k
<1>4. stop - start + 1 <= k
  BY <1>1
<1>5. /\ Len(r) = IF start <= stop THEN stop - start + 1 ELSE 0
      /\ \A x : x \in Range(r) <=> \E i \in start..stop : x = s[i]
  <2> HIDE DEF start, stop
  <2>1. Part(r, s, start, stop)
    BY <1>1, <1>2, <1>3, SubSeqIs
  <2> QED
    BY <2>1 DEF Part
<1>6. Folder(r)
  <2> HIDE DEF start, stop
  <2> QED
    BY <1>2, <1>3, SubSeqIncreasing
<1>7. ASSUME n = Len(s), p.offset = 0
      PROVE  Range(r) = PageOf(s, p)
  <2>1. PageOf(s, p) = {s[i] : i \in {j \in 1..Len(s) : Len(s) - j \in 0..(0 + k - 1)}}
    BY <1>1, <1>7 DEF PageOf, k
  <2>2. \A j \in 1..Len(s) : Len(s) - j \in 0..(0 + k - 1) <=> j \in start..stop
    BY <1>1, <1>7
  <2>3. start..stop \subseteq 1..Len(s)
    BY <1>1, <1>3
  <2> HIDE DEF start, stop
  <2>4. \A x : x \in PageOf(s, p) <=> \E i \in start..stop : x = s[i]
    BY <2>1, <2>2, <2>3
  <2> QED
    BY <1>5, <2>4
<1>8. Len(r) \in Nat /\ Len(r) <= k
  <2> HIDE DEF start, stop
  <2> QED
    BY <1>1, <1>3, <1>4, <1>5
<1> QED
  BY <1>6, <1>7, <1>8 DEF r, k
-----------------------------------------------------------------------------
(* The folder *)

\* A message arrives, some leave, or nothing happens to the folder.
Delivers ==
    /\ uidnext \in DOMAIN Mail /\ inbox' = Append(inbox, uidnext) /\ uidnext' = uidnext + 1
Leaves == (\E S : inbox' = Only(inbox, S)) /\ uidnext' = uidnext
Stands == inbox' = inbox /\ uidnext' = uidnext

LEMMA StepMail ==
  ASSUME Step
  PROVE  Delivers \/ Leaves \/ Stands
<1>1. ASSUME NEW c \in Callers, Resolving(c) PROVE Stands
  BY <1>1 DEF Resolving, ResolveIdentity, Stat, Create, Fill, FillFails, LoadConfig, Load, TruncateConfig,
              NameIdentity, Unmoved, mailVars, Stands
<1>2. ASSUME NEW c \in Callers, Listing(c) PROVE Stands
  BY <1>2 DEF Listing, Select, Search, searchFallback, Retry, Fetch, ServerFails, Unmoved, mailVars, Stands
<1>3. ASSUME NEW c \in Callers, Reading(c) PROVE Stands
  BY <1>3 DEF Reading, FetchMessage, FetchRaw, Gate, VerifySignatures, VerifyRaw, Extract, Expose, Redact,
              Unmoved, mailVars, Stands
<1>4. ASSUME NEW c \in Callers, MoveMessages(c) PROVE Leaves
  BY <1>4 DEF MoveMessages, Leaves
<1>5. ASSUME NEW c \in Callers, Changing(c), ~MoveMessages(c) PROVE Stands
  BY <1>5 DEF Changing, OneId, ManyIds, SetSeenBatch, Add, RemoveFound, OpenTmp, WriteTmp, WriteFails,
              Rename, RenameFails, Unmoved, mailVars, Stands
<1>6. ASSUME NEW c \in Callers, Finish(c) \/ Crash(c) \/ \E t \in DOMAIN Handlers : Begin(c, t)
      PROVE  Stands
  BY <1>6 DEF Finish, Crash, Begin, mailVars, Stands
<1>7. ASSUME NEW h, switchIdentity(h) PROVE Stands
  BY <1>7 DEF switchIdentity, mailVars, Stands
<1>8. CASE Arrive
  BY <1>8 DEF Arrive, Delivers
<1> QED
  BY <1>1, <1>2, <1>3, <1>4, <1>5, <1>6, <1>7, <1>8 DEF Step

LEMMA Appended ==
  ASSUME NEW s, Folder(s), NEW x \in Nat, \A u \in Range(s) : u < x
  PROVE  Folder(Append(s, x)) /\ Range(Append(s, x)) = Range(s) \cup {x}
<1> DEFINE r == Append(s, x)
<1>1. s \in Seq(Nat) /\ Len(s) \in Nat /\ DOMAIN s = 1..Len(s)
  BY DEF Folder
<1>2. /\ r \in Seq(Nat) /\ DOMAIN r = 1..(Len(s) + 1)
      /\ \A i \in 1..Len(s) : r[i] = s[i]
      /\ r[Len(s) + 1] = x
  BY <1>1
<1> HIDE DEF r
<1>3. \A i \in 1..Len(s) : s[i] \in Nat /\ s[i] < x
  BY <1>1 DEF Range
<1>4. ASSUME NEW i \in DOMAIN r, NEW j \in DOMAIN r, i < j
      PROVE  r[i] < r[j]
  <2>1. i \in 1..Len(s) /\ r[i] = s[i]
    BY <1>1, <1>2, <1>4
  <2>2. CASE j = Len(s) + 1
    BY <1>2, <1>3, <2>1, <2>2
  <2>3. CASE j \in 1..Len(s)
    BY <1>1, <1>2, <1>4, <2>1, <2>3 DEF Folder, Increasing
  <2> QED
    BY <1>1, <1>2, <2>2, <2>3
<1>5. Range(r) = Range(s) \cup {x}
  BY <1>1, <1>2 DEF Range
<1> QED
  BY <1>2, <1>4, <1>5 DEF Folder, Increasing, r

LEMMA BoxInit ==
  ASSUME Init
  PROVE  BoxInv
<1>1. /\ inbox \in Seq(DOMAIN Mail) /\ uidnext = Len(inbox) + 1 /\ DOMAIN Mail \subseteq Nat \ {0}
      /\ \A i \in DOMAIN inbox : inbox[i] = i
  BY MailAssumption DEF Init
<1>2. DOMAIN inbox = 1..Len(inbox) /\ Len(inbox) \in Nat /\ inbox \in Seq(Nat)
  BY <1>1
<1>3. Folder(inbox)
  BY <1>1, <1>2 DEF Folder, Increasing
<1>4. Range(inbox) \subseteq DOMAIN Mail
  BY <1>1, <1>2 DEF Range
<1>5. \A u \in Range(inbox) : u < uidnext
  BY <1>1, <1>2 DEF Range
<1> QED
  BY <1>1, <1>2, <1>3, <1>4, <1>5 DEF BoxInv

LEMMA BoxStep ==
  ASSUME BoxInv, Step
  PROVE  BoxInv'
<1>1. CASE Stands
  BY <1>1 DEF Stands, BoxInv
<1>2. CASE Leaves
  <2>1. PICK S : inbox' = Only(inbox, S)
    BY <1>2 DEF Leaves
  <2>2. Folder(Only(inbox, S))
    BY OnlyIncreasing DEF BoxInv
  <2>3. Range(Only(inbox, S)) \subseteq Range(inbox)
    BY OnlyIs DEF BoxInv, Folder
  <2> QED
    BY <1>2, <2>1, <2>2, <2>3 DEF BoxInv, Leaves
<1>3. CASE Delivers
  <2>1. /\ Folder(Append(inbox, uidnext))
        /\ Range(Append(inbox, uidnext)) = Range(inbox) \cup {uidnext}
    BY Appended DEF BoxInv
  <2>2. uidnext \in Nat /\ uidnext \in DOMAIN Mail
    BY <1>3 DEF BoxInv, Delivers
  <2>3. Range(inbox) \subseteq Nat
    BY DEF BoxInv, Folder, Range
  <2>4. \A u \in Range(inbox) \cup {uidnext} : u < uidnext + 1
    BY <2>2, <2>3 DEF BoxInv
  <2> QED
    BY <1>3, <2>1, <2>2, <2>4 DEF BoxInv, Delivers
<1> QED
  BY <1>1, <1>2, <1>3, StepMail

-----------------------------------------------------------------------------
(* What is to be fetched *)

SelInv(c) ==
    /\ call[c].page \in Sizes
    /\ Folder(call[c].view)
    /\ Folder(call[c].sel)

LEMMA FoundSel ==
  ASSUME NEW q, Folder(inbox), NEW p \in Sizes
  PROVE  LET uids == UIDSearch(q, inbox, seen)
             sel == window(uids, p.count, p.offset)
         IN  /\ Folder(uids) /\ Folder(sel) /\ Len(sel) <= p.count
             /\ Range(sel) = PageOf(uids, p)
             /\ sel = <<>> => PageOf(uids, p) = {}
<1> DEFINE uids == UIDSearch(q, inbox, seen)
<1>1. Folder(uids)
  BY OnlyIncreasing DEF UIDSearch
<1> HIDE DEF uids
<1> QED
  BY <1>1, WindowIs DEF uids

LEMMA EmptySel ==
  Folder(<<>>)
  BY DEF Folder, Increasing

LEMMA SelWorks ==
  ASSUME NEW c \in Callers, BoxInv, SelInv(c), ListWork(c)
  PROVE  SelInv(c)'
<1>0. Folder(inbox)
  BY DEF BoxInv
<1>1. CASE St(c) \notin {"select", "search", "retry", "fetch"}
  BY <1>1 DEF ListWork, SelInv
<1>2. CASE St(c) = "select"
  <2>1. PICK q \in Queries, p \in Pages : SelectWork(c, q, p)
    BY <1>2 DEF ListWork
  <2>2. p \in Sizes
    BY InputAssumption DEF Sizes
  <2>3. call'[c].page = p /\ call'[c].view = inbox
    BY <2>1 DEF SelectWork
  <2>4. CASE call'[c].sel = call[c].sel
    BY <1>0, <2>2, <2>3, <2>4 DEF SelInv
  <2>5. CASE call'[c].sel = Recent(inbox, Len(inbox), p.count)
    <3>1. Len(inbox) \in Nat
      BY <1>0 DEF Folder
    <3>2. Folder(call'[c].sel)
      BY <1>0, <2>2, <2>5, <3>1, RecentIs
    <3> QED
      BY <1>0, <2>2, <2>3, <3>2 DEF SelInv
  <2> QED
    BY <2>1, <2>4, <2>5 DEF SelectWork
<1>3. ASSUME NEW k, NEW q, FoundWork(c, k, q), call'[c].page = call[c].page, call'[c].view = call[c].view
      PROVE  SelInv(c)'
  <2> DEFINE p == call[c].page
             sel == window(UIDSearch(q, inbox, seen), p.count, p.offset)
  <2>1. p \in Sizes
    BY DEF SelInv
  <2>2. Folder(sel)
    BY <1>0, <2>1, FoundSel
  <2>3. call'[c].sel = sel
    BY <1>3 DEF FoundWork
  <2> HIDE DEF sel
  <2> QED
    BY <1>3, <2>1, <2>2, <2>3 DEF SelInv
<1>4. CASE St(c) = "retry"
  <2>1. FoundWork(c, 1, [call[c].q EXCEPT !.repo = FALSE])
    BY <1>4 DEF ListWork
  <2>2. call'[c].page = call[c].page /\ call'[c].view = call[c].view
    BY <1>4 DEF ListWork
  <2> QED
    BY <1>3, <2>1, <2>2
<1>5. CASE St(c) = "search"
  <2>2. call'[c].page = call[c].page /\ call'[c].view = call[c].view
    BY <1>5 DEF ListWork
  <2>3. CASE FoundWork(c, 2, call[c].q)
    BY <1>3, <2>2, <2>3
  <2>4. CASE call'[c].sel = call[c].sel
    BY <2>2, <2>4 DEF SelInv
  <2>5. ASSUME NEW v \in {call[c].view, Only(call[c].view, Range(inbox))},
               call'[c].sel = Recent(v, Len(call[c].view), call[c].page.count)
        PROVE  SelInv(c)'
    <3> DEFINE n == Len(call[c].view)
    <3>1. Folder(v) /\ n \in Nat /\ call[c].page \in Sizes
      BY OnlyIncreasing DEF SelInv, Folder
    <3>2. Folder(call'[c].sel)
      BY <2>5, <3>1, RecentIs
    <3> QED
      BY <2>2, <3>2 DEF SelInv
  <2> QED
    BY <1>5, <2>3, <2>4, <2>5 DEF ListWork, FallbackWork
<1>6. CASE St(c) = "fetch"
  <2>1. /\ call'[c].page = call[c].page
        /\ call'[c].sel = <<>> /\ call'[c].view = <<>>
    BY <1>6 DEF ListWork
  <2> QED
    BY <2>1, EmptySel DEF SelInv
<1> QED
  BY <1>1, <1>2, <1>4, <1>5, <1>6

LEMMA IdleSel ==
  ASSUME NEW c, call'[c].page = Idle.page, call'[c].view = Idle.view, call'[c].sel = Idle.sel
  PROVE  SelInv(c)'
<1>1. Idle.page \in Sizes /\ Idle.view = <<>> /\ Idle.sel = <<>>
  BY DEF Idle, Sizes
<1> QED
  BY <1>1, EmptySel DEF SelInv

LEMMA SelStep ==
  ASSUME Shape, Step, BoxInv, \A c \in Callers : SelInv(c)
  PROVE  \A c \in Callers : SelInv(c)'
<1>1. ASSUME NEW c \in Callers, Steady(c) PROVE SelInv(c)'
  <2>1. call'[c].page = call[c].page /\ call'[c].view = call[c].view /\ call'[c].sel = call[c].sel
    BY <1>1 DEF Steady, Same, Fields
  <2> QED
    BY <2>1 DEF SelInv
<1>2. ASSUME NEW c \in Callers, Starts(c) \/ Stops(c) PROVE SelInv(c)'
  <2>1. call'[c].page = Idle.page /\ call'[c].view = Idle.view /\ call'[c].sel = Idle.sel
    <3>1. {"page", "view", "sel"} \subseteq Fields \ {"tool", "pc"}
      BY DEF Fields
    <3> QED
      BY <1>2, <3>1, ResetAs
  <2> QED
    BY <2>1, IdleSel
<1> QED
  BY <1>1, <1>2, SelWorks, StepActs DEF Rests, Acts, Works
-----------------------------------------------------------------------------
(* Trust *)

LEMMA ClassifyEarned ==
  ASSUME NEW u, NEW e \in {Mail[u].top, Mail[u].inner}
  PROVE  Earned(Mail[u], ClassifyTrust(e)) /\ Earned(Mail[u], "unverified")
  BY DEF Earned, ClassifyTrust

LEMMA VerifyEarned ==
  ASSUME NEW u \in DOMAIN Mail, NEW gpg
  PROVE  Earned(Mail[u], Verify(Mail[u].top, gpg))
  BY DEF Earned, Verify

\* The rows are messages, and what is said of each is earned.
Rated(rows, trust) ==
    /\ DOMAIN trust = DOMAIN rows
    /\ \A i \in DOMAIN rows : rows[i] \in DOMAIN Mail /\ Earned(Mail[rows[i]], trust[i])

LEMMA RatedOne ==
  ASSUME NEW u \in DOMAIN Mail, NEW level, Earned(Mail[u], level)
  PROVE  Rated(<<u>>, <<level>>) /\ DOMAIN <<u>> = {1}
<1> DEFINE r == <<u>>
           t == <<level>>
<1>1. DOMAIN r = {1} /\ DOMAIN t = {1} /\ r[1] = u /\ t[1] = level
  OBVIOUS
<1> HIDE DEF r, t
<1>2. Rated(r, t)
  BY <1>1 DEF Rated
<1> QED
  BY <1>1, <1>2 DEF r, t

LEMMA TrustWorks ==
  ASSUME NEW c \in Callers, BoxInv, FlowInv(c), SelInv(c), TrustInv(c), FlowWork(c), TrustWork(c)
  PROVE  TrustInv(c)'
<1> DEFINE rows == call[c].rows
           trust == call[c].trust
<1>0. Rated(rows, trust) /\ Range(inbox) \subseteq DOMAIN Mail
  BY DEF TrustInv, Rated, BoxInv
<1>1. Rated(rows, trust)'
  <2>1. CASE St(c) \notin {"fetch", "message", "raw", "signatures", "verify"}
    BY <1>0, <2>1 DEF TrustWork, Rated
  <2>2. CASE St(c) = "fetch"
    <3> DEFINE r == call'[c].rows
               t == call'[c].trust
    <3>1. r = Only(call[c].sel, Range(inbox)) /\ t = [i \in DOMAIN r |-> ClassifyTrust(Mail[r[i]].top)]
      BY <2>2 DEF TrustWork
    <3>2. Range(r) \subseteq Range(inbox)
      BY <3>1, OnlyIs DEF SelInv, Folder
    <3> HIDE DEF r
    <3>3. \A i \in DOMAIN r : r[i] \in DOMAIN Mail
      BY <1>0, <3>2 DEF Range
    <3>4. DOMAIN t = DOMAIN r /\ \A i \in DOMAIN r : t[i] = ClassifyTrust(Mail[r[i]].top)
      BY <3>1
    <3> HIDE DEF t
    <3>5. \A i \in DOMAIN r : Earned(Mail[r[i]], t[i])
      BY <3>4, ClassifyEarned
    <3>6. Rated(r, t)
      BY <3>3, <3>4, <3>5 DEF Rated
    <3> QED
      BY <3>6 DEF r, t
  <2>3. CASE St(c) = "message"
    <3>0. PICK u \in Range(inbox) :
            /\ call'[c].rows = <<u>>
            /\ \E e \in {Mail[u].top, Mail[u].inner} : call'[c].trust = <<ClassifyTrust(e)>>
      BY <2>3 DEF TrustWork
    <3>1. PICK e \in {Mail[u].top, Mail[u].inner} :
            call'[c].rows = <<u>> /\ call'[c].trust = <<ClassifyTrust(e)>>
      BY <3>0
    <3>2. u \in DOMAIN Mail /\ Earned(Mail[u], ClassifyTrust(e))
      BY <1>0, ClassifyEarned
    <3>3. Rated(<<u>>, <<ClassifyTrust(e)>>)
      BY <3>2, RatedOne
    <3> QED
      BY <3>1, <3>3
  <2>4. CASE St(c) = "raw"
    <3>0. PICK u \in Range(inbox) :
            /\ call'[c].rows = <<u>>
            /\ \E x \in {ClassifyTrust(Mail[u].top), "unverified"} : call'[c].trust = <<x>>
      BY <2>4 DEF TrustWork
    <3>1. PICK level \in {ClassifyTrust(Mail[u].top), "unverified"} :
            call'[c].rows = <<u>> /\ call'[c].trust = <<level>>
      BY <3>0
    <3>2. u \in DOMAIN Mail /\ Earned(Mail[u], level)
      BY <1>0, ClassifyEarned
    <3>3. Rated(<<u>>, <<level>>)
      BY <3>2, RatedOne
    <3> QED
      BY <3>1, <3>3
  <2>5. CASE St(c) = "signatures"
    <3>1. PICK done, fit \in SUBSET DOMAIN rows :
            call'[c].trust = [i \in DOMAIN rows |->
              IF i \in done THEN Verify(Mail[rows[i]].top, i \in fit) ELSE trust[i]]
      BY <2>5 DEF TrustWork
    <3>2. call'[c].rows = rows
      BY <2>5 DEF TrustWork
    <3> DEFINE r == rows
               t == call'[c].trust
    <3>3. DOMAIN t = DOMAIN r
      BY <3>1
    <3>4. ASSUME NEW i \in DOMAIN r PROVE Earned(Mail[r[i]], t[i])
      <4>1. CASE i \in done
        <5>1. t[i] = Verify(Mail[r[i]].top, i \in fit)
          BY <3>1, <4>1
        <5> QED
          BY <1>0, <5>1, VerifyEarned DEF Rated
      <4>2. CASE i \notin done
        <5>1. t[i] = trust[i]
          BY <3>1, <4>2
        <5> QED
          BY <1>0, <5>1 DEF Rated
      <4> QED
        BY <4>1, <4>2
    <3>5. Rated(r, t)
      BY <1>0, <3>3, <3>4 DEF Rated
    <3> QED
      BY <3>2, <3>5
  <2>6. CASE St(c) = "verify"
    <3>1. call[c].tool = "verify_signature" /\ call[c].pc = 10
      BY <2>6, Placed DEF FlowWork, Places, St
    <3>2. DOMAIN rows = {1}
      BY <3>1 DEF TrustInv
    <3>0. PICK gpg \in BOOLEAN : call'[c].trust = <<Verify(Mail[rows[1]].top, gpg)>>
      BY <2>6 DEF TrustWork
    <3> DEFINE t == <<Verify(Mail[rows[1]].top, gpg)>>
    <3>3. call'[c].rows = rows /\ call'[c].trust = t
      BY <2>6, <3>0 DEF TrustWork
    <3>4. DOMAIN t = {1} /\ t[1] = Verify(Mail[rows[1]].top, gpg)
      OBVIOUS
    <3> HIDE DEF t
    <3>5. rows[1] \in DOMAIN Mail
      BY <1>0, <3>2 DEF Rated
    <3>6. Earned(Mail[rows[1]], t[1])
      BY <3>4, <3>5, VerifyEarned
    <3>7. Rated(rows, t)
      BY <3>2, <3>4, <3>5, <3>6 DEF Rated
    <3> QED
      BY <3>3, <3>7
  <2> QED
    BY <2>1, <2>2, <2>3, <2>4, <2>5, <2>6
<1>2. ASSUME call'[c].tool = "verify_signature", call'[c].pc >= 10
      PROVE  DOMAIN call'[c].rows = {1}
  <2> DEFINE t == call[c].tool
             pc == call[c].pc
  <2>1. t = "verify_signature"
    BY <1>2 DEF FlowWork
  <2>2. /\ Places(t) /\ pc \in 1..Len(Handlers[t]) /\ Running(c) /\ Lands(c)
    BY Placed, WorksLands DEF FlowWork
  <2>3. Len(Handlers[t]) = 10 /\ pc \in 1..10
    BY <2>1, <2>2 DEF Places
  <2>4. CASE pc <= 7
    <3>1. pc \in 1..7
      BY <2>3, <2>4
    <3>2. call'[c].pc \in (pc + 1)..8
      BY <2>1, <2>2, <3>1 DEF Lands, Base
    <3> HIDE DEF pc
    <3>3. call'[c].pc \in Int /\ call'[c].pc <= 8
      BY <3>1, <3>2
    <3> QED
      BY <1>2, <3>3
  <2>5. CASE pc > 7
    <3>1. St(c) \notin {"identity", "stat", "create", "fill"}
      BY <2>1, <2>2, <2>3, <2>5 DEF Lands, Base
    <3>2. St(c) \notin {"select", "search", "retry"}
      BY <2>1, <2>2 DEF Places, St, Listings, Searches
    <3>3. Advances(c, 1)
      <4>1. call'[c].pc # 0
        BY <1>2
      <4> QED
        BY <2>2, <3>1, <3>2, <4>1 DEF Lands
    <3>4. pc = 9
      <4>1. call'[c].pc = pc + 1
        BY <1>2, <3>3 DEF Advances
      <4>2. call'[c].pc = IF pc + 1 > 10 THEN 0 ELSE pc + 1
        BY <2>3, <3>3 DEF Advances
      <4> QED
        BY <1>2, <2>3, <4>1, <4>2
    <3>5. St(c) = "raw"
      BY <2>1, <2>2, <3>4 DEF Places, St
    <3>6. PICK u : call'[c].rows = <<u>>
      BY <3>5 DEF TrustWork
    <3> QED
      BY <3>6
  <2> QED
    BY <2>3, <2>4, <2>5
<1> QED
  BY <1>1, <1>2 DEF TrustInv, Rated

LEMMA IdleTrust ==
  ASSUME NEW c, call'[c].rows = Idle.rows, call'[c].trust = Idle.trust, call'[c].pc \in {0, 1}
  PROVE  TrustInv(c)'
<1>1. Idle.rows = <<>> /\ Idle.trust = <<>>
  BY DEF Idle
<1>2. DOMAIN <<>> = {}
  OBVIOUS
<1> QED
  BY <1>1, <1>2 DEF TrustInv

LEMMA TrustStep ==
  ASSUME Shape, Step, BoxInv, \A c \in Callers : FlowInv(c) /\ SelInv(c) /\ TrustInv(c)
  PROVE  \A c \in Callers : TrustInv(c)'
<1>1. ASSUME NEW c \in Callers, Steady(c) PROVE TrustInv(c)'
  <2>1. /\ call'[c].rows = call[c].rows /\ call'[c].trust = call[c].trust
        /\ call'[c].tool = call[c].tool /\ call'[c].pc = call[c].pc
    BY <1>1 DEF Steady, Same, Fields
  <2> QED
    BY <2>1 DEF TrustInv
<1>2. ASSUME NEW c \in Callers, Starts(c) \/ Stops(c) PROVE TrustInv(c)'
  <2>1. call'[c].rows = Idle.rows /\ call'[c].trust = Idle.trust
    <3>1. {"rows", "trust"} \subseteq Fields \ {"tool", "pc"}
      BY DEF Fields
    <3> QED
      BY <1>2, <3>1, ResetAs
  <2>2. call'[c].pc \in {0, 1}
    BY <1>2, StartsAs, StopsAs
  <2> QED
    BY <2>1, <2>2, IdleTrust
<1> QED
  BY <1>1, <1>2, TrustWorks, StepActs DEF Rests, Acts, Works

-----------------------------------------------------------------------------
(* The invariants hold together *)

CallInv ==
    /\ Shape
    /\ BoxInv
    /\ \A c \in Callers : FlowInv(c) /\ SelInv(c)

LEMMA IdleStart ==
  ASSUME Init, NEW c \in Callers
  PROVE  call[c] = Idle
  BY DEF Init

LEMMA CallInvInit ==
  ASSUME Init
  PROVE  CallInv
<1>1. Shape
  <2>1. DOMAIN call = Callers
    BY DEF Init
  <2> QED
    BY <2>1, IdleStart, IdleShape DEF Shape
<1>2. Idle.tool = None /\ Idle.pc = 0 /\ Idle.ok = FALSE
  BY DEF Idle
<1>3. ASSUME NEW c \in Callers PROVE FlowInv(c)
  BY <1>2, IdleStart DEF FlowInv, Running
<1>4. Idle.page \in Sizes /\ Idle.view = <<>> /\ Idle.sel = <<>>
  BY DEF Idle, Sizes
<1>5. ASSUME NEW c \in Callers PROVE SelInv(c)
  BY <1>4, IdleStart, EmptySel DEF SelInv
<1> QED
  BY <1>1, <1>3, <1>5, BoxInit DEF CallInv

LEMMA CallInvStep ==
  ASSUME CallInv, [Next]_vars
  PROVE  CallInv'
<1>1. CASE Next
  <2>1. Step
    BY <1>1 DEF Next
  <2> QED
    BY <2>1, StepActs, BoxStep, FlowStep, SelStep DEF CallInv
<1>2. CASE UNCHANGED vars
  BY <1>2 DEF vars, mailVars, CallInv, Shape, BoxInv, FlowInv, SelInv, Running
<1> QED
  BY <1>1, <1>2

\* Whatever arrives, is moved or fails meanwhile, gpg included, no answer of a
\* tool or a command calls a message verified without a good signature of its
\* own, untrusted without one that could be put to gpg, or trusted without
\* Proton's headers (TrustEarned).
THEOREM TrustIsEarned == Spec => []TrustEarned
<1> DEFINE Inv == CallInv /\ \A c \in Callers : TrustInv(c)
<1>1. Init => Inv
  <2> SUFFICES ASSUME Init PROVE \A c \in Callers : TrustInv(c)
    BY CallInvInit
  <2>1. Idle.rows = <<>> /\ Idle.trust = <<>> /\ Idle.tool = None
    BY DEF Idle
  <2>2. DOMAIN <<>> = {} /\ None # "verify_signature"
    BY DEF None
  <2> QED
    BY <2>1, <2>2, IdleStart DEF TrustInv
<1>2. Inv /\ [Next]_vars => Inv'
  <2> SUFFICES ASSUME Inv, [Next]_vars PROVE \A c \in Callers : TrustInv(c)'
    BY CallInvStep
  <2>1. CASE Next
    BY <2>1, TrustStep DEF Next, CallInv
  <2>2. CASE UNCHANGED vars
    BY <2>2 DEF vars, TrustInv
  <2> QED
    BY <2>1, <2>2
<1>3. Inv => TrustEarned
  BY DEF TrustEarned, TrustInv, Earned
<1> QED
  BY <1>1, <1>2, <1>3, PTL DEF Spec
-----------------------------------------------------------------------------
(* Counts *)

\* f holds the values of the loop of DedupUIDs.
Dedups(f, s) ==
    /\ f[0] = <<>>
    /\ \A i \in 1..Len(s) :
         f[i] = IF s[i] \in Range(f[i - 1]) THEN f[i - 1] ELSE Append(f[i - 1], s[i])

LEMMA DedupRuns ==
  ASSUME NEW X, NEW s \in Seq(X)
  PROVE  \E f \in [0..Len(s) -> Seq(X)] : Dedups(f, s) /\ DedupUIDs(s) = f[Len(s)]
<1> DEFINE n == Len(s)
           Y == Seq(X)
           st == [x \in Y \X Nat |->
                    IF x[2] \in 1..n /\ s[x[2]] \notin Range(x[1]) THEN Append(x[1], s[x[2]]) ELSE x[1]]
           Rec(f) == f = [i \in 0..n |-> IF i = 0 THEN <<>> ELSE
                            IF s[i] \in Range(f[i - 1]) THEN f[i - 1] ELSE Append(f[i - 1], s[i])]
<1>1. n \in Nat /\ \A i \in 1..n : s[i] \in X
  OBVIOUS
<1>2. <<>> \in Y
  OBVIOUS
<1> HIDE DEF n
<1>3. \A x \in Y, i \in Nat :
        st[<<x, i>>] = IF i \in 1..n /\ s[i] \notin Range(x) THEN Append(x, s[i]) ELSE x
  OBVIOUS
<1>a. \A x \in Y, i \in 1..n : Append(x, s[i]) \in Y
  BY <1>1
<1> HIDE DEF st, Y
<1>4. Stays(st, Y)
  BY <1>3, <1>a DEF Stays
<1>5. PICK f : Loop(f, <<>>, st, Y, n)
  BY <1>1, <1>2, <1>4, LoopRuns
<1>6. f \in [0..n -> Y] /\ f[0] = <<>> /\ \A i \in 1..n : f[i] = st[<<f[i - 1], i>>]
  BY <1>5 DEF Loop
<1>7. ASSUME NEW i \in 1..n PROVE f[i] = IF s[i] \in Range(f[i - 1]) THEN f[i - 1] ELSE Append(f[i - 1], s[i])
  <2>1. i - 1 \in 0..n /\ i \in Nat
    BY <1>1
  <2>2. f[i - 1] \in Y
    BY <1>6, <2>1
  <2> QED
    BY <1>3, <1>6, <2>1, <2>2
<1>8. Rec(f)
  <2>1. ASSUME NEW i \in 0..n
        PROVE  f[i] = IF i = 0 THEN <<>> ELSE IF s[i] \in Range(f[i - 1]) THEN f[i - 1] ELSE Append(f[i - 1], s[i])
    <3>1. CASE i = 0
      BY <1>6, <3>1
    <3>2. CASE i # 0
      <4>1. i \in 1..n
        BY <1>1, <3>2
      <4> QED
        BY <1>7, <3>2, <4>1
    <3> QED
      BY <3>1, <3>2
  <2> QED
    BY <1>6, <2>1
<1> DEFINE g == CHOOSE h : Rec(h)
<1>9. Rec(g)
  BY <1>8
<1>10. DedupUIDs(s) = g[n]
  BY DEF DedupUIDs, n
<1> HIDE DEF g
<1> DEFINE e == <<>>
           body(i) == IF s[i] \in Range(g[i - 1]) THEN g[i - 1] ELSE Append(g[i - 1], s[i])
<1>9a. g = [i \in 0..n |-> IF i = 0 THEN e ELSE body(i)]
  BY <1>9
<1> HIDE DEF e, body
<1>11a. \A i \in 1..n : g[i] = body(i)
  BY <1>1, <1>9a
<1>12a. g[0] = e
  BY <1>1, <1>9a
<1>11. \A i \in 1..n : g[i] = IF s[i] \in Range(g[i - 1]) THEN g[i - 1] ELSE Append(g[i - 1], s[i])
  BY <1>11a DEF body
<1>12. g[0] = <<>>
  BY <1>12a DEF e
<1>13. \A i \in 0..n : g[i] \in Y
  <2> DEFINE T == {i \in 0..n : g[i] \in Y}
  <2>1. 0 \in T
    BY <1>1, <1>2, <1>12
  <2>2. ASSUME NEW i \in 1..n, i - 1 \in T PROVE i \in T
    BY <1>1, <1>a, <1>11, <2>2
  <2> HIDE DEF T
  <2>3. \A i \in 0..n : i \in T
    BY <1>1, <2>1, <2>2, InductionTo
  <2> QED
    BY <2>3 DEF T
<1>14. g \in [0..n -> Y]
  BY <1>9, <1>13
<1> QED
  BY <1>10, <1>11, <1>12, <1>14 DEF Dedups, n, Y

\* DedupUIDs keeps every id, and each once.
LEMMA DedupIs ==
  ASSUME NEW X, NEW s \in Seq(X)
  PROVE  /\ Range(DedupUIDs(s)) = Range(s)
         /\ IsFiniteSet(Range(s)) /\ Len(DedupUIDs(s)) = Cardinality(Range(s))
<1> DEFINE n == Len(s)
<1>1. PICK f \in [0..n -> Seq(X)] : Dedups(f, s) /\ DedupUIDs(s) = f[n]
  BY DedupRuns
<1>2. n \in Nat /\ DOMAIN s = 1..n
  OBVIOUS
<1>3. \A i \in 1..n : f[i] = IF s[i] \in Range(f[i - 1]) THEN f[i - 1] ELSE Append(f[i - 1], s[i])
  BY <1>1 DEF Dedups
<1>4. f[0] = <<>> /\ Len(f[0]) = 0 /\ Range(f[0]) = {}
  BY <1>1 DEF Dedups, Range
<1> HIDE DEF n
<1> DEFINE first(i) == {s[j] : j \in {k \in 1..n : k <= i}}
           Once(r) == IsFiniteSet(Range(r)) /\ Len(r) = Cardinality(Range(r))
           T == {i \in 0..n : Once(f[i]) /\ Range(f[i]) = first(i)}
<1>5. 0 \in T
  <2>1. first(0) = {}
    BY <1>2
  <2>2. Once(f[0])
    BY <1>4, FS_EmptySet
  <2> QED
    BY <1>2, <1>4, <2>1, <2>2
<1>6. ASSUME NEW i \in 1..n, i - 1 \in T PROVE i \in T
  <2>0. i \in 0..n /\ i - 1 \in 0..n /\ i \in Nat
    BY <1>2
  <2>a. f[i - 1] \in Seq(X)
    BY <1>1, <2>0
  <2>1. Once(f[i - 1]) /\ Range(f[i - 1]) = first(i - 1)
    BY <1>6
  <2>2. first(i) = first(i - 1) \cup {s[i]}
    <3>1. \A k \in 1..n : k <= i <=> k <= i - 1 \/ k = i
      BY <1>2
    <3> QED
      BY <3>1
  <2> HIDE DEF first
  <2>3. CASE s[i] \in Range(f[i - 1])
    <3>1. f[i] = f[i - 1]
      BY <1>3, <2>3
    <3>2. first(i) = first(i - 1)
      BY <2>1, <2>2, <2>3
    <3> QED
      BY <2>0, <2>1, <3>1, <3>2
  <2>4. CASE s[i] \notin Range(f[i - 1])
    <3>1. f[i] = Append(f[i - 1], s[i])
      BY <1>3, <2>4
    <3>2. Len(f[i]) = Len(f[i - 1]) + 1 /\ Range(f[i]) = Range(f[i - 1]) \cup {s[i]}
      BY <2>a, <3>1, AppendIs
    <3> DEFINE R == Range(f[i - 1])
    <3>3. IsFiniteSet(R \cup {s[i]}) /\ Cardinality(R \cup {s[i]}) = Cardinality(R) + 1
      BY <2>1, <2>4, FS_AddElement
    <3>4. Once(f[i])
      BY <2>1, <3>2, <3>3
    <3>5. Range(f[i]) = first(i)
      BY <2>1, <2>2, <3>2
    <3> QED
      BY <2>0, <3>4, <3>5
  <2> QED
    BY <2>3, <2>4
<1> HIDE DEF T
<1>7a. \A i \in 0..n : i \in T
  BY <1>2, <1>5, <1>6, InductionTo
<1>7. n \in T
  BY <1>2, <1>7a
<1>8. Range(s) = first(n)
  <2>1. {k \in 1..n : k <= n} = 1..n
    BY <1>2
  <2>2. Range(s) = {s[j] : j \in 1..n}
    BY <1>2 DEF Range
  <2> QED
    BY <2>1, <2>2
<1>9. Once(f[n]) /\ Range(f[n]) = first(n)
  BY <1>7 DEF T
<1> HIDE DEF first
<1> QED
  BY <1>1, <1>8, <1>9

LEMMA CountWorks ==
  ASSUME NEW c \in Callers, FlowInv(c), CountInv(c), FlowWork(c), CountWork(c)
  PROVE  CountInv(c)'
<1>0. Running(c) /\ call[c].hit = {} /\ call[c].n = 0 /\ call[c].exact
  BY DEF FlowWork, CountInv
<1>1. CASE St(c) \notin {"id", "ids", "move", "mark"}
  BY <1>0, <1>1 DEF CountWork, CountInv
<1>2. ASSUME NEW ids, NEW asked, IsFiniteSet(asked), Range(ids) = asked, Len(ids) = Cardinality(asked),
             call'[c].ids = ids, call'[c].asked = asked, St(c) \notin {"move", "mark"}
      PROVE  CountInv(c)'
  <2>1. call'[c].hit = {} /\ call'[c].n = 0 /\ call'[c].exact
    BY <1>0, <1>2 DEF CountWork
  <2>2. Cardinality({}) = 0
    BY FS_EmptySet
  <2> QED
    BY <1>2, <2>1, <2>2 DEF CountInv
<1>3. CASE St(c) = "id"
  <2>1. PICK u : call'[c].ids = <<u>> /\ call'[c].asked = {u}
    BY <1>3 DEF CountWork
  <2>2. IsFiniteSet({u}) /\ Cardinality({u}) = 1
    BY FS_Singleton
  <2>3. Range(<<u>>) = {u} /\ Len(<<u>>) = 1
    BY DEF Range
  <2> QED
    BY <1>2, <1>3, <2>1, <2>2, <2>3
<1>4. CASE St(c) = "ids"
  <2>1. CASE call'[c].ids = call[c].ids /\ call'[c].asked = call[c].asked
    BY <1>2, <1>4, <2>1 DEF CountInv
  <2>2. ASSUME NEW ids \in IdLists, parseUIDs(ids) # <<>>, call'[c].ids = parseUIDs(ids),
               call'[c].asked = Range(ids)
        PROVE  CountInv(c)'
    <3>1. ids \in Seq(Nat)
      BY InputAssumption
    <3>2. parseUIDs(ids) = DedupUIDs(ids)
      BY <2>2 DEF parseUIDs
    <3>3. /\ Range(DedupUIDs(ids)) = Range(ids) /\ IsFiniteSet(Range(ids))
          /\ Len(DedupUIDs(ids)) = Cardinality(Range(ids))
      BY <3>1, DedupIs
    <3> QED
      BY <1>2, <1>4, <2>2, <3>2, <3>3
  <2> QED
    BY <1>4, <2>1, <2>2 DEF CountWork
<1>5. CASE St(c) \in {"move", "mark"}
  <2>1. ~Running(c)'
    <3>1. call[c].pc = Len(Handlers[call[c].tool]) /\ call[c].pc \in Nat
      BY <1>0, <1>5, Placed DEF Places, St
    <3>2. Advances(c, 1)
      BY <1>5, WorksLands DEF Lands
    <3>3. call'[c].pc = 0
      BY <3>1, <3>2 DEF Advances
    <3> QED
      BY <3>3 DEF Running
  <2>2. /\ call'[c].ids = call[c].ids /\ call'[c].asked = call[c].asked
        /\ call'[c].hit = Range(call[c].ids) \cap Range(inbox)
        /\ \/ call'[c].n = Cardinality(call'[c].hit)
           \/ call'[c].n = 0 /\ ~call'[c].exact
    BY <1>5 DEF CountWork
  <2> QED
    BY <2>1, <2>2 DEF CountInv
<1> QED
  BY <1>1, <1>3, <1>4, <1>5

LEMMA IdleCount ==
  /\ Range(Idle.ids) = Idle.asked /\ IsFiniteSet(Idle.asked) /\ Idle.hit = {} /\ Idle.n = 0
  /\ Len(Idle.ids) = Cardinality(Idle.asked) /\ Idle.exact /\ Cardinality(Idle.hit) = 0
  /\ Idle.hit \subseteq Idle.asked
<1>1. Idle.ids = <<>> /\ Idle.asked = {} /\ Idle.hit = {} /\ Idle.n = 0 /\ Idle.exact = TRUE
  BY DEF Idle
<1>2. Range(<<>>) = {} /\ Len(<<>>) = 0
  BY DEF Range
<1> HIDE DEF Idle
<1> QED
  BY <1>1, <1>2, FS_EmptySet

LEMMA CountStep ==
  ASSUME Shape, Step, \A c \in Callers : FlowInv(c) /\ CountInv(c)
  PROVE  \A c \in Callers : CountInv(c)'
<1>1. ASSUME NEW c \in Callers, Steady(c) PROVE CountInv(c)'
  <2>1. /\ call'[c].ids = call[c].ids /\ call'[c].asked = call[c].asked
        /\ call'[c].hit = call[c].hit /\ call'[c].n = call[c].n
        /\ call'[c].exact = call[c].exact /\ call'[c].pc = call[c].pc
    BY <1>1 DEF Steady, Same, Fields
  <2> QED
    BY <2>1 DEF CountInv, Running
<1>2. ASSUME NEW c \in Callers, Starts(c) \/ Stops(c) PROVE CountInv(c)'
  <2>1. /\ call'[c].ids = Idle.ids /\ call'[c].asked = Idle.asked
        /\ call'[c].hit = Idle.hit /\ call'[c].n = Idle.n
        /\ call'[c].exact = Idle.exact
    <3>1. {"ids", "asked", "hit", "n", "exact"} \subseteq Fields \ {"tool", "pc"}
      BY DEF Fields
    <3> QED
      BY <1>2, <3>1, ResetAs
  <2> QED
    BY <2>1, IdleCount DEF CountInv
<1> QED
  BY <1>1, <1>2, CountWorks, StepActs DEF Rests, Acts, Works

\* Whoever else moves mail meanwhile, and however often an id is repeated,
\* what an answer reports as changed this call has changed (CountsTrue).
THEOREM CountsAreTrue == Spec => []CountsTrue
<1> DEFINE Inv == CallInv /\ \A c \in Callers : CountInv(c)
<1>1. Init => Inv
  BY CallInvInit, IdleStart, IdleCount DEF CountInv
<1>2. Inv /\ [Next]_vars => Inv'
  <2> SUFFICES ASSUME Inv, [Next]_vars PROVE \A c \in Callers : CountInv(c)'
    BY CallInvStep
  <2>1. CASE Next
    BY <2>1, CountStep DEF Next, CallInv
  <2>2. CASE UNCHANGED vars
    BY <2>2 DEF vars, CountInv, Running
  <2> QED
    BY <2>1, <2>2
<1>3. Inv => CountsTrue
  <2> SUFFICES ASSUME Inv, NEW c \in Callers
               PROVE  LET r == call[c]
                      IN  /\ r.n <= Cardinality(r.hit)
                          /\ r.n = Len(r.ids) => r.hit = r.asked
                          /\ r.exact => Len(r.ids) - r.n = Cardinality(r.asked \ r.hit)
    BY DEF CountsTrue
  <2> DEFINE asked == call[c].asked
             hit == call[c].hit
             n == call[c].n
  <2>1. /\ IsFiniteSet(asked) /\ hit \subseteq asked /\ Len(call[c].ids) = Cardinality(asked)
        /\ n = Cardinality(hit) \/ (n = 0 /\ ~call[c].exact)
    BY DEF CountInv
  <2> HIDE DEF asked, hit, n
  <2>2. IsFiniteSet(hit) /\ Cardinality(hit) \in Nat /\ Cardinality(asked) \in Nat
    BY <2>1, FS_Subset, FS_CardinalityType
  <2>3. Cardinality(hit) = Cardinality(asked) => hit = asked
    BY <2>1, FS_Subset
  <2>4. Cardinality(asked \ hit) = Cardinality(asked) - Cardinality(hit)
    <3>1. asked \cap hit = hit
      BY <2>1
    <3>2. Cardinality(asked \ hit) = Cardinality(asked) - Cardinality(asked \cap hit)
      BY <2>1, FS_Difference
    <3> QED
      BY <3>1, <3>2
  <2>5. Cardinality(asked) = 0 => hit = asked
    BY <2>1, FS_EmptySet
  <2> QED
    BY <2>1, <2>2, <2>3, <2>4, <2>5 DEF asked, hit, n
<1> QED
  BY <1>1, <1>2, <1>3, PTL DEF Spec
-----------------------------------------------------------------------------
(* What is shown may be read *)

\* Broken names nobody: a handle that is no handle, and no default.
LEMMA NamesStep ==
  ASSUME NamesInv, Step
  PROVE  NamesInv'
<1> DEFINE Kept == names' = names /\ override' = override
<1>1. ASSUME NEW c \in Callers, Resolving(c), ~TruncateConfig(c), \A h \in Handles : ~NameIdentity(c, h)
      PROVE  Kept
  BY <1>1 DEF Resolving, ResolveIdentity, Stat, Create, Fill, FillFails, LoadConfig, Load, Unmoved, idVars
<1>2. ASSUME NEW c \in Callers, Listing(c) PROVE Kept
  BY <1>2 DEF Listing, Select, Search, searchFallback, Retry, Fetch, ServerFails, Unmoved, idVars
<1>3. ASSUME NEW c \in Callers, Reading(c) PROVE Kept
  BY <1>3 DEF Reading, FetchMessage, FetchRaw, Gate, VerifySignatures, VerifyRaw, Extract, Expose, Redact,
              Unmoved, idVars
<1>4. ASSUME NEW c \in Callers, Changing(c) PROVE Kept
  BY <1>4 DEF Changing, OneId, ManyIds, MoveMessages, SetSeenBatch, Add, RemoveFound, OpenTmp, WriteTmp,
              WriteFails, Rename, RenameFails, Unmoved, idVars
<1>5. ASSUME NEW c \in Callers, Finish(c) \/ \E t \in DOMAIN Handlers : Begin(c, t) PROVE Kept
  BY <1>5 DEF Finish, Begin, idVars
<1>6. CASE Arrive
  BY <1>6 DEF Arrive, idVars, NamesInv
<1>7. ASSUME NEW c \in Callers, Crash(c) PROVE NamesInv'
  BY <1>7 DEF Crash, NamesInv
<1>8. ASSUME NEW h \in Handles \cup {""}, switchIdentity(h) PROVE NamesInv'
  <2>1. names' = names /\ (override' \in {None, override} \/ (h \in Handles /\ override' = EmailOf[h] /\ EmailOf[h] # Broken))
    BY <1>8, IdentityAssumption DEF switchIdentity, fromEthos
  <2>2. h \in Handles => EmailOf[h] \in Emails \cup {Broken}
    BY IdentityAssumption
  <2> QED
    BY <2>1, <2>2 DEF NamesInv
<1>9. ASSUME NEW f \in Handles \cup {"empty"}, names' = [names EXCEPT !.repo = f], override' = override
      PROVE  NamesInv'
  <2>1. DOMAIN names = {"repo", "active", "default"}
    BY DEF NamesInv
  <2>2. /\ DOMAIN names' = {"repo", "active", "default"}
        /\ names'.repo = f /\ names'.active = names.active /\ names'.default = names.default
    BY <1>9, <2>1
  <2> QED
    BY <1>9, <2>2 DEF NamesInv
<1>10. ASSUME NEW c \in Callers, TruncateConfig(c) PROVE NamesInv'
  BY <1>9, <1>10 DEF TruncateConfig
<1>11. ASSUME NEW c \in Callers, NEW h \in Handles, NameIdentity(c, h) PROVE NamesInv'
  BY <1>9, <1>11 DEF NameIdentity
<1>12. Kept => NamesInv'
  BY DEF NamesInv
<1> QED
  BY <1>1, <1>2, <1>3, <1>4, <1>5, <1>6, <1>7, <1>8, <1>10, <1>11, <1>12 DEF Step

\* A tool that finds an identity finds the one it should act as.
LEMMA WhoIs ==
  ASSUME NEW c \in Tools, NamesInv, Who(c) # Broken
  PROVE  Who(c) = Named /\ Who(c) \in Emails
<1>1. CASE override # None
  BY <1>1 DEF Who, Named, NamesInv
<1>2. CASE override = None
  <2> DEFINE repo == names.repo
             active == names.active
             default == names.default
  <2>1. /\ repo \in Handles \cup {"absent", "empty", Broken}
        /\ active \in Handles \cup {"absent", "empty", Broken}
        /\ default \in Emails \cup {"absent", "empty"}
    BY DEF NamesInv
  <2>2. \A h \in Handles : h \notin {"", "absent", "empty", Broken} /\ EmailOf[h] \in Emails \cup {Broken}
    BY IdentityAssumption
  <2>3. Broken \notin {"", "absent", "empty"}
    BY DEF Broken
  <2>4. Who(c) = Resolve(names)
    BY <1>2 DEF Who
  <2>5. CASE repo \notin {"absent", "empty"}
    <3>1. Speaks(repo) /\ Who(c) = fromEthos(repo)
      BY <2>1, <2>2, <2>3, <2>4, <2>5 DEF Speaks, Resolve, resolveHandle, readRepoEthosConfig
    <3>2. Named = fromEthos(repo)
      BY <1>2, <3>1 DEF Named
    <3>3. repo \in Handles /\ fromEthos(repo) = EmailOf[repo]
      BY <2>1, <2>5, <3>1 DEF fromEthos
    <3> QED
      BY <2>2, <3>1, <3>2, <3>3
  <2>6. CASE repo \in {"absent", "empty"} /\ active \notin {"absent", "empty"}
    <3>1. ~Speaks(repo) /\ Speaks(active) /\ Who(c) = fromEthos(active)
      BY <2>1, <2>2, <2>3, <2>4, <2>6 DEF Speaks, Resolve, resolveHandle, readRepoEthosConfig
    <3>2. Named = fromEthos(active)
      BY <1>2, <3>1 DEF Named
    <3>3. active \in Handles /\ fromEthos(active) = EmailOf[active]
      BY <2>1, <2>6, <3>1 DEF fromEthos
    <3> QED
      BY <2>2, <3>1, <3>2, <3>3
  <2>7. CASE repo \in {"absent", "empty"} /\ active \in {"absent", "empty"}
    <3>1. ~Speaks(repo) /\ ~Speaks(active) /\ Who(c) = fromDefault(names)
      BY <2>4, <2>7 DEF Speaks, Resolve, resolveHandle, readRepoEthosConfig
    <3>2. Named = fromDefault(names)
      BY <1>2, <3>1 DEF Named
    <3> QED
      BY <2>1, <3>1, <3>2 DEF fromDefault
  <2> QED
    BY <2>5, <2>6, <2>7
<1> QED
  BY <1>1, <1>2

\* What a reader observes on a step: nothing of it is forgotten.
LEMMA Observed ==
  ASSUME NEW c \in Tools, call'[c].tool \in Readers, Observe
  PROVE  /\ force[c] \subseteq force'[c]
         /\ \A e \in Emails : \E v \in force'[c] :
              /\ v.id = e /\ v.book = files'[e]["contacts.json"].book
              /\ e = Named' => v.named
<1>1. c \in Callers
  BY IdentityAssumption
<1>2. force'[c] = force[c] \cup InForce'
  BY <1>1 DEF Observe
<1>3. ASSUME NEW e \in Emails
      PROVE  \E v \in force'[c] : /\ v.id = e /\ v.book = files'[e]["contacts.json"].book
                                  /\ e = Named' => v.named
  <2> DEFINE v == [id |-> e, book |-> files'[e]["contacts.json"].book, named |-> e = Named']
  <2>1. v \in InForce'
    BY DEF InForce
  <2>2. v.id = e /\ v.book = files'[e]["contacts.json"].book /\ (e = Named' => v.named)
    OBVIOUS
  <2> QED
    BY <1>2, <2>1, <2>2
<1> QED
  BY <1>2, <1>3

LEMMA ReadWorks ==
  ASSUME NEW c \in Tools, call[c].tool \in Readers, Shape, FlowInv(c), NamesInv, ReadInv(c),
         FlowWork(c), ReadWork(c), TrustWork(c), Observe
  PROVE  ReadInv(c)'
<1> DEFINE t == call[c].tool
           pc == call[c].pc
           id == call[c].id
           new == call'[c].pc
           one == t \in {"read_message", "download_attachment"}
           last == Len(Handlers[t])
<1>1. /\ c \in Callers /\ Running(c) /\ call'[c].tool = t
      /\ t \in DOMAIN Handlers /\ Layout(t) /\ Places(t) /\ pc \in 1..Len(Handlers[t]) /\ Lands(c)
  BY IdentityAssumption, Placed, WorksLands DEF FlowWork
<1>2. /\ Base(t) = 1 /\ t # "identity_set" /\ St(c) = Handlers[t][pc]
      /\ last \in Nat /\ last >= 13
  <2>1. /\ t \in Listings => last >= SelectAt(t) + 3
        /\ one => last = 13
    BY <1>1 DEF Places
  <2>2. one \/ (t \in Listings /\ SelectAt(t) = 10)
    BY DEF Readers, Listings, Searches, SelectAt
  <2>3. last \in Nat
    BY <1>1 DEF Layout
  <2> HIDE DEF one, last
  <2>4. last \in Nat /\ last >= 13
    BY <2>1, <2>2, <2>3
  <2>5. Base(t) = 1 /\ t # "identity_set"
    BY DEF Base, Readers
  <2> QED
    BY <2>4, <2>5 DEF St
<1>3. /\ force[c] \subseteq force'[c]
      /\ \A e \in Emails : \E v \in force'[c] :
           /\ v.id = e /\ v.book = files'[e]["contacts.json"].book
           /\ e = Named' => v.named
  BY <1>1, Observed
<1>4. /\ pc = 1 <=> St(c) = "identity"
      /\ pc \in 2..7 \/ St(c) \notin {"create", "fill"}
      /\ pc = 9 <=> St(c) = "contacts"
      /\ St(c) = "gate" <=> one /\ pc = 11
      /\ St(c) = "expose" <=> one /\ pc = 13
      /\ St(c) = "redact" => ~one /\ pc = 15
      /\ one => (St(c) \in {"message", "raw"} <=> pc = 10) /\ St(c) # "fetch"
      /\ one \/ pc < 10 => St(c) \notin {"select", "search", "retry"}
      /\ St(c) # "ids"
  <2> DEFINE s == Handlers[t][pc]
  <2>1. /\ s = "identity" <=> pc = 1
        /\ s = "create" => pc = 3 \/ pc = 6
        /\ s = "fill" => pc = 4 \/ pc = 7
    <3>1. /\ s = "identity" => pc = Base(t)
          /\ pc = Base(t) => s = "identity"
          /\ s = "create" => pc = Base(t) + 2 \/ pc = Base(t) + 5
          /\ s = "fill" => pc = Base(t) + 3 \/ pc = Base(t) + 6
      BY <1>1, <1>2 DEF Layout
    <3> QED
      BY <1>2, <3>1
  <2>2. /\ s = "gate" <=> one /\ pc = 11
        /\ s = "expose" <=> one /\ pc = 13
        /\ s = "redact" => t \in {"list_messages", "search_messages"} /\ pc = 15
        /\ one => (s \in {"message", "raw"} <=> pc = 10)
        /\ s = "select" <=> t \in Listings /\ pc = SelectAt(t)
        /\ s = "search" <=> t \in Listings /\ pc = SelectAt(t) + 1
        /\ s = "retry" <=> t \in Listings /\ pc = SelectAt(t) + 2
        /\ s = "fetch" <=> t \in Listings /\ pc = SelectAt(t) + 3
        /\ (s = "contacts" <=> pc = 9) /\ s # "ids"
    BY <1>1 DEF Places
  <2>3. /\ one => t \notin Listings /\ t \notin {"list_messages", "search_messages"}
        /\ t \in Listings => SelectAt(t) = 10
    BY DEF Readers, Listings, Searches, SelectAt
  <2>4. St(c) = s
    BY <1>2
  <2>5. pc \in Nat
    BY <1>1, <1>2
  <2> HIDE DEF s, one, pc
  <2> QED
    BY <2>1, <2>2, <2>3, <2>4, <2>5
<1> HIDE DEF pc, new, one, last
<1>5. CASE pc = 1
  <2>1. St(c) = "identity" /\ new \in 2..8 /\ ~call'[c].ok
    BY <1>1, <1>2, <1>4, <1>5 DEF Lands, pc, new
  <2>2. Who(c) # Broken /\ call'[c].id = Who(c) /\ names' = names /\ override' = override
    BY <2>1 DEF ReadWork
  <2>3. call'[c].id = Named /\ call'[c].id \in Emails /\ Named' = Named
    BY <2>2, WhoIs DEF Named
  <2>4. \E v \in force'[c] : v.named /\ v.id = call'[c].id
    BY <1>3, <2>3
  <2>5. call'[c].shown = {}
    BY <1>1, <1>5, <2>1 DEF ReadWork, ReadInv, pc
  <2> QED
    BY <2>1, <2>3, <2>4, <2>5 DEF ReadInv, Done, Running, new
<1>6. CASE pc \in 2..7
  <2>1. new \in 3..8 /\ ~call'[c].ok
    <3>1. Base(t) = 1 /\ t # "identity_set" /\ pc \in Base(t)..(Base(t) + 6)
      BY <1>2, <1>6
    <3>2. new \in (pc + 1)..(Base(t) + 7) /\ ~call'[c].ok
      BY <1>1, <3>1 DEF Lands, pc, new
    <3> QED
      BY <1>6, <3>1, <3>2
  <2>2. call'[c].id = id
    BY <1>4, <1>6 DEF ReadWork
  <2>3. id \in Emails /\ \E v \in force[c] : v.named /\ v.id = id
    BY <1>6 DEF ReadInv, pc
  <2>4. call'[c].shown = {}
    BY <1>1, <1>4, <1>6 DEF ReadWork, ReadInv, pc
  <2> QED
    BY <1>3, <2>1, <2>2, <2>3, <2>4 DEF ReadInv, Done, Running, new
<1>7. CASE pc = 8
  <2>1. new = 9 /\ ~call'[c].ok
    <3>1. St(c) \notin {"identity", "stat", "create", "fill"}
      BY <1>1, <1>2, <1>7 DEF Lands, pc
    <3>2. Advances(c, 1)
      BY <1>1, <1>4, <1>7, <3>1 DEF Lands
    <3> QED
      <4>1. ~(pc + 1 > last)
        BY <1>2, <1>7
      <4>2. new = pc + 1 /\ ~call'[c].ok
        BY <3>2, <4>1 DEF Advances, pc, new, last
      <4> QED
        BY <1>7, <4>2
  <2>2. call'[c].id = id
    BY <1>4, <1>7 DEF ReadWork
  <2>3. id \in Emails /\ \E v \in force[c] : v.named /\ v.id = id
    BY <1>7 DEF ReadInv, pc
  <2>4. call'[c].shown = {}
    BY <1>1, <1>4, <1>7 DEF ReadWork, ReadInv, pc
  <2> QED
    BY <1>3, <2>1, <2>2, <2>3, <2>4 DEF ReadInv, Done, Running, new
<1>8. CASE pc = 9
  <2>1. new = 10 /\ ~call'[c].ok
    <3>1. Advances(c, 1)
      BY <1>1, <1>4, <1>8 DEF Lands
    <3> QED
      <4>1. ~(pc + 1 > last)
        BY <1>2, <1>8
      <4>2. new = pc + 1 /\ ~call'[c].ok
        BY <3>1, <4>1 DEF Advances, pc, new, last
      <4> QED
        BY <1>8, <4>2
  <2>2. /\ call'[c].id = id /\ call'[c].shown = {}
        /\ call'[c].book = files'[id]["contacts.json"].book
    BY <1>1, <1>4, <1>8 DEF ReadWork, ReadInv, pc, Mine
  <2>3. id \in Emails /\ \E v \in force[c] : v.named /\ v.id = id
    BY <1>8 DEF ReadInv, pc
  <2> QED
    BY <1>3, <2>1, <2>2, <2>3 DEF ReadInv, Done, Running, new
<1>9. CASE pc >= 10
  <2>1. St(c) \notin {"identity", "create", "fill", "contacts"}
    BY <1>4, <1>9
  <2>2. call'[c].id = id /\ call'[c].book = call[c].book
    BY <2>1 DEF ReadWork
  <2>3. /\ id \in Emails
        /\ \E v \in force[c] : v.named /\ v.id = id
        /\ \E w \in force[c] : w.id = id /\ w.book = call[c].book
        /\ \A u \in call[c].shown : May(c, u)
        /\ one /\ pc >= 11 => DOMAIN call[c].rows = {1}
        /\ one /\ pc >= 12 => May(c, call[c].rows[1])
    <3>1. pc >= 2
      BY <1>1, <1>9 DEF pc
    <3> QED
      BY <1>9, <3>1 DEF ReadInv, pc, one
  <2>4. \A u : May(c, u)' <=> May(c, u)
    BY <2>2 DEF May
  <2>5. new = 0 \/ (new \in Nat /\ new > 10)
    <3>1. PICK n : Hop(c, n) /\ Advances(c, n)
      BY DEF FlowWork
    <3>2. n \in {1, 2, 3, 4}
      <4>1. St(c) # "stat"
        BY <1>1, <1>2, <1>9 DEF Lands, pc
      <4> QED
        BY <1>4, <2>1, <3>1, <4>1 DEF Hop
    <3> QED
      BY <1>1, <1>9, <3>1, <3>2 DEF Advances, pc, new
  <2>6. one => Advances(c, 1)
    <3>1. St(c) # "stat"
      BY <1>1, <1>2, <1>9 DEF Lands, pc
    <3> QED
      BY <1>1, <1>4, <2>1, <3>1 DEF Lands
  <2>7. \A u \in call'[c].shown : May(c, u)'
    <3>1. CASE St(c) = "expose"
      <4>1. pc = 13 /\ one
        BY <1>4, <3>1
      <4>2. DOMAIN call[c].rows = {1} /\ May(c, call[c].rows[1])
        BY <2>3, <4>1
      <4>3. call'[c].shown = Range(call[c].rows)
        BY <3>1 DEF ReadWork
      <4> QED
        BY <2>4, <4>2, <4>3 DEF Range
    <3>2. CASE St(c) = "redact"
      BY <2>4, <3>2 DEF ReadWork
    <3>3. CASE St(c) \notin {"expose", "redact"}
      BY <2>3, <2>4, <3>3 DEF ReadWork
    <3> QED
      BY <3>1, <3>2, <3>3
  <2>8. one => DOMAIN call'[c].rows = {1}
    <3> SUFFICES ASSUME one PROVE DOMAIN call'[c].rows = {1}
      OBVIOUS
    <3>1. CASE pc = 10
      <4>1. PICK u : call'[c].rows = <<u>>
        BY <1>4, <3>1 DEF TrustWork
      <4> QED
        BY <4>1
    <3>2. CASE pc > 10
      <4>1. call'[c].rows = call[c].rows
        BY <1>1, <1>4, <3>2 DEF TrustWork
      <4>2. pc >= 11
        BY <1>1, <3>2 DEF pc
      <4> QED
        BY <2>3, <4>1, <4>2
    <3> QED
      BY <1>1, <1>9, <3>1, <3>2 DEF pc
  <2>9. ASSUME one, new >= 12, NEW u, u = call'[c].rows[1] PROVE May(c, u)'
    <3>1. pc >= 11
      BY <1>1, <1>2, <1>9, <2>6, <2>9 DEF Advances, pc, new, last
    <3>2. call'[c].rows = call[c].rows
      BY <1>1, <1>4, <2>9, <3>1 DEF TrustWork, pc
    <3>3. May(c, call[c].rows[1])
      <4>1. CASE pc = 11
        BY <1>4, <2>9, <4>1 DEF ReadWork
      <4>2. CASE pc >= 12
        BY <2>3, <2>9, <4>2
      <4> QED
        BY <1>1, <3>1, <4>1, <4>2 DEF pc
    <3> QED
      BY <2>4, <2>9, <3>2, <3>3
  <2>10. ~(new > 0 /\ new <= 9)
    BY <2>5
  <2> QED
    BY <1>1, <1>3, <2>2, <2>3, <2>7, <2>8, <2>9, <2>10 DEF ReadInv, Done, Running, new, one
<1> QED
  BY <1>1, <1>5, <1>6, <1>7, <1>8, <1>9 DEF pc

LEMMA ReadStep ==
  ASSUME Shape, Step, Observe, NamesInv, \A c \in Callers : FlowInv(c),
         NEW c \in Tools, call[c].tool \in Readers => ReadInv(c), call'[c].tool \in Readers
  PROVE  ReadInv(c)'
<1>1. c \in Callers
  BY IdentityAssumption
<1>2. ASSUME Steady(c) PROVE ReadInv(c)'
  <2>1. /\ call'[c].tool = call[c].tool /\ call'[c].pc = call[c].pc /\ call'[c].ok = call[c].ok
        /\ call'[c].id = call[c].id /\ call'[c].book = call[c].book
        /\ call'[c].shown = call[c].shown /\ call'[c].rows = call[c].rows
    BY <1>2 DEF Steady, Same, Fields
  <2>2. force[c] \subseteq force'[c]
    BY Observed
  <2>3. ReadInv(c)
    BY <2>1
  <2> QED
    BY <2>1, <2>2, <2>3 DEF ReadInv, Done, Running, May
<1>3. ASSUME Starts(c) \/ Stops(c) PROVE ReadInv(c)'
  <2>1. call'[c].shown = Idle.shown /\ call'[c].pc \in {0, 1} /\ ~call'[c].ok
    <3>1. {"shown"} \subseteq Fields \ {"tool", "pc"}
      BY DEF Fields
    <3>2. call'[c].pc \in {0, 1} /\ ~call'[c].ok
      BY <1>3, StartsAs, StopsAs
    <3> QED
      BY <1>3, <3>1, <3>2, ResetAs
  <2>2. Idle.shown = {}
    BY DEF Idle
  <2> QED
    BY <2>1, <2>2 DEF ReadInv, Done
<1>4. ASSUME Works(c) PROVE ReadInv(c)'
  <2>1. call'[c].tool = call[c].tool
    BY <1>4 DEF Works, FlowWork
  <2> QED
    BY <1>1, <1>4, <2>1, ReadWorks DEF Works
<1> QED
  BY <1>1, <1>2, <1>3, <1>4, StepActs DEF Rests, Acts

\* Whatever switch_identity, identity set and editors of the contacts do in
\* the middle of a call, what it shows an identity that was to be used may
\* read, by a book of its own that was in force (ReadAuthorised).
THEOREM ReadIsAuthorised == Spec => []ReadAuthorised
<1> DEFINE Inv == CallInv /\ NamesInv /\ \A c \in Tools : call[c].tool \in Readers => ReadInv(c)
<1>1. Init => Inv
  <2> SUFFICES ASSUME Init PROVE NamesInv /\ \A c \in Tools : call[c].tool \notin Readers
    BY CallInvInit
  <2>1. Idle.tool = None /\ None \notin Readers
    BY DEF Idle, None, Readers
  <2>2. \A c \in Tools : call[c].tool \notin Readers
    BY <2>1, IdleStart, IdentityAssumption
  <2>3. NamesInv
    BY SetupAssumption DEF Init, NamesInv
  <2> QED
    BY <2>2, <2>3
<1>2. Inv /\ [Next]_vars => Inv'
  <2> SUFFICES ASSUME Inv, [Next]_vars
               PROVE  NamesInv' /\ \A c \in Tools : call'[c].tool \in Readers => ReadInv(c)'
    BY CallInvStep
  <2>1. CASE Next
    BY <2>1, NamesStep, ReadStep DEF Next, CallInv
  <2>2. CASE UNCHANGED vars
    BY <2>2 DEF vars, idVars, NamesInv, ReadInv, Done, Running, May
  <2> QED
    BY <2>1, <2>2
<1>3. Inv => ReadAuthorised
  <2> SUFFICES ASSUME Inv, NEW c \in Tools, Answered(c, Readers), NEW u \in call[c].shown
               PROVE  \E v, w \in force[c] :
                        v.named /\ v.id = w.id /\ "r" \in RightsOf(w.book, Mail[u].from, w.id)
    BY DEF ReadAuthorised
  <2>1. ReadInv(c) /\ Done(c)
    BY DEF Answered, Done
  <2> QED
    BY <2>1 DEF ReadInv, May
<1> QED
  BY <1>1, <1>2, <1>3, PTL DEF Spec
-----------------------------------------------------------------------------
(* Listings *)

LEMMA SnapMatches ==
  ASSUME NEW q, NEW s, NEW read
  PROVE  UIDSearch(q, s, Range(s) \ (Range(s) \ read)) = UIDSearch(q, s, read)
<1> DEFINE A == {u \in Range(s) : Selects(q, u, Range(s) \ (Range(s) \ read))}
           B == {u \in Range(s) : Selects(q, u, read)}
<1>1. A = B
  BY DEF Selects
<1> QED
  BY <1>1 DEF UIDSearch

\* Without criteria everything matches.
LEMMA AllMatch ==
  ASSUME NEW q, ~HasCriteria(q), NEW s, Folder(s), NEW read
  PROVE  UIDSearch(q, s, read) = s
<1> DEFINE S == {u \in Range(s) : Selects(q, u, read)}
<1>1. S = Range(s)
  BY DEF HasCriteria, Selects
<1> HIDE DEF S
<1>2. Only(s, S) = s
  BY <1>1, OnlyAll DEF Folder
<1> QED
  BY <1>2 DEF UIDSearch, S

LEMMA MatchesIn ==
  ASSUME NEW q, NEW s, Folder(s), NEW read, NEW p
  PROVE  PageOf(UIDSearch(q, s, read), p) \subseteq Range(s)
<1> DEFINE S == {u \in Range(s) : Selects(q, u, read)}
           m == Only(s, S)
<1>1. Range(m) = Range(s) \cap S
  BY OnlyIs DEF Folder
<1> HIDE DEF S, m
<1>2. PageOf(m, p) \subseteq Range(m)
  BY DEF PageOf, Range
<1> QED
  BY <1>1, <1>2 DEF UIDSearch, S, m

LEMMA PageOfNone ==
  ASSUME NEW p
  PROVE  PageOf(<<>>, p) = {}
<1> DEFINE e == <<>>
<1>1. DOMAIN e = {}
  OBVIOUS
<1> HIDE DEF e
<1>2. PageOf(e, p) = {}
  BY <1>1 DEF PageOf
<1> QED
  BY <1>2 DEF e

\* An empty page may be answered without a fetch.
LEMMA EmptyTruth ==
  ASSUME NEW r, NEW there, r.rows = <<>>, ~r.degraded, r.total = Len(MatchesOf(r)),
         PageOf(MatchesOf(r), r.page) = {}, r.page \in Sizes
  PROVE  Truthful(r, there)
<1> DEFINE e == <<>>
<1>1. Len(e) = 0 /\ Range(e) = {} /\ Increasing(e)
  BY DEF Range, Increasing
<1>2. r.page.count \in Nat
  BY DEF Sizes
<1> HIDE DEF e
<1>3. r.rows = e
  BY DEF e
<1>4. Len(r.rows) <= r.page.count /\ Increasing(r.rows) /\ Range(r.rows) = {}
  BY <1>1, <1>2, <1>3
<1> QED
  BY <1>4 DEF Truthful

\* What is fetched is the page, save for what has left the folder.
LEMMA FetchedTruth ==
  ASSUME NEW r, NEW s, NEW here, Ready(r), Folder(r.sel), r.page \in Sizes,
         s.rows = Only(r.sel, here), s.q = r.q, s.page = r.page, s.at = r.at,
         s.unseen = r.unseen, s.total = r.total, s.degraded = r.degraded
  PROVE  Truthful(s, here)
<1> DEFINE rows == s.rows
           sel == r.sel
<1>1. sel \in Seq(Nat) /\ Len(sel) \in Nat /\ r.page.count \in Nat
  BY DEF Folder, Sizes
<1>2. Range(rows) = Range(sel) \cap here /\ rows \in Seq(Nat) /\ Len(rows) <= Len(sel)
  BY <1>1, OnlyIs
<1>3. Increasing(rows)
  BY OnlyIncreasing DEF Folder
<1>4. Len(rows) \in Nat
  BY <1>2
<1>5. MatchesOf(s) = MatchesOf(r)
  BY DEF MatchesOf
<1>6. Len(rows) <= s.page.count
  BY <1>1, <1>2, <1>4 DEF Ready
<1> HIDE DEF rows, sel
<1> QED
  BY <1>2, <1>3, <1>5, <1>6 DEF Ready, Truthful, rows, sel

\* New mail belongs to no page taken earlier, so that what is true stays so.
LEMMA TruthStays ==
  ASSUME NEW r, NEW s, NEW here, NEW then, NEW next \in Nat, Truthful(r, here), Taken(r, next),
         then \subseteq here \cup {next},
         s.rows = r.rows, s.q = r.q, s.page = r.page, s.at = r.at,
         s.unseen = r.unseen, s.total = r.total, s.degraded = r.degraded
  PROVE  Truthful(s, then)
<1>1. MatchesOf(s) = MatchesOf(r)
  BY DEF MatchesOf
<1> DEFINE page == PageOf(MatchesOf(r), r.page)
<1>2. page \subseteq Range(r.at)
  BY MatchesIn DEF MatchesOf, Taken
<1>3. next \notin Range(r.at)
  BY DEF Taken
<1>4. page \cap then \subseteq page \cap here
  BY <1>2, <1>3
<1> QED
  BY <1>1, <1>4 DEF Truthful

LEMMA TakenStays ==
  ASSUME NEW r, NEW s, NEW next \in Nat, NEW later \in {next, next + 1}, Taken(r, next), s.at = r.at
  PROVE  Taken(s, later)
<1>1. ASSUME NEW u \in Range(r.at) PROVE u < later
  <2>1. u \in Nat /\ u < next
    BY DEF Taken, Folder, Range
  <2> QED
    BY <2>1
<1> QED
  BY <1>1 DEF Taken

\* What a step may do to the folder.
LEMMA MailMoves ==
  ASSUME BoxInv, Step
  PROVE  /\ Range(inbox') \subseteq Range(inbox) \cup {uidnext}
         /\ uidnext \in Nat /\ uidnext' \in {uidnext, uidnext + 1}
<1>1. CASE Stands
  BY <1>1 DEF Stands, BoxInv
<1>2. CASE Leaves
  <2>1. PICK S : inbox' = Only(inbox, S)
    BY <1>2 DEF Leaves
  <2>2. Range(Only(inbox, S)) \subseteq Range(inbox)
    BY OnlyIs DEF BoxInv, Folder
  <2> QED
    BY <1>2, <2>1, <2>2 DEF BoxInv, Leaves
<1>3. CASE Delivers
  <2>1. Range(Append(inbox, uidnext)) = Range(inbox) \cup {uidnext}
    BY Appended DEF BoxInv
  <2> QED
    BY <1>3, <2>1 DEF BoxInv, Delivers
<1> QED
  BY <1>1, <1>2, <1>3, StepMail

\* What SEARCH has found is ready to be fetched, or nothing is to be.
LEMMA FoundLeads ==
  ASSUME NEW c \in Callers, BoxInv, NEW k \in Nat, NEW q, call[c].page \in Sizes, FoundWork(c, k, q),
         call'[c].page = call[c].page, call'[c].rows = <<>>, ~call'[c].degraded
  PROVE  /\ Taken(call'[c], uidnext)
         /\ \/ Advances(c, k) /\ Ready(call'[c])
            \/ Advances(c, k + 1) /\ Truthful(call'[c], Range(inbox'))
<1> DEFINE uids == UIDSearch(q, inbox, seen)
           p == call[c].page
           sel == window(uids, p.count, p.offset)
           r == call'[c]
<1>1. /\ Advances(c, IF sel = <<>> THEN k + 1 ELSE k)
      /\ r.q = q /\ r.sel = sel /\ r.total = Len(uids)
      /\ r.at = inbox /\ r.unseen = Range(inbox) \ seen
      /\ r.page = p
  BY DEF FoundWork
<1>2. MatchesOf(r) = uids
  BY <1>1, SnapMatches DEF MatchesOf
<1>3. /\ Len(sel) <= p.count /\ Range(sel) = PageOf(uids, p)
      /\ sel = <<>> => PageOf(uids, p) = {}
  BY FoundSel DEF BoxInv
<1>4. Taken(r, uidnext)
  BY <1>1 DEF Taken, BoxInv
<1> HIDE DEF uids, sel, r
<1>5. CASE sel = <<>>
  <2>1. PageOf(MatchesOf(r), r.page) = {} /\ r.total = Len(MatchesOf(r)) /\ r.page \in Sizes
    BY <1>1, <1>2, <1>3, <1>5
  <2>2. r.rows = <<>> /\ ~r.degraded
    BY DEF r
  <2>3. Truthful(r, Range(inbox'))
    BY <2>1, <2>2, EmptyTruth
  <2> QED
    BY <1>1, <1>4, <1>5, <2>3 DEF r
<1>6. CASE sel # <<>>
  <2>1. ~r.degraded
    BY DEF r
  <2>2. Ready(r)
    BY <1>1, <1>2, <1>3, <2>1 DEF Ready
  <2> QED
    BY <1>1, <1>4, <1>6, <2>2 DEF r
<1> QED
  BY <1>5, <1>6

LEMMA ListWorks ==
  ASSUME NEW c \in Callers, call[c].tool \in Listings, BoxInv, Step, FlowInv(c), SelInv(c), ListInv(c),
         FlowWork(c), TrustWork(c), ListWork(c)
  PROVE  ListInv(c)'
<1> DEFINE t == call[c].tool
           pc == call[c].pc
           b == SelectAt(t)
           last == Len(Handlers[t])
           new == call'[c].pc
           s == St(c)
           r == call[c]
           r2 == call'[c]
<1>1. /\ Running(c) /\ r2.tool = t
      /\ t \in DOMAIN Handlers /\ Layout(t) /\ Places(t) /\ pc \in 1..last /\ Lands(c)
  BY Placed, WorksLands DEF FlowWork
<1>2. /\ Base(t) = 1 /\ t # "identity_set" /\ b \in {9, 10}
      /\ last \in Nat /\ last >= b + 3
  <2>1. last \in Nat
    BY <1>1 DEF Layout
  <2>2. last >= SelectAt(t) + 3
    BY <1>1 DEF Places
  <2> HIDE DEF last
  <2> QED
    BY <2>1, <2>2 DEF Base, Listings, Searches, SelectAt
<1>3. /\ s \in {"identity", "stat", "create", "fill"} => pc \in 1..7
      /\ s = "select" <=> pc = b
      /\ s = "search" <=> pc = b + 1
      /\ s = "retry" <=> pc = b + 2
      /\ s = "fetch" <=> pc = b + 3
      /\ s \notin {"message", "raw", "ids"}
  <2>1. /\ Handlers[t][pc] = "select" <=> pc = SelectAt(t)
        /\ Handlers[t][pc] = "search" <=> pc = SelectAt(t) + 1
        /\ Handlers[t][pc] = "retry" <=> pc = SelectAt(t) + 2
        /\ Handlers[t][pc] = "fetch" <=> pc = SelectAt(t) + 3
        /\ Handlers[t][pc] \notin {"message", "raw", "ids"}
    BY <1>1 DEF Places
  <2>2. s \in {"identity", "stat", "create", "fill"} => pc \in 1..7
    BY <1>1, <1>2 DEF Lands
  <2> QED
    BY <2>1, <2>2 DEF St
<1> HIDE DEF pc, b, last, new, s, r, r2
<1>4. ASSUME NEW n \in 1..4, Advances(c, n)
      PROVE  /\ pc + n <= last => new = pc + n /\ ~r2.ok
             /\ pc + n > last => new = 0 /\ r2.ok
  <2>1. pc + n <= last => ~(pc + n > last)
    BY <1>1, <1>2
  <2> QED
    BY <1>4, <2>1 DEF Advances, pc, new, last, r2
<1>5. /\ Range(inbox') \subseteq Range(inbox) \cup {uidnext}
      /\ uidnext \in Nat /\ uidnext' \in {uidnext, uidnext + 1}
  BY MailMoves
<1>6. r.page \in Sizes /\ Folder(r.sel) /\ Folder(r.view)
  BY DEF SelInv, r
<1>7. /\ pc <= b + 3 => r.rows = <<>>
      /\ pc <= b + 2 => ~r.degraded
      /\ pc <= b => r.total = 0
      /\ pc > b => Taken(r, uidnext)
      /\ pc = b + 3 => Ready(r)
      /\ pc > b + 3 => Truthful(r, Range(inbox))
  BY <1>1 DEF ListInv, pc, b, r
<1>8. /\ (new > 0 /\ new <= b + 3 => r2.rows = <<>>)
      /\ (new > 0 /\ new <= b + 2 => ~r2.degraded)
      /\ (new > 0 /\ new <= b => r2.total = 0)
      /\ (new > b \/ (new = 0 /\ r2.ok) => Taken(r2, uidnext'))
      /\ (new = b + 3 => Ready(r2))
      /\ (new > b + 3 \/ (new = 0 /\ r2.ok) => Truthful(r2, Range(inbox')))
      => ListInv(c)'
  <2>1. Done(c)' => ~(new > 0) /\ r2.ok
    BY DEF Done, Running, new, r2
  <2>2. Running(c)' <=> new > 0
    BY DEF Running, new
  <2>3. new \in Nat
    <3>1. FlowInv(c)'
      BY FlowWorks
    <3> QED
      BY <3>1 DEF FlowInv, new
  <2>4. SelectAt(call'[c].tool) = b
    BY <1>1 DEF b, r2
  <2> QED
    BY <2>1, <2>2, <2>3, <2>4 DEF ListInv, new, r2
<1>9. CASE pc < b
  <2>1. new \in Nat /\ new > 0 /\ new <= b /\ ~r2.ok
    <3>1. CASE pc <= 7
      <4>1. new \in (pc + 1)..8 /\ ~r2.ok
        BY <1>1, <1>2, <3>1 DEF Lands, pc, new, r2
      <4> QED
        BY <1>1, <1>2, <4>1
    <3>2. CASE pc > 7
      <4>1. s \notin {"identity", "stat", "create", "fill", "select", "search", "retry", "ids"}
        BY <1>1, <1>2, <1>3, <1>9, <3>2
      <4>2. Advances(c, 1)
        BY <1>1, <4>1 DEF Lands, s
      <4> QED
        BY <1>1, <1>2, <1>4, <1>9, <4>2
    <3> QED
      BY <1>1, <3>1, <3>2
  <2>2. s \notin {"select", "search", "retry", "fetch", "message", "raw"}
    BY <1>2, <1>3, <1>9
  <2>3. r2.rows = r.rows /\ r2.total = r.total /\ r2.degraded = r.degraded
    BY <2>2 DEF TrustWork, ListWork, s, r, r2
  <2> QED
    BY <1>1, <1>2, <1>7, <1>8, <1>9, <2>1, <2>3
<1>10. ASSUME pc <= b + 2, pc >= b
       PROVE  r2.rows = <<>>
  BY <1>1, <1>2, <1>3, <1>7, <1>10 DEF TrustWork, s, r, r2
<1>11. ASSUME Taken(r2, uidnext) PROVE Taken(r2, uidnext')
  BY <1>5, <1>11, TakenStays
<1>12. CASE pc = b
  <2>1. PICK q \in Queries, p \in Pages : SelectWork(c, q, p)
    BY <1>3, <1>12 DEF ListWork, s
  <2>2. /\ r2.q = q /\ r2.page = p /\ r2.at = inbox /\ r2.unseen = Range(inbox) \ seen
        /\ p \in Sizes /\ r2.rows = <<>> /\ ~r2.degraded /\ r.total = 0
    <3>1. r2.degraded = r.degraded
      BY <1>3, <1>2, <1>12 DEF ListWork, s, r, r2
    <3> QED
      BY <1>1, <1>2, <1>7, <1>10, <1>12, <2>1, <3>1, InputAssumption DEF SelectWork, Sizes, r2
  <2>3. Folder(inbox) /\ Taken(r2, uidnext')
    BY <1>11, <2>2 DEF Taken, BoxInv
  <2>4. MatchesOf(r2) = UIDSearch(q, inbox, seen)
    BY <2>2, SnapMatches DEF MatchesOf
  <2>5. CASE Advances(c, 4) /\ Len(inbox) = 0 /\ r2.total = r.total
    <3>1. inbox = <<>>
      BY <2>3, <2>5 DEF Folder
    <3>2. MatchesOf(r2) = <<>>
      <4>1. Range(inbox) = {}
        BY <2>3, <2>5 DEF Folder, Range
      <4>2. {u \in Range(inbox) : Selects(q, u, seen)} = Range(inbox)
        BY <4>1
      <4>3. Only(inbox, Range(inbox)) = inbox
        BY <2>3, OnlyAll DEF Folder
      <4> QED
        BY <2>4, <3>1, <4>2, <4>3 DEF UIDSearch
    <3>3. Len(<<>>) = 0
      OBVIOUS
    <3>4. r2.total = Len(MatchesOf(r2)) /\ PageOf(MatchesOf(r2), r2.page) = {}
      BY <2>2, <2>5, <3>2, <3>3, PageOfNone
    <3>5. Truthful(r2, Range(inbox'))
      BY <2>2, <3>4, EmptyTruth
    <3>6. (new = b + 4 \/ new = 0)
      BY <1>2, <1>4, <1>12, <2>5
    <3> QED
      BY <1>2, <1>8, <2>2, <2>3, <3>5, <3>6
  <2>6. CASE /\ Advances(c, 3) /\ ~HasCriteria(q) /\ p.offset = 0
             /\ r2.sel = Recent(inbox, Len(inbox), p.count) /\ r2.total = Len(inbox)
    <3>1. MatchesOf(r2) = inbox
      BY <2>3, <2>4, <2>6, AllMatch
    <3>2. Len(inbox) \in Nat
      BY <2>3 DEF Folder
    <3>3. Len(r2.sel) <= p.count /\ Range(r2.sel) = PageOf(inbox, p)
      <4> DEFINE w == Recent(inbox, Len(inbox), p.count)
      <4>1. Len(w) <= p.count /\ (p.offset = 0 => Range(w) = PageOf(inbox, p))
        BY <2>2, <2>3, <3>2, RecentIs
      <4> HIDE DEF w
      <4> QED
        BY <2>6, <4>1 DEF w
    <3>4. Ready(r2)
      BY <2>2, <2>6, <3>1, <3>3 DEF Ready
    <3>5. new = b + 3 /\ ~r2.ok
      BY <1>2, <1>4, <1>12, <2>6
    <3> QED
      BY <1>2, <1>8, <2>2, <2>3, <3>4, <3>5
  <2>7. CASE Advances(c, 1)
    <3>1. new = b + 1 /\ ~r2.ok
      BY <1>2, <1>4, <1>12, <2>7
    <3> QED
      BY <1>2, <1>8, <2>2, <2>3, <3>1
  <2> QED
    BY <2>1, <2>5, <2>6, <2>7 DEF SelectWork, r, r2
<1>13. ASSUME NEW k \in 1..2, pc + k = b + 3, NEW q, FoundWork(c, k, q)
       PROVE  ListInv(c)'
  <2>1. pc = b + 1 \/ pc = b + 2
    BY <1>1, <1>2, <1>13
  <2>2. r2.page = r.page /\ r2.rows = <<>> /\ ~r2.degraded
    <3>1. s # "select"
      BY <1>1, <1>2, <1>3, <2>1
    <3>2. r2.page = r.page
      BY <3>1 DEF ListWork, s, r, r2
    <3>3. r2.degraded = r.degraded
      BY <1>13 DEF FoundWork, r, r2
    <3> QED
      BY <1>1, <1>2, <1>7, <1>10, <2>1, <3>2, <3>3
  <2>3. /\ Taken(r2, uidnext)
        /\ \/ Advances(c, k) /\ Ready(r2)
           \/ Advances(c, k + 1) /\ Truthful(r2, Range(inbox'))
    <3>1. /\ call[c].page \in Sizes /\ call'[c].page = call[c].page
          /\ call'[c].rows = <<>> /\ ~call'[c].degraded
      BY <1>6, <2>2 DEF r, r2
    <3>2. k \in Nat
      BY <1>13
    <3>3. /\ Taken(call'[c], uidnext)
          /\ \/ Advances(c, k) /\ Ready(call'[c])
             \/ Advances(c, k + 1) /\ Truthful(call'[c], Range(inbox'))
      BY <1>13, <3>1, <3>2, FoundLeads
    <3> QED
      BY <3>3 DEF r2
  <2>4. CASE Advances(c, k) /\ Ready(r2)
    <3>1. new = b + 3 /\ ~r2.ok
      BY <1>2, <1>4, <1>13, <2>4
    <3> QED
      BY <1>2, <1>8, <1>11, <2>2, <2>3, <2>4, <3>1
  <2>5. CASE Advances(c, k + 1) /\ Truthful(r2, Range(inbox'))
    <3>1. k + 1 \in 1..4 /\ pc + (k + 1) = b + 4
      BY <1>1, <1>2, <1>13
    <3>2. new = b + 4 \/ new = 0
      BY <1>4, <1>2, <2>5, <3>1
    <3> QED
      BY <1>2, <1>8, <1>11, <2>2, <2>3, <2>5, <3>2
  <2> QED
    BY <2>3, <2>4, <2>5
<1>14. CASE pc = b + 1
  <2>1. FoundWork(c, 2, r.q) \/ FallbackWork(c)
    BY <1>3, <1>14 DEF ListWork, s, r
  <2>2. r2.page = r.page /\ r2.rows = <<>> /\ ~r.degraded /\ Taken(r, uidnext)
    <3>1. s # "select"
      BY <1>2, <1>3, <1>14
    <3> QED
      BY <1>2, <1>7, <1>10, <1>14, <3>1 DEF ListWork, s, r, r2
  <2>3. CASE FoundWork(c, 2, r.q)
    <3>1. pc + 2 = b + 3
      BY <1>2, <1>14
    <3> QED
      BY <1>13, <2>3, <3>1
  <2>4. ASSUME r2.at = r.at PROVE Taken(r2, uidnext')
    BY <1>11, <2>2, <2>4 DEF Taken
  <2>5. CASE Advances(c, 1) /\ r2.degraded = r.degraded /\ r2.at = r.at
    <3>1. new = b + 2 /\ ~r2.ok
      BY <1>2, <1>4, <1>14, <2>5
    <3> QED
      BY <1>2, <1>8, <2>2, <2>4, <2>5, <3>1
  <2>6. ASSUME Advances(c, 2), r2.q = r.q, ~r.q.unread, r2.at = r.at, r2.degraded = TRUE,
               NEW v \in {r.view, Only(r.view, Range(inbox))},
               r2.sel = Recent(v, Len(r.view), r.page.count)
        PROVE  ListInv(c)'
    <3>1. Folder(v) /\ Len(r.view) \in Nat
      BY <1>6, OnlyIncreasing DEF Folder
    <3>2. Len(r2.sel) <= r.page.count
      BY <1>6, <2>6, <3>1, RecentIs
    <3>3. Ready(r2)
      BY <2>2, <2>6, <3>2 DEF Ready
    <3>4. new = b + 3 /\ ~r2.ok
      BY <1>2, <1>4, <1>14, <2>6
    <3> QED
      BY <1>2, <1>8, <2>2, <2>4, <2>6, <3>3, <3>4
  <2> QED
    BY <2>1, <2>3, <2>5, <2>6 DEF FallbackWork, r, r2
<1>15. CASE pc = b + 2
  <2>1. FoundWork(c, 1, [r.q EXCEPT !.repo = FALSE])
    BY <1>3, <1>15 DEF ListWork, s, r
  <2>2. pc + 1 = b + 3
    BY <1>2, <1>15
  <2> QED
    BY <1>13, <2>1, <2>2
<1>16. CASE pc > b + 2
  <2>1. s \notin {"identity", "stat", "create", "fill", "select", "search", "retry", "ids"}
    BY <1>1, <1>2, <1>3, <1>16
  <2>2. /\ r2.q = r.q /\ r2.page = r.page /\ r2.at = r.at /\ r2.unseen = r.unseen
        /\ r2.total = r.total /\ r2.degraded = r.degraded
    BY <2>1 DEF ListWork, s, r, r2
  <2>3. Advances(c, 1)
    BY <1>1, <2>1 DEF Lands, s
  <2>4. (new \in Nat /\ new > b + 3) \/ new = 0
    BY <1>1, <1>2, <1>4, <1>16, <2>3
  <2>5. Taken(r, uidnext) /\ Taken(r2, uidnext')
    BY <1>1, <1>2, <1>7, <1>11, <1>16, <2>2 DEF Taken
  <2>6. Truthful(r2, Range(inbox'))
    <3>1. CASE pc = b + 3
      <4>1. r2.rows = Only(r.sel, Range(inbox))
        BY <1>3, <3>1 DEF TrustWork, s, r, r2
      <4>2. Truthful(r2, Range(inbox))
        BY <1>6, <1>7, <2>2, <3>1, <4>1, FetchedTruth
      <4>3. Taken(r2, uidnext)
        BY <2>2, <2>5 DEF Taken
      <4> QED
        BY <1>5, <4>2, <4>3, TruthStays
    <3>2. CASE pc > b + 3
      <4>1. s \notin {"fetch", "message", "raw"}
        BY <1>2, <1>3, <3>2
      <4>2. r2.rows = r.rows
        BY <4>1 DEF TrustWork, s, r, r2
      <4> QED
        BY <1>5, <1>7, <2>2, <2>5, <3>2, <4>2, TruthStays
    <3> QED
      BY <1>1, <1>2, <1>16, <3>1, <3>2
  <2> QED
    BY <1>2, <1>8, <2>4, <2>5, <2>6
<1> QED
  BY <1>1, <1>2, <1>9, <1>12, <1>14, <1>15, <1>16

LEMMA ListStep ==
  ASSUME Shape, Step, BoxInv, \A c \in Callers : FlowInv(c) /\ SelInv(c),
         NEW c \in Callers, call[c].tool \in Listings => ListInv(c), call'[c].tool \in Listings
  PROVE  ListInv(c)'
<1>1. ASSUME Steady(c) PROVE ListInv(c)'
  <2> DEFINE r == call[c]
             r2 == call'[c]
             b == SelectAt(r.tool)
  <2>1. /\ r2.tool = r.tool /\ r2.pc = r.pc /\ r2.ok = r.ok
        /\ r2.q = r.q /\ r2.page = r.page /\ r2.at = r.at /\ r2.unseen = r.unseen
        /\ r2.total = r.total /\ r2.degraded = r.degraded /\ r2.rows = r.rows /\ r2.sel = r.sel
    BY <1>1 DEF Steady, Same, Fields
  <2>2. ListInv(c)
    BY <2>1
  <2>3. /\ Range(inbox') \subseteq Range(inbox) \cup {uidnext}
        /\ uidnext \in Nat /\ uidnext' \in {uidnext, uidnext + 1}
    BY MailMoves
  <2>4. (Running(c)' <=> Running(c)) /\ (Done(c)' <=> Done(c)) /\ SelectAt(r2.tool) = b
    BY <2>1 DEF Running, Done
  <2>5. r.pc \in Nat /\ b \in {9, 10}
    BY DEF FlowInv, SelectAt
  <2> HIDE DEF r, r2, b
  <2>6. /\ Running(c) /\ r.pc <= b + 3 => r.rows = <<>>
        /\ Running(c) /\ r.pc <= b + 2 => ~r.degraded
        /\ Running(c) /\ r.pc <= b => r.total = 0
        /\ r.pc > b \/ Done(c) => Taken(r, uidnext)
        /\ r.pc = b + 3 => Ready(r)
        /\ r.pc > b + 3 \/ Done(c) => Truthful(r, Range(inbox))
    BY <2>2 DEF ListInv, r, b
  <2>7. r.pc > b \/ Done(c) => Taken(r2, uidnext')
    BY <2>1, <2>3, <2>6, TakenStays
  <2>8. r.pc > b + 3 \/ Done(c) => Truthful(r2, Range(inbox'))
    <3>1. r.pc > b + 3 => r.pc > b
      BY <2>5
    <3> QED
      BY <2>1, <2>3, <2>6, <3>1, TruthStays
  <2>9. r.pc = b + 3 => Ready(r2)
    <3>1. MatchesOf(r2) = MatchesOf(r)
      BY <2>1 DEF MatchesOf
    <3> QED
      BY <2>1, <2>6, <3>1 DEF Ready
  <2>10. /\ Running(c) /\ r2.pc <= b + 3 => r2.rows = <<>>
         /\ Running(c) /\ r2.pc <= b + 2 => ~r2.degraded
         /\ Running(c) /\ r2.pc <= b => r2.total = 0
         /\ r2.pc > b \/ Done(c) => Taken(r2, uidnext')
         /\ r2.pc = b + 3 => Ready(r2)
         /\ r2.pc > b + 3 \/ Done(c) => Truthful(r2, Range(inbox'))
    BY <2>1, <2>6, <2>7, <2>8, <2>9
  <2> QED
    BY <2>4, <2>10 DEF ListInv, r2
<1>2. ASSUME Starts(c) PROVE ListInv(c)'
  <2>1. /\ call'[c].rows = Idle.rows /\ call'[c].total = Idle.total
        /\ call'[c].degraded = Idle.degraded /\ call'[c].pc = 1 /\ call'[c].ok = FALSE
    <3>1. {"rows", "total", "degraded"} \subseteq Fields \ {"tool", "pc"}
      BY DEF Fields
    <3> QED
      BY <1>2, <3>1, ResetAs, StartsAs
  <2>2. Idle.rows = <<>> /\ Idle.total = 0 /\ Idle.degraded = FALSE
    BY DEF Idle
  <2>3. SelectAt(call'[c].tool) \in {9, 10}
    BY DEF SelectAt
  <2> QED
    BY <2>1, <2>2, <2>3 DEF ListInv, Done
<1>3. ASSUME Stops(c) PROVE ListInv(c)'
  <2>1. call'[c].pc = 0 /\ ~call'[c].ok
    BY <1>3, StopsAs
  <2>2. SelectAt(call'[c].tool) \in {9, 10}
    BY DEF SelectAt
  <2> QED
    BY <2>1, <2>2 DEF ListInv, Done, Running
<1>4. ASSUME Works(c) PROVE ListInv(c)'
  <2>1. call'[c].tool = call[c].tool
    BY <1>4 DEF Works, FlowWork
  <2> QED
    BY <1>4, <2>1, ListWorks DEF Works
<1> QED
  BY <1>1, <1>2, <1>3, <1>4, StepActs DEF Rests, Acts

\* However mail arrives, moves and is marked meanwhile, and whichever searches
\* fail, a listing that does not call itself degraded is the page it was asked
\* for at one moment (ListingTruthful).
THEOREM ListingsAreTruthful == Spec => []ListingTruthful
<1> DEFINE Inv == CallInv /\ \A c \in Callers : call[c].tool \in Listings => ListInv(c)
<1>1. Init => Inv
  <2> SUFFICES ASSUME Init PROVE \A c \in Callers : call[c].tool \notin Listings
    BY CallInvInit
  <2>1. Idle.tool = None /\ None \notin Listings
    BY DEF Idle, None, Listings, Searches
  <2> QED
    BY <2>1, IdleStart
<1>2. Inv /\ [Next]_vars => Inv'
  <2> SUFFICES ASSUME Inv, [Next]_vars
               PROVE  \A c \in Callers : call'[c].tool \in Listings => ListInv(c)'
    BY CallInvStep
  <2>1. CASE Next
    BY <2>1, ListStep DEF Next, CallInv
  <2>2. CASE UNCHANGED vars
    BY <2>2 DEF vars, mailVars, ListInv, Done, Running
  <2> QED
    BY <2>1, <2>2
<1>3. Inv => ListingTruthful
  <2> SUFFICES ASSUME Inv, NEW c \in Callers, Answered(c, Listings) PROVE Truthful(call[c], Range(inbox))
    BY DEF ListingTruthful, Truthful, MatchesOf, Increasing
  <2> QED
    BY DEF ListInv, Answered, Done
<1> QED
  BY <1>1, <1>2, <1>3, PTL DEF Spec
-----------------------------------------------------------------------------
(* Address books *)

LEMMA ConcatIs ==
  ASSUME NEW X, NEW a \in Seq(X), NEW z \in Seq(X), NEW r, r = a \o z
  PROVE  /\ r \in Seq(X) /\ Len(r) = Len(a) + Len(z)
         /\ \A i \in 1..Len(a) : r[i] = a[i]
         /\ \A i \in 1..Len(z) : r[Len(a) + i] = z[i]
  OBVIOUS

LEMMA RemoveAtIs ==
  ASSUME NEW X, NEW s \in Seq(X), NEW k \in 1..Len(s)
  PROVE  /\ RemoveAt(s, k) \in Seq(X) /\ Len(RemoveAt(s, k)) = Len(s) - 1
         /\ \A i \in 1..(Len(s) - 1) :
              RemoveAt(s, k)[i] = IF i < k THEN s[i] ELSE s[i + 1]
<1> DEFINE n == Len(s)
           r == RemoveAt(s, k)
           a == SubSeq(s, 1, k - 1)
           z == SubSeq(s, k + 1, n)
<1>1. n \in Nat /\ k \in Nat /\ 1 <= k /\ k <= n
  OBVIOUS
<1>2. a \in Seq(X) /\ Len(a) = k - 1 /\ \A i \in 1..(k - 1) : a[i] = s[i]
  BY <1>1
<1>3. z \in Seq(X) /\ Len(z) = n - k /\ \A i \in 1..(n - k) : z[i] = s[k + i]
  BY <1>1
<1>4. r = a \o z
  BY DEF RemoveAt
<1> HIDE DEF a, z, n, r
<1>5. /\ r \in Seq(X) /\ Len(r) = Len(a) + Len(z)
      /\ \A i \in 1..Len(a) : r[i] = a[i]
      /\ \A i \in 1..Len(z) : r[Len(a) + i] = z[i]
  <2>1. a \in Seq(X) /\ z \in Seq(X)
    BY <1>2, <1>3
  <2> QED
    BY <1>4, <2>1, ConcatIs
<1>6. ASSUME NEW i \in 1..(n - 1)
      PROVE  r[i] = IF i < k THEN s[i] ELSE s[i + 1]
  <2>1. CASE i < k
    BY <1>1, <1>2, <1>5, <2>1
  <2>2. CASE ~(i < k)
    <3> DEFINE j == i - (k - 1)
    <3>1. j \in 1..(n - k) /\ k - 1 + j = i /\ k + j = i + 1
      BY <1>1, <2>2
    <3> HIDE DEF j
    <3>2. r[k - 1 + j] = z[j] /\ z[j] = s[k + j]
      BY <1>2, <1>3, <1>5, <3>1
    <3> QED
      BY <2>2, <3>1, <3>2
  <2> QED
    BY <2>1, <2>2
<1> QED
  BY <1>1, <1>2, <1>3, <1>5, <1>6 DEF n, r

\* The loop that leaves out one element takes it out.
LEMMA OnlyRemoves ==
  ASSUME NEW X, NEW s \in Seq(X), NEW k \in 1..Len(s), NEW S,
         \A i \in 1..Len(s) : s[i] \in S <=> i # k
  PROVE  Only(s, S) = RemoveAt(s, k)
<1> DEFINE n == Len(s)
           r == RemoveAt(s, k)
<1>1. PICK f \in [0..n -> Seq(X)] : Filters(f, s, S) /\ Only(s, S) = f[n]
  BY OnlyRuns
<1>2. n \in Nat /\ k \in 1..n /\ \A i \in 1..n : s[i] \in S <=> i # k
  OBVIOUS
<1>3. \A i \in 1..n : f[i] = IF s[i] \in S THEN Append(f[i - 1], s[i]) ELSE f[i - 1]
  BY <1>1 DEF Filters
<1>4. Len(f[0]) = 0
  BY <1>1 DEF Filters
<1>r. /\ r \in Seq(X) /\ Len(r) = n - 1
      /\ \A i \in 1..(n - 1) : r[i] = IF i < k THEN s[i] ELSE s[i + 1]
  BY RemoveAtIs
<1> HIDE DEF n, r
<1> DEFINE size(i) == IF i < k THEN i ELSE i - 1
           T == {i \in 0..n : Len(f[i]) = size(i) /\ \A j \in 1..size(i) : f[i][j] = r[j]}
<1>5. 0 \in T
  BY <1>2, <1>4
<1>6. ASSUME NEW i \in 1..n, i - 1 \in T PROVE i \in T
  <2>1. /\ i - 1 \in 0..n /\ i \in 0..n /\ i \in Nat /\ f[i - 1] \in Seq(X)
        /\ Len(f[i - 1]) = size(i - 1)
        /\ \A j \in 1..size(i - 1) : f[i - 1][j] = r[j]
    BY <1>1, <1>2, <1>6
  <2>2. CASE i = k
    <3>1. f[i] = f[i - 1] /\ size(i) = size(i - 1)
      BY <1>2, <1>3, <2>2
    <3> QED
      BY <2>1, <3>1
  <2>3. CASE i # k
    <3>1. f[i] = Append(f[i - 1], s[i])
      BY <1>2, <1>3, <2>3
    <3>2. /\ Len(f[i]) = Len(f[i - 1]) + 1 /\ f[i][Len(f[i - 1]) + 1] = s[i]
          /\ \A j \in 1..Len(f[i - 1]) : f[i][j] = f[i - 1][j]
      BY <2>1, <3>1, AppendIs
    <3>3. size(i) = size(i - 1) + 1 /\ size(i) \in 1..(n - 1) /\ r[size(i)] = s[i]
      <4>1. CASE i < k
        BY <1>2, <1>r, <4>1
      <4>2. CASE i > k
        <5>1. size(i) = i - 1 /\ size(i - 1) = i - 2 /\ i - 1 \in 1..(n - 1) /\ ~(i - 1 < k)
          BY <1>2, <4>2
        <5>2. r[i - 1] = s[i - 1 + 1]
          BY <1>r, <5>1
        <5> QED
          BY <5>1, <5>2
      <4> QED
        BY <1>2, <2>3, <4>1, <4>2
    <3> HIDE DEF size
    <3>4. \A j \in 1..size(i) : j = size(i) \/ j \in 1..size(i - 1)
      BY <2>1, <3>3
    <3>5. Len(f[i]) = size(i) /\ \A j \in 1..size(i) : f[i][j] = r[j]
      BY <2>1, <3>2, <3>3, <3>4
    <3> QED
      BY <2>1, <3>5
  <2> QED
    BY <2>2, <2>3
<1> HIDE DEF T
<1>7a. \A i \in 0..n : i \in T
  BY <1>2, <1>5, <1>6, InductionTo
<1>7. n \in T
  BY <1>2, <1>7a
<1>8. Len(f[n]) = n - 1 /\ \A j \in 1..(n - 1) : f[n][j] = r[j]
  BY <1>2, <1>7 DEF T
<1>9. f[n] \in Seq(X)
  BY <1>1, <1>2
<1>10. f[n] = r
  BY <1>8, <1>9, <1>r
<1> QED
  BY <1>1, <1>10 DEF r

LEMMA NoBook ==
  IsBook(<<>>)
  BY DEF IsBook

LEMMA BookAdds ==
  ASSUME NEW b, IsBook(b), NEW card, CheckNameConflict(b, card)
  PROVE  IsBook(Append(b, card))
<1> DEFINE n == Len(b)
           r == Append(b, card)
<1>1. b \in Seq(Range(b)) /\ n \in Nat /\ DOMAIN b = 1..n
  BY DEF IsBook
<1>2. /\ Len(r) = n + 1 /\ r[n + 1] = card /\ (\A i \in 1..n : r[i] = b[i])
      /\ r \in Seq(Range(b) \cup {card}) /\ Range(r) = Range(b) \cup {card}
  <2> DEFINE X == Range(b)
  <2>1. b \in Seq(X)
    BY <1>1
  <2> HIDE DEF X
  <2>2. r = Append(b, card)
    OBVIOUS
  <2> HIDE DEF r
  <2>a. r \in Seq(X \cup {card})
    BY <2>1, <2>2, AppendIs
  <2>b. Len(r) = Len(b) + 1
    BY <2>1, <2>2, AppendIs
  <2>c. r[Len(b) + 1] = card
    BY <2>1, <2>2, AppendIs
  <2>d. Range(r) = Range(b) \cup {card}
    <3>1. \A i \in 1..Len(b) : r[i] = b[i]
      BY <2>1, <2>2, AppendIs
    <3>2. DOMAIN b = 1..n /\ DOMAIN r = 1..(n + 1)
      BY <1>1, <2>a, <2>b
    <3>3. \A i \in 1..(n + 1) : i = n + 1 \/ i \in 1..n
      BY <1>1
    <3>4. n + 1 \in 1..(n + 1) /\ \A i \in 1..n : i \in 1..(n + 1)
      BY <1>1
    <3> QED
      BY <2>c, <3>1, <3>2, <3>3, <3>4 DEF Range
  <2>3. /\ r \in Seq(X \cup {card}) /\ Len(r) = Len(b) + 1
        /\ r[Len(b) + 1] = card /\ Range(r) = Range(b) \cup {card}
    BY <2>a, <2>b, <2>c, <2>d
  <2>4. \A i \in 1..Len(b) : r[i] = b[i]
    BY <2>1, <2>2, AppendIs
  <2> QED
    BY <2>3, <2>4 DEF X
<1>3. DOMAIN r = 1..(n + 1) /\ r \in Seq(Range(r))
  BY <1>1, <1>2
<1>4. \A i \in 1..n : b[i].name # card.name
  BY <1>1 DEF CheckNameConflict
<1>5. \A i, j \in 1..n : b[i].name = b[j].name => i = j
  BY <1>1 DEF IsBook
<1> HIDE DEF n, r
<1>6. ASSUME NEW i \in 1..(n + 1), NEW j \in 1..(n + 1), r[i].name = r[j].name
      PROVE  i = j
  <2>1. \A x \in 1..(n + 1) : x = n + 1 \/ x \in 1..n
    BY <1>1
  <2> QED
    BY <1>2, <1>4, <1>5, <1>6, <2>1
<1> QED
  BY <1>3, <1>6 DEF IsBook, r

\* The one contact of that name, where there is one.
LEMMA Removes ==
  ASSUME NEW b, IsBook(b), NEW k \in DOMAIN b
  PROVE  RemoveContact(b, b[k].name) = RemoveAt(b, k)
<1> DEFINE at == {i \in DOMAIN b : b[i].name = b[k].name}
<1>0. k <= k
  BY DEF IsBook
<1>1. at = {k}
  BY DEF IsBook
<1> HIDE DEF at
<1>2. (CHOOSE i \in at : \A j \in at : i <= j) = k
  BY <1>0, <1>1
<1> QED
  BY <1>1, <1>2 DEF RemoveContact, at

LEMMA BookRemoves ==
  ASSUME NEW b, IsBook(b), NEW k \in DOMAIN b
  PROVE  /\ IsBook(RemoveAt(b, k))
         /\ RemoveAt(b, k) = Only(b, Range(b) \ {b[k]})
<1> DEFINE n == Len(b)
           r == RemoveAt(b, k)
           X == Range(b)
<1>1. b \in Seq(X) /\ n \in Nat /\ DOMAIN b = 1..n /\ k \in 1..n
  BY DEF IsBook
<1>2. /\ r \in Seq(X) /\ Len(r) = n - 1
      /\ \A i \in 1..(n - 1) : r[i] = IF i < k THEN b[i] ELSE b[i + 1]
  BY <1>1, RemoveAtIs
<1>3. \A i, j \in 1..n : b[i].name = b[j].name => i = j
  BY <1>1 DEF IsBook
<1>4. \A i \in 1..n : b[i] \in X \ {b[k]} <=> i # k
  BY <1>1, <1>3 DEF Range
<1>5. Only(b, X \ {b[k]}) = r
  BY <1>1, <1>4, OnlyRemoves
<1> HIDE DEF n, r, X
<1>6. DOMAIN r = 1..(n - 1)
  BY <1>1, <1>2
<1>7. r \in Seq(Range(r))
  BY <1>2, <1>6 DEF Range
<1> DEFINE from(i) == IF i < k THEN i ELSE i + 1
<1>8. \A i \in 1..(n - 1) : from(i) \in 1..n /\ r[i] = b[from(i)]
  BY <1>1, <1>2
<1>9. \A i, j \in 1..(n - 1) : from(i) = from(j) => i = j
  BY <1>1
<1> HIDE DEF from
<1>10. \A i, j \in 1..(n - 1) : r[i].name = r[j].name => i = j
  BY <1>3, <1>8, <1>9
<1> QED
  BY <1>5, <1>6, <1>7, <1>10 DEF IsBook, r, X

\* What remove_contact takes out is what the query found first.
LEMMA FoundRemoved ==
  ASSUME NEW b, IsBook(b), NEW S, NEW found, found = Only(b, S), found # <<>>
  PROVE  /\ IsBook(RemoveContact(b, found[1].name))
         /\ RemoveContact(b, found[1].name) = Only(b, Range(b) \ {found[1]})
<1>1. b \in Seq(Range(b)) /\ DOMAIN b = 1..Len(b)
  BY DEF IsBook
<1>2. found \in Seq(Range(b)) /\ Range(found) = Range(b) \cap S
  BY <1>1, OnlyIs
<1>3. found[1] \in Range(b)
  <2>1. Len(found) \in Nat /\ Len(found) # 0
    BY <1>2
  <2>2. 1 \in 1..Len(found)
    BY <2>1
  <2> QED
    BY <1>2, <2>2
<1>4. PICK k \in DOMAIN b : found[1] = b[k]
  BY <1>3 DEF Range
<1> QED
  BY <1>4, Removes, BookRemoves
-----------------------------------------------------------------------------
(* Whose files a call works on, and what it holds of them *)

LEMMA ResolvesTo ==
  ASSUME NamesInv, Resolve(names) # Broken
  PROVE  Resolve(names) \in Emails
<1> DEFINE repo == names.repo
           active == names.active
           default == names.default
<1>1. /\ repo \in Handles \cup {"absent", "empty", Broken}
      /\ active \in Handles \cup {"absent", "empty", Broken}
      /\ default \in Emails \cup {"absent", "empty"}
  BY DEF NamesInv
<1>2. \A h \in Handles : EmailOf[h] \in Emails \cup {Broken}
  BY IdentityAssumption
<1>3. fromDefault(names) \in Emails \cup {Broken}
  BY <1>1 DEF fromDefault
<1>4. \A h \in Handles \cup {Broken} : fromEthos(h) \in Emails \cup {Broken}
  BY <1>2 DEF fromEthos
<1>5. resolveHandle(names) \in Handles \cup {"", Broken}
  BY <1>1 DEF resolveHandle, readRepoEthosConfig
<1> QED
  BY <1>3, <1>4, <1>5 DEF Resolve

LEMMA WhoKnown ==
  ASSUME NEW c \in Callers, NamesInv, Who(c) # Broken
  PROVE  Who(c) \in Emails
  BY ResolvesTo DEF Who, NamesInv

LEMMA KnownWorks ==
  ASSUME NEW c \in Callers, NamesInv, FlowInv(c), KnownInv(c), FlowWork(c), ReadWork(c)
  PROVE  KnownInv(c)'
<1> DEFINE t == call[c].tool
           b == Base(t)
           h == Handlers[t]
           pc == call[c].pc
<1>1. /\ Layout(t) /\ pc \in 1..Len(h) /\ b \in {1, 2} /\ Running(c) /\ Lands(c)
      /\ call'[c].tool = t /\ St(c) = h[pc]
  BY Placed, WorksLands DEF FlowWork, St
<1>2. Len(h) \in Nat
  BY <1>1 DEF Layout
<1>3. call'[c].id \in Ids => KnownInv(c)'
  BY <1>1 DEF KnownInv
<1>4. t = "identity_set" => KnownInv(c)'
  BY <1>1 DEF KnownInv, Editors
<1>5. St(c) = "identity" => call'[c].id \in Ids
  BY WhoKnown DEF ReadWork, Ids
<1>6. CASE pc > b /\ t # "identity_set"
  <2>1. call[c].id \in Ids
    BY <1>6 DEF KnownInv
  <2> QED
    BY <1>3, <1>5, <2>1 DEF ReadWork, Ids
<1>7. CASE pc = b /\ t # "identity_set"
  <2>1. St(c) = "identity"
    BY <1>1, <1>7 DEF Layout
  <2> QED
    BY <1>3, <1>5, <2>1
<1>8. CASE pc < b /\ t # "identity_set"
  <2>1. pc = 1 /\ b = 2
    BY <1>1, <1>2, <1>8
  <2>2. t = "mark" /\ h[1] = "ids"
    BY <2>1, Stages_markCmd DEF Base, Handlers
  <2>3. Advances(c, 1) \/ call'[c].pc = 0
    BY <1>1, <2>1, <2>2 DEF Lands
  <2>4. call'[c].pc = 2 \/ call'[c].pc = 0
    BY <2>1, <2>3 DEF Advances
  <2>5. t \notin Editors
    BY <2>2 DEF Editors
  <2> QED
    BY <1>1, <2>1, <2>4, <2>5 DEF KnownInv
<1> QED
  BY <1>1, <1>2, <1>4, <1>6, <1>7, <1>8

LEMMA KnownStep ==
  ASSUME Shape, Step, NamesInv, \A c \in Callers : FlowInv(c) /\ KnownInv(c)
  PROVE  \A c \in Callers : KnownInv(c)'
<1>1. ASSUME NEW c \in Callers, Steady(c) PROVE KnownInv(c)'
  <2>1. /\ call'[c].id = call[c].id /\ call'[c].ok = call[c].ok
        /\ call'[c].tool = call[c].tool /\ call'[c].pc = call[c].pc
    BY <1>1 DEF Steady, Same, Fields
  <2> QED
    BY <2>1 DEF KnownInv, Done, Running
<1>2. ASSUME NEW c \in Callers, Starts(c) \/ Stops(c) PROVE KnownInv(c)'
  <2>1. call'[c].pc \in {0, 1} /\ ~call'[c].ok
    BY <1>2, StartsAs, StopsAs
  <2>2. Base(call'[c].tool) \in {1, 2}
    BY DEF Base
  <2> QED
    BY <2>1, <2>2 DEF KnownInv, Done
<1> QED
  BY <1>1, <1>2, KnownWorks, StepActs DEF Rests, Acts, Works

\* The next stage of EnsureIdentityDir.
LEMMA NextStage ==
  ASSUME NEW c \in Callers, FlowInv(c), FlowWork(c), Advances(c, 1)
  PROVE  /\ St(c) = "create" => At(c, "fill")'
         /\ St(c) = "stat" => At(c, "create")'
<1> DEFINE t == call[c].tool
           b == Base(t)
           h == Handlers[t]
           pc == call[c].pc
<1>1. /\ Layout(t) /\ pc \in 1..Len(h) /\ b \in {1, 2} /\ Running(c)
      /\ call'[c].tool = t /\ St(c) = h[pc]
  BY Placed DEF FlowWork, St
<1> SUFFICES ASSUME St(c) \in {"create", "stat"}
             PROVE  /\ St(c) = "create" => At(c, "fill")'
                    /\ St(c) = "stat" => At(c, "create")'
  OBVIOUS
<1>2. /\ Len(h) \in Nat /\ Len(h) >= b + 7
      /\ h[b + 2] = "create" /\ h[b + 3] = "fill" /\ h[b + 5] = "create" /\ h[b + 6] = "fill"
      /\ h[pc] = "stat" => pc = b + 1 \/ pc = b + 4
      /\ h[pc] = "create" => pc = b + 2 \/ pc = b + 5
  BY <1>1 DEF Layout
<1> HIDE DEF h, b, pc
<1>3. ~(pc + 1 > Len(h)) /\ pc + 1 > 0
  BY <1>1, <1>2
<1>4. call'[c].pc = pc + 1
  BY <1>3 DEF Advances, h, pc
<1>5. /\ h[pc] = "stat" => h[pc + 1] = "create"
      /\ h[pc] = "create" => h[pc + 1] = "fill"
  <2>1. b + 1 + 1 = b + 2 /\ b + 4 + 1 = b + 5 /\ b + 2 + 1 = b + 3 /\ b + 5 + 1 = b + 6
    BY <1>1
  <2> QED
    BY <1>2, <2>1
<1> QED
  BY <1>1, <1>3, <1>4, <1>5 DEF At, Running, h

LEMMA HeldWorks ==
  ASSUME NEW c \in Callers, FilesInv, FlowInv(c), KnownInv(c), HeldInv(c),
         FlowWork(c), ReadWork(c), EditWork(c)
  PROVE  HeldInv(c)'
<1>1. Running(c) /\ \A s : At(c, s) <=> St(c) = s
  BY AtSt DEF FlowWork
<1>2. IsBook(call'[c].book)
  <2>1. CASE St(c) = "contacts"
    <3>1. call[c].id \in Ids
      <4>1. Places(call[c].tool) /\ call[c].pc \in 1..Len(Handlers[call[c].tool]) /\ Base(call[c].tool) \in {1, 2}
        BY <1>1, Placed
      <4>2. call[c].tool # "identity_set" /\ call[c].pc >= 8
        BY <2>1, <4>1 DEF Places, St
      <4> QED
        BY <4>1, <4>2 DEF KnownInv
    <3>2. FileOK(Stored(call[c].id))
      BY <3>1 DEF FilesInv
    <3>3. call'[c].book = Stored(call[c].id).book
      BY <2>1 DEF ReadWork, Mine, Stored
    <3>4. IsBook(Absent.book) /\ IsBook(Torn.book)
      BY NoBook DEF Absent, Torn
    <3> QED
      BY <3>2, <3>3, <3>4 DEF FileOK
  <2>2. CASE St(c) # "contacts"
    BY <2>2 DEF ReadWork, HeldInv
  <2> QED
    BY <2>1, <2>2
<1>3. IsBook(call'[c].new)
  <2>1. CASE St(c) = "add"
    BY <2>1, BookAdds DEF EditWork, HeldInv
  <2>2. CASE St(c) = "remove"
    <3>1. PICK S : /\ Only(call[c].book, S) # <<>>
                   /\ call'[c].new = RemoveContact(call[c].book, Only(call[c].book, S)[1].name)
      BY <2>2 DEF EditWork
    <3> DEFINE found == Only(call[c].book, S)
    <3>2. found = Only(call[c].book, S) /\ IsBook(call[c].book)
      BY DEF HeldInv
    <3> HIDE DEF found
    <3>3. IsBook(RemoveContact(call[c].book, found[1].name))
      BY <3>1, <3>2, FoundRemoved
    <3> QED
      BY <3>1, <3>2, <3>3
  <2>3. CASE St(c) \notin {"add", "remove"}
    BY <2>3 DEF EditWork, HeldInv
  <2> QED
    BY <2>1, <2>2, <2>3
<1>4. \/ FileOK(call'[c].buf)
      \/ call'[c].file = "email.json" /\ (At(c, "create")' \/ At(c, "fill")')
  <2>0. FileOK(Absent)
    BY DEF FileOK
  <2>1. CASE St(c) = "stat"
    <3>1. CASE call'[c].buf = call[c].buf
      <4>1. FileOK(call[c].buf)
        BY <1>1, <2>1 DEF HeldInv
      <4> QED
        BY <3>1, <4>1
    <3>2. CASE /\ Advances(c, 1) /\ call'[c].file = call[c].file
               /\ call'[c].buf = files[Root][call[c].file]
      <4>1. At(c, "create")'
        BY <2>1, <3>2, NextStage
      <4>2. call[c].file \in {"email.json", "contacts.json"}
        <5> DEFINE t == call[c].tool
        <5>1. /\ Layout(t) /\ call[c].pc \in 1..Len(Handlers[t]) /\ Base(t) \in {1, 2}
          BY <1>1, Placed
        <5>2. t # "identity_set" /\ (call[c].pc = Base(t) + 1 \/ call[c].pc = Base(t) + 4)
          BY <2>1, <5>1 DEF Layout, St
        <5>3. /\ call[c].pc - Base(t) <= 3 => call[c].file = "email.json"
              /\ call[c].pc - Base(t) \in 4..6 => call[c].file = "contacts.json"
          BY <1>1, <5>2 DEF FlowInv
        <5> DEFINE b == Base(t)
                   pc == call[c].pc
        <5>4. /\ pc = b + 1 \/ pc = b + 4
              /\ b \in {1, 2}
              /\ pc - b <= 3 => call[c].file = "email.json"
              /\ pc - b \in 4..6 => call[c].file = "contacts.json"
          BY <5>1, <5>2, <5>3
        <5> HIDE DEF b, pc
        <5> QED
          BY <5>4
      <4>3. FileOK(files[Root]["contacts.json"])
        BY DEF FilesInv, Ids, Stored
      <4> QED
        BY <3>2, <4>1, <4>2, <4>3
    <3> QED
      BY <2>1, <3>1, <3>2 DEF EditWork
  <2>2. CASE St(c) = "create"
    <3>1. CASE call'[c].buf = Absent
      BY <2>0, <3>1
    <3>2. CASE Advances(c, 1) /\ call'[c].file = call[c].file /\ call'[c].buf = call[c].buf
      BY <2>2, <3>2, NextStage DEF HeldInv
    <3> QED
      BY <2>2, <3>1, <3>2 DEF EditWork
  <2>3. CASE St(c) = "fill"
    BY <2>0, <2>3 DEF EditWork
  <2>4. CASE St(c) \notin {"stat", "create", "fill"}
    <3>1. FileOK(call[c].buf)
      BY <1>1, <2>4 DEF HeldInv
    <3> QED
      BY <2>4, <3>1 DEF EditWork
  <2> QED
    BY <2>1, <2>2, <2>3, <2>4
<1> QED
  BY <1>2, <1>3, <1>4 DEF HeldInv

LEMMA HeldStep ==
  ASSUME Shape, Step, FilesInv, \A c \in Callers : FlowInv(c) /\ KnownInv(c) /\ HeldInv(c)
  PROVE  \A c \in Callers : HeldInv(c)'
<1>1. ASSUME NEW c \in Callers, Steady(c) PROVE HeldInv(c)'
  <2>1. /\ call'[c].tool = call[c].tool /\ call'[c].pc = call[c].pc /\ call'[c].file = call[c].file
        /\ call'[c].book = call[c].book /\ call'[c].new = call[c].new /\ call'[c].buf = call[c].buf
    BY <1>1 DEF Steady, Same, Fields
  <2> QED
    BY <2>1 DEF HeldInv, At, Running
<1>2. ASSUME NEW c \in Callers, Starts(c) \/ Stops(c) PROVE HeldInv(c)'
  <2>1. /\ call'[c].book = Idle.book /\ call'[c].new = Idle.new /\ call'[c].buf = Idle.buf
    <3>1. {"book", "new", "buf"} \subseteq Fields \ {"tool", "pc"}
      BY DEF Fields
    <3> QED
      BY <1>2, <3>1, ResetAs
  <2>2. Idle.book = <<>> /\ Idle.new = <<>> /\ Idle.buf = Absent
    BY DEF Idle
  <2>3. FileOK(Absent)
    BY DEF FileOK
  <2> QED
    BY <2>1, <2>2, <2>3, NoBook DEF HeldInv
<1> QED
  BY <1>1, <1>2, HeldWorks, StepActs DEF Rests, Acts, Works
-----------------------------------------------------------------------------
(* Where an editor is *)

LEMMA Located ==
  ASSUME NEW c \in Callers, FlowInv(c), KnownInv(c), Running(c)
  PROVE  /\ St(c) \in {"create", "fill", "add", "remove", "open", "write", "rename"} =>
              call[c].id \in Ids
         /\ St(c) \in {"create", "fill"} => call[c].file \in {"email.json", "contacts.json"}
         /\ St(c) \in {"open", "write", "rename"} => call[c].tool \in Editors
<1> DEFINE t == call[c].tool
           b == Base(t)
           pc == call[c].pc
<1>1. Layout(t) /\ Places(t) /\ pc \in 1..Len(Handlers[t]) /\ b \in {1, 2}
  BY Placed
<1>2. CASE St(c) \in {"create", "fill"}
  <2>1. t # "identity_set" /\ (pc = b + 2 \/ pc = b + 5 \/ pc = b + 3 \/ pc = b + 6)
    BY <1>1, <1>2 DEF Layout, St
  <2>2. /\ pc > b => call[c].id \in Ids
        /\ pc - b <= 3 => call[c].file = "email.json"
        /\ pc - b \in 4..6 => call[c].file = "contacts.json"
    BY <2>1 DEF FlowInv, KnownInv
  <2> HIDE DEF b, pc
  <2>3. pc > b /\ (pc - b <= 3 \/ pc - b \in 4..6)
    BY <1>1, <2>1
  <2> QED
    BY <1>2, <2>2, <2>3
<1>3. CASE St(c) \in {"add", "remove", "open", "write", "rename"}
  <2>1. t \in Editors /\ pc >= 9
    BY <1>1, <1>3 DEF Places, St, EditAt
  <2>2. t # "identity_set" /\ pc > b
    BY <1>1, <2>1 DEF Editors
  <2>3. call[c].id \in Ids
    BY <2>2 DEF KnownInv
  <2> QED
    BY <1>3, <2>1, <2>3
<1> QED
  BY <1>2, <1>3

LEMMA StartsEarly ==
  ASSUME NEW c, Starts(c)
  PROVE  \A s \in {"add", "remove", "open", "write", "rename"} : ~At(c, s)'
<1>1. call'[c].tool \in DOMAIN Handlers /\ call'[c].pc = 1
  BY StartsAs
<1>2. Layout(call'[c].tool) /\ Places(call'[c].tool)
  BY <1>1, LayoutIs
<1> DEFINE h == Handlers[call'[c].tool]
<1>3. 1 \in 1..Len(h)
  BY <1>2 DEF Layout
<1>4. h[1] \notin {"add", "remove", "open", "write", "rename"}
  BY <1>2, <1>3 DEF Places, EditAt
<1> QED
  BY <1>1, <1>4 DEF At

\* An edit goes through its stages one by one.
LEMMA EditFlow ==
  ASSUME NEW c \in Callers, FlowInv(c), FlowWork(c)
  PROVE  /\ At(c, "add")' \/ At(c, "remove")' => St(c) = "contacts"
         /\ At(c, "open")' => St(c) \in {"add", "remove"}
         /\ At(c, "write")' => St(c) = "open"
         /\ At(c, "rename")' => St(c) = "write"
         /\ call[c].tool \in Editors /\ Done(c)' => St(c) = "rename"
<1> DEFINE t == call[c].tool
           b == Base(t)
           h == Handlers[t]
           k == EditAt(t)
           pc == call[c].pc
           pc2 == call'[c].pc
<1>1. /\ Layout(t) /\ Places(t) /\ pc \in 1..Len(h) /\ b \in {1, 2} /\ Running(c) /\ Lands(c)
      /\ call'[c].tool = t /\ St(c) = h[pc]
  BY Placed, WorksLands DEF FlowWork, St
<1>2. FlowInv(c)'
  BY FlowWorks
<1>3. t \notin Editors => \A s \in {"add", "remove", "open", "write", "rename"} : ~At(c, s)'
  <2>1. ASSUME t \notin Editors, Running(c)'
        PROVE  h[pc2] \notin {"add", "remove", "open", "write", "rename"}
    <3>1. pc2 \in 1..Len(h)
      BY <1>1, <1>2, <2>1 DEF FlowInv, Running, Layout
    <3> QED
      BY <1>1, <2>1, <3>1 DEF Places
  <2> QED
    BY <1>1, <2>1 DEF At
<1> SUFFICES ASSUME t \in Editors
             PROVE  /\ At(c, "add")' \/ At(c, "remove")' => St(c) = "contacts"
                    /\ At(c, "open")' => St(c) \in {"add", "remove"}
                    /\ At(c, "write")' => St(c) = "open"
                    /\ At(c, "rename")' => St(c) = "write"
                    /\ Done(c)' => St(c) = "rename"
  BY <1>3
<1>4. t # "identity_set" /\ b = 1 /\ k \in {9, 10} /\ Len(h) = k + 3
  BY <1>1 DEF Editors, Base, EditAt, Places
<1>5. \A i \in 1..Len(h) :
        /\ h[i] \in {"add", "remove"} <=> i = k
        /\ h[i] = "open" <=> i = k + 1
        /\ h[i] = "write" <=> i = k + 2
        /\ h[i] = "rename" <=> i = k + 3
        /\ h[i] = "contacts" <=> i = k - 1
        /\ h[i] \notin {"ids", "select", "search", "retry"}
  BY <1>1 DEF Places, Editors, Listings, Searches
<1>6. /\ pc \in 1..7 => pc2 \in 2..8 /\ ~call'[c].ok
      /\ pc \notin 1..7 => h[pc] \notin {"identity", "stat", "create", "fill"} /\ Advances(c, 1)
  <2>1. b..(b + 6) = 1..7 /\ b + 7 = 8
    BY <1>4
  <2>2. pc \in 1..7 => pc2 \in (pc + 1)..8 /\ ~call'[c].ok
    BY <1>1, <1>4, <2>1 DEF Lands
  <2>3. pc \notin 1..7 => h[pc] \notin {"identity", "stat", "create", "fill"}
    BY <1>1, <1>4, <2>1 DEF Lands
  <2>4. h[pc] \notin {"ids", "select", "search", "retry"}
    BY <1>1, <1>5
  <2>5. pc \notin 1..7 => Advances(c, 1)
    BY <1>1, <2>3, <2>4 DEF Lands
  <2> HIDE DEF pc, pc2, h
  <2> QED
    BY <2>2, <2>3, <2>5
<1>7. /\ pc \notin 1..7 => pc2 = IF pc + 1 > Len(h) THEN 0 ELSE pc + 1
      /\ pc \notin 1..7 => call'[c].ok = (pc + 1 > Len(h))
  BY <1>6 DEF Advances
<1>8. Running(c)' <=> pc2 > 0
  BY DEF Running
<1>9. /\ \A s : At(c, s)' => pc2 > 0 /\ h[pc2] = s
      /\ Done(c)' => call'[c].ok
  <2>1. ASSUME NEW s, At(c, s)'
        PROVE  Running(c)' /\ Handlers[call'[c].tool][call'[c].pc] = s
    BY <2>1 DEF At
  <2>2. Done(c)' => call'[c].ok
    BY DEF Done
  <2> QED
    BY <1>1, <1>8, <2>1, <2>2
<1> HIDE DEF h, k, pc, pc2, t, b
<1>10. pc2 > 0 => pc2 \in 1..Len(h) /\ (pc2 \in 2..8 \/ (pc2 = pc + 1 /\ pc \in 8..Len(h)))
  <2> DEFINE n == Len(h)
  <2>1. n \in Nat /\ n >= 12 /\ pc \in 1..n
    BY <1>1, <1>4
  <2>2. CASE pc \in 1..7
    <3>1. pc2 \in 2..8
      BY <1>6, <2>2
    <3> HIDE DEF n
    <3>2. pc2 \in 1..n
      BY <2>1, <3>1
    <3> QED
      BY <3>1, <3>2 DEF n
  <2>3. CASE pc \notin 1..7
    <3>1. pc2 = IF pc + 1 > n THEN 0 ELSE pc + 1
      BY <1>7, <2>3
    <3> HIDE DEF n
    <3>2. pc \in 8..n
      BY <2>1, <2>3
    <3>3. pc2 > 0 => pc2 = pc + 1 /\ pc2 \in 1..n
      BY <2>1, <3>1, <3>2
    <3> QED
      BY <3>2, <3>3 DEF n
  <2> QED
    BY <2>2, <2>3
<1>11. /\ pc2 > 0 /\ pc2 = k => pc = k - 1
       /\ pc2 > 0 /\ pc2 = k + 1 => pc = k
       /\ pc2 > 0 /\ pc2 = k + 2 => pc = k + 1
       /\ pc2 > 0 /\ pc2 = k + 3 => pc = k + 2
  BY <1>1, <1>4, <1>10
<1>12. call'[c].ok => pc = k + 3
  <2>1. pc \notin 1..7 \/ ~call'[c].ok
    BY <1>6
  <2>2. pc \notin 1..7 /\ call'[c].ok => pc + 1 > Len(h)
    BY <1>7
  <2> QED
    BY <1>1, <1>4, <2>1, <2>2
<1>13. k - 1 \in 1..Len(h) /\ k \in 1..Len(h) /\ k + 1 \in 1..Len(h) /\ k + 2 \in 1..Len(h) /\ k + 3 \in 1..Len(h)
  BY <1>4
<1>14. pc2 > 0 =>
         /\ h[pc2] \in {"add", "remove"} => h[pc] = "contacts"
         /\ h[pc2] = "open" => h[pc] \in {"add", "remove"}
         /\ h[pc2] = "write" => h[pc] = "open"
         /\ h[pc2] = "rename" => h[pc] = "write"
  BY <1>5, <1>10, <1>11, <1>13
<1>15. call'[c].ok => h[pc] = "rename"
  BY <1>5, <1>12, <1>13
<1> QED
  BY <1>1, <1>9, <1>14, <1>15 DEF h, pc
-----------------------------------------------------------------------------
(* What a step does to the contacts files *)

\* The contacts file of e after the step.
Later(e) == files'[e]["contacts.json"]

Elsewhere(c) ==
    \A e \in Ids \ {call[c].id} : Later(e) = Stored(e) /\ tmp'[e] = tmp[e]

\* The stages that touch a file or hold one open.
Touching == {"create", "fill", "open", "write", "rename"}

\* Nothing happens to any contacts file.
Quiet(c) ==
    /\ Alike(c)
    /\ \A e \in Ids : Later(e) = Stored(e) /\ tmp'[e] = tmp[e]
    /\ spoilt' = spoilt
    /\ \/ Starts(c)
       \/ Stops(c) /\ ~(At(c, "fill") /\ call[c].fd = "file")
       \/ Works(c) /\ St(c) \notin {"fill", "open", "write", "rename"}

\* The first copy of a contacts file has its name.
Creates(c) ==
    LET e == call[c].id
    IN  /\ Alike(c) /\ Works(c) /\ St(c) = "create" /\ At(c, "fill")'
        /\ Elsewhere(c) /\ Later(e) = Torn /\ tmp'[e] = tmp[e] /\ spoilt' = spoilt
        /\ call'[c].id = e /\ call'[c].file = "contacts.json" /\ call'[c].fd = "file"

\* A copy, of contacts or not, is over.
Fills(c) ==
    LET e == call[c].id
    IN  /\ Alike(c) /\ (Works(c) \/ Stops(c))
        /\ At(c, "fill")
        /\ Elsewhere(c) /\ tmp'[e] = tmp[e] /\ spoilt \subseteq spoilt'
        /\ FileOK(Later(e)) /\ (Later(e) = Stored(e) \/ Copies(c))
        /\ Later(e) = Torn =>
             e \in spoilt' \/ (Stored(e) = Torn /\ ~(Copies(c) /\ call[c].fd = "file"))

Opens(c) ==
    LET e == call[c].id
    IN  /\ Alike(c) /\ Works(c) /\ St(c) = "open"
        /\ Elsewhere(c) /\ Later(e) = Stored(e) /\ tmp'[e] = Torn /\ spoilt \subseteq spoilt'
        /\ (\E d \in Callers \ {c} : Writing(d) /\ call[d].id = e) => e \in spoilt'
        /\ call'[c].fd = "tmp"

Stores(c) ==
    LET e == call[c].id
    IN  /\ Alike(c) /\ Works(c) /\ St(c) = "write"
        /\ Elsewhere(c) /\ spoilt' = spoilt
        /\ \E data \in {Book(call[c].new), Torn} :
             /\ data = Torn => e \in spoilt
             /\ tmp'[e] = IF call[c].fd = "tmp" THEN data ELSE tmp[e]
             /\ Later(e) = IF call[c].fd = "file" THEN data ELSE Stored(e)

Renames(c) ==
    LET e == call[c].id
    IN  /\ Works(c) /\ St(c) = "rename"
        /\ \A d \in Callers \ {c} : Steady(d) /\ (call[d].id # e => call'[d] = call[d])
        /\ Elsewhere(c) /\ spoilt' = spoilt
        /\ Later(e) = tmp[e] /\ tmp'[e] = Absent

GivesUp(c) ==
    LET e == call[c].id
    IN  /\ Alike(c) /\ Stops(c) /\ At(c, "rename")
        /\ Elsewhere(c) /\ Later(e) = Stored(e) /\ tmp'[e] = Absent /\ spoilt' = spoilt

FileActs(c) ==
    Quiet(c) \/ Creates(c) \/ Fills(c) \/ Opens(c) \/ Stores(c) \/ Renames(c) \/ GivesUp(c)

LEMMA PutFile ==
  ASSUME FilesShape, NEW e \in Ids, NEW f \in {"email.json", "contacts.json"}, NEW v,
         files' = [files EXCEPT ![e][f] = v]
  PROVE  /\ DOMAIN files' = Ids
         /\ \A x \in Ids : DOMAIN files'[x] = {"email.json", "contacts.json"}
         /\ f = "contacts.json" => files'[e]["contacts.json"] = v
         /\ f = "email.json" => files'[e]["contacts.json"] = Stored(e)
         /\ \A x \in Ids \ {e} : files'[x]["contacts.json"] = Stored(x)
  BY DEF FilesShape, Stored

LEMMA PutTmp ==
  ASSUME FilesShape, NEW e \in Ids, NEW v, NEW w, w = [tmp EXCEPT ![e] = v]
  PROVE  DOMAIN w = Ids /\ w[e] = v /\ \A x \in Ids \ {e} : w[x] = tmp[x]
  BY DEF FilesShape

LEMMA KeptFiles ==
  ASSUME FilesShape, UNCHANGED fileVars
  PROVE  /\ FilesShape' /\ spoilt' = spoilt
         /\ \A e \in Ids : Later(e) = Stored(e) /\ tmp'[e] = tmp[e]
  BY DEF fileVars, FilesShape, Stored, Later

LEMMA QuietFrom ==
  ASSUME FilesShape, NEW c \in Callers, ActsAlone(c), UNCHANGED fileVars,
         NEW s, At(c, s), s \notin Touching
  PROVE  FilesShape' /\ Quiet(c)
<1>1. St(c) = s /\ ~At(c, "fill")
  BY DEF At, St, Touching
<1> QED
  BY <1>1, KeptFiles DEF ActsAlone, Quiet, Touching

LEMMA ListingQuiet ==
  ASSUME Shape, FilesShape, NEW c \in Callers, Listing(c)
  PROVE  FilesShape' /\ Quiet(c)
<1>1. UNCHANGED fileVars
  BY DEF Listing, Select, Search, searchFallback, Retry, Fetch, ServerFails, Unmoved
<1>2. \E s : At(c, s) /\ s \notin Touching
  <2>1. CASE ServerFails(c)
    BY <2>1 DEF ServerFails, Touching
  <2>2. CASE ~ServerFails(c)
    <3>1. At(c, "select") \/ At(c, "search") \/ At(c, "retry") \/ At(c, "fetch")
      BY <2>2 DEF Listing, Select, Search, searchFallback, Retry, Fetch
    <3> QED
      BY <3>1 DEF Touching
  <2> QED
    BY <2>1, <2>2
<1> QED
  BY <1>1, <1>2, ListingActs, QuietFrom

LEMMA ReadingQuiet ==
  ASSUME Shape, FilesShape, NEW c \in Callers, Reading(c)
  PROVE  FilesShape' /\ Quiet(c)
<1>1. UNCHANGED fileVars
  BY DEF Reading, FetchMessage, FetchRaw, Gate, VerifySignatures, VerifyRaw, Extract, Expose, Redact, Unmoved
<1>2. \E s \in {"message", "raw", "gate", "signatures", "verify", "extract", "expose", "redact"} : At(c, s)
  BY DEF Reading, FetchMessage, FetchRaw, Gate, VerifySignatures, VerifyRaw, Extract, Expose, Redact
<1> QED
  BY <1>1, <1>2, ReadingActs, QuietFrom DEF Touching

LEMMA CreateTouches ==
  ASSUME Shape, FilesShape, NEW c \in Callers, FlowInv(c), KnownInv(c), Create(c)
  PROVE  FilesShape' /\ FileActs(c)
<1> DEFINE e == call[c].id
           f == call[c].file
<1>1. /\ Running(c) /\ St(c) = "create" /\ Alike(c) /\ (Works(c) \/ Stops(c))
  BY CreateWorks, CreateMoves, AtSt DEF Alike
<1>2. tmp' = tmp /\ spoilt' = spoilt
  BY DEF Create
<1>3. CASE files' = files
  <2>1. UNCHANGED fileVars
    BY <1>2, <1>3 DEF fileVars
  <2>2. Stops(c) => ~At(c, "fill")
    BY <1>1, AtSt
  <2> QED
    BY <1>1, <2>1, <2>2, KeptFiles DEF Quiet, FileActs
<1>4. CASE /\ Moves(c, 1, {"fd"}) /\ call'[c].fd = "file"
           /\ files' = [files EXCEPT ![e][f] = Torn]
  <2>1. e \in Ids /\ f \in {"email.json", "contacts.json"}
    BY <1>1, Located
  <2>2. /\ DOMAIN files' = Ids
        /\ \A x \in Ids : DOMAIN files'[x] = {"email.json", "contacts.json"}
        /\ f = "contacts.json" => files'[e]["contacts.json"] = Torn
        /\ f = "email.json" => files'[e]["contacts.json"] = Stored(e)
        /\ \A x \in Ids \ {e} : files'[x]["contacts.json"] = Stored(x)
    BY <1>4, <2>1, PutFile
  <2>3. FilesShape'
    BY <1>2, <2>2 DEF FilesShape
  <2>4. Elsewhere(c)
    BY <1>2, <2>2 DEF Elsewhere, Stored, Later
  <2>5. call'[c].id = e /\ call'[c].file = f
    BY <1>4 DEF Moves, Same, Fields
  <2>6. Advances(c, 1) /\ Works(c)
    <3>1. Advances(c, 1)
      BY <1>4 DEF Moves
    <3>2. ~Stops(c)
      <4>1. Stops(c) => call'[c].fd = None
        <5>1. "fd" \in Fields \ {"tool", "pc"} /\ Idle.fd = None
          BY DEF Fields, Idle
        <5> QED
          BY <5>1, ResetAs
      <4> QED
        BY <1>4, <4>1 DEF None
    <3> QED
      BY <1>1, <3>1, <3>2
  <2>7. At(c, "fill")'
    BY <1>1, <2>6, NextStage DEF Works
  <2>8. CASE f = "contacts.json"
    <3>1. Later(e) = Torn
      BY <2>2, <2>5, <2>8 DEF Later
    <3> QED
      BY <1>1, <1>2, <1>4, <2>3, <2>4, <2>5, <2>6, <2>7, <2>8, <3>1 DEF Creates, FileActs
  <2>9. CASE f = "email.json"
    <3>1. \A x \in Ids : Later(x) = Stored(x) /\ tmp'[x] = tmp[x]
      BY <1>2, <2>2, <2>9 DEF Stored, Later
    <3> QED
      BY <1>1, <1>2, <2>3, <2>6, <3>1 DEF Quiet, FileActs
  <2> QED
    BY <2>1, <2>8, <2>9
<1> QED
  BY <1>3, <1>4, CreateMoves

LEMMA FillTouches ==
  ASSUME Shape, FilesInv, NEW c \in Callers, FlowInv(c), KnownInv(c), HeldInv(c), Fill(c)
  PROVE  FilesShape' /\ Fills(c)
<1>1. Running(c) /\ St(c) = "fill" /\ At(c, "fill") /\ Alike(c) /\ (Works(c) \/ Stops(c))
  BY FillWorks, FillMoves, AtSt DEF Alike
<1> DEFINE e == call[c].id
           f == call[c].file
           buf == call[c].buf
           fd == call[c].fd
           Kept(x) == Later(x) = Stored(x) /\ tmp'[x] = tmp[x]
<1>2. e \in Ids /\ f \in {"email.json", "contacts.json"}
  BY <1>1, Located
<1>3. /\ files' = IF fd = "gone" THEN files ELSE [files EXCEPT ![e][f] = buf]
      /\ spoilt' = IF buf = Torn THEN spoilt \cup {e} ELSE spoilt
      /\ tmp' = tmp
  BY DEF Fill
<1>4. FilesShape /\ FileOK(Stored(e)) /\ (f = "contacts.json" => FileOK(buf))
  BY <1>2 DEF FilesInv, HeldInv
<1>5. Copies(c) <=> f = "contacts.json"
  BY <1>1 DEF Copies
<1>6. /\ FilesShape'
      /\ \A x \in Ids \ {e} : Kept(x)
      /\ tmp'[e] = tmp[e]
      /\ Later(e) = Stored(e) \/ (Copies(c) /\ Later(e) = buf)
      /\ Later(e) = Torn =>
           e \in spoilt' \/ (Stored(e) = Torn /\ ~(Copies(c) /\ fd = "file"))
  <2>1. CASE fd = "gone"
    <3>1. FilesShape' /\ \A x \in Ids : Kept(x)
      BY <1>3, <1>4, <2>1 DEF FilesShape, Stored, Later
    <3> HIDE DEF e, fd
    <3> QED
      BY <1>2, <2>1, <3>1
  <2>2. CASE fd # "gone"
    <3>1. files' = [files EXCEPT ![e][f] = buf]
      BY <1>3, <2>2
    <3> HIDE DEF e, f, fd, buf
    <3>2. /\ DOMAIN files' = Ids
          /\ \A x \in Ids : DOMAIN files'[x] = {"email.json", "contacts.json"}
          /\ f = "contacts.json" => files'[e]["contacts.json"] = buf
          /\ f = "email.json" => files'[e]["contacts.json"] = Stored(e)
          /\ \A x \in Ids \ {e} : files'[x]["contacts.json"] = Stored(x)
      BY <1>2, <1>4, <3>1, PutFile
    <3>3. FilesShape'
      BY <1>3, <1>4, <3>2 DEF FilesShape
    <3>4. \A x \in Ids \ {e} : Kept(x)
      BY <1>3, <3>2 DEF Later
    <3>5. buf = Torn => e \in spoilt'
      BY <1>3
    <3> QED
      BY <1>2, <1>3, <1>5, <3>2, <3>3, <3>4, <3>5 DEF Later
  <2> QED
    BY <2>1, <2>2
<1>7. FileOK(Later(e)) /\ spoilt \subseteq spoilt'
  <2> HIDE DEF e, f, fd, buf
  <2> QED
    BY <1>3, <1>4, <1>5, <1>6
<1> QED
  BY <1>1, <1>6, <1>7 DEF Fills, Elsewhere

LEMMA FillFailsTouches ==
  ASSUME Shape, FilesInv, NEW c \in Callers, FlowInv(c), KnownInv(c), FillFails(c)
  PROVE  FilesShape' /\ Fills(c)
<1>1. Running(c) /\ St(c) = "fill" /\ At(c, "fill") /\ Alike(c) /\ (Works(c) \/ Stops(c))
  BY FillFailsWorks, FillFailsMoves, AtSt DEF Alike
<1> DEFINE e == call[c].id
           f == call[c].file
<1>2. e \in Ids /\ f \in {"email.json", "contacts.json"}
  BY <1>1, Located
<1>3. files' = [files EXCEPT ![e][f] = Absent] /\ spoilt' = spoilt /\ tmp' = tmp
  BY DEF FillFails
<1>4. FilesShape /\ FileOK(Stored(e)) /\ FileOK(Absent)
  BY <1>2 DEF FilesInv, FileOK
<1>5. Copies(c) <=> f = "contacts.json"
  BY <1>1 DEF Copies
<1>6. Absent # Torn
  BY DEF Absent, Torn
<1>7. /\ FilesShape'
      /\ \A x \in Ids \ {e} : Later(x) = Stored(x) /\ tmp'[x] = tmp[x]
      /\ tmp'[e] = tmp[e] /\ spoilt \subseteq spoilt'
      /\ \/ Later(e) = Absent /\ Copies(c)
         \/ Later(e) = Stored(e) /\ ~Copies(c)
  <2> HIDE DEF e, f
  <2>1. /\ DOMAIN files' = Ids
        /\ \A x \in Ids : DOMAIN files'[x] = {"email.json", "contacts.json"}
        /\ f = "contacts.json" => files'[e]["contacts.json"] = Absent
        /\ f = "email.json" => files'[e]["contacts.json"] = Stored(e)
        /\ \A x \in Ids \ {e} : files'[x]["contacts.json"] = Stored(x)
    BY <1>2, <1>3, <1>4, PutFile
  <2>2. FilesShape'
    BY <1>3, <1>4, <2>1 DEF FilesShape
  <2> QED
    BY <1>2, <1>3, <1>5, <2>1, <2>2 DEF Later
<1>8. FileOK(Later(e)) /\ (Later(e) = Torn => Stored(e) = Torn /\ ~Copies(c))
  BY <1>4, <1>6, <1>7
<1> QED
  BY <1>1, <1>7, <1>8 DEF Fills, Elsewhere

LEMMA OpenTouches ==
  ASSUME Shape, FilesShape, NEW c \in Callers, FlowInv(c), KnownInv(c), OpenTmp(c)
  PROVE  FilesShape' /\ Opens(c)
<1>1. Running(c) /\ St(c) = "open" /\ Alike(c) /\ Works(c) /\ call'[c].fd = "tmp"
  BY OpenWorks, OpenMoves, AtSt DEF Alike
<1> DEFINE e == call[c].id
<1>2. e \in Ids
  BY <1>1, Located
<1>3. /\ tmp' = [tmp EXCEPT ![e] = Torn] /\ files' = files
      /\ spoilt \subseteq spoilt'
      /\ (\E d \in Callers : SameFile(c, d) /\ Writing(d)) => e \in spoilt'
  BY DEF OpenTmp, Writing
<1>4. (\E d \in Callers \ {c} : Writing(d) /\ call[d].id = e) => e \in spoilt'
  BY <1>3 DEF SameFile
<1> HIDE DEF e
<1>5. DOMAIN tmp' = Ids /\ tmp'[e] = Torn /\ \A x \in Ids \ {e} : tmp'[x] = tmp[x]
  BY <1>2, <1>3, PutTmp
<1>6. FilesShape' /\ \A x \in Ids : Later(x) = Stored(x)
  BY <1>3, <1>5 DEF FilesShape, Stored, Later
<1> QED
  BY <1>1, <1>2, <1>3, <1>4, <1>5, <1>6 DEF Opens, Elsewhere, e

LEMMA WriteTouches ==
  ASSUME Shape, FilesShape, NEW c \in Callers, FlowInv(c), KnownInv(c), WriteTmp(c)
  PROVE  FilesShape' /\ Stores(c)
<1>1. Running(c) /\ St(c) = "write" /\ Alike(c) /\ Works(c)
  BY WriteWorks, WriteMoves, AtSt DEF Alike
<1> DEFINE e == call[c].id
           fd == call[c].fd
           own == Book(call[c].new)
<1>2. e \in Ids
  BY <1>1, Located
<1>3. PICK data \in {own} \cup (IF e \in spoilt THEN {Torn} ELSE {}) :
        /\ tmp' = IF fd = "tmp" THEN [tmp EXCEPT ![e] = data] ELSE tmp
        /\ files' = IF fd = "file" THEN [files EXCEPT ![e]["contacts.json"] = data] ELSE files
        /\ spoilt' = spoilt
  BY DEF WriteTmp
<1>4. data \in {own, Torn} /\ (data = own \/ e \in spoilt)
  BY <1>3
<1> HIDE DEF e, fd, own
<1>5. /\ DOMAIN tmp' = Ids /\ tmp'[e] = (IF fd = "tmp" THEN data ELSE tmp[e])
      /\ \A x \in Ids \ {e} : tmp'[x] = tmp[x]
  <2>1. CASE fd = "tmp"
    <3>1. tmp' = [tmp EXCEPT ![e] = data]
      BY <1>3, <2>1
    <3>2. DOMAIN tmp' = Ids /\ tmp'[e] = data /\ \A x \in Ids \ {e} : tmp'[x] = tmp[x]
      BY <1>2, <3>1, PutTmp
    <3> QED
      BY <2>1, <3>2
  <2>2. CASE fd # "tmp"
    BY <1>3, <2>2 DEF FilesShape
  <2> QED
    BY <2>1, <2>2
<1>6. /\ DOMAIN files' = Ids
      /\ \A x \in Ids : DOMAIN files'[x] = {"email.json", "contacts.json"}
      /\ Later(e) = (IF fd = "file" THEN data ELSE Stored(e))
      /\ \A x \in Ids \ {e} : Later(x) = Stored(x)
  <2>1. CASE fd = "file"
    <3>1. files' = [files EXCEPT ![e]["contacts.json"] = data]
      BY <1>3, <2>1
    <3>2. /\ DOMAIN files' = Ids
          /\ \A x \in Ids : DOMAIN files'[x] = {"email.json", "contacts.json"}
          /\ files'[e]["contacts.json"] = data
          /\ \A x \in Ids \ {e} : files'[x]["contacts.json"] = Stored(x)
      BY <1>2, <3>1, PutFile
    <3> QED
      BY <2>1, <3>2 DEF Later
  <2>2. CASE fd # "file"
    BY <1>2, <1>3, <2>2 DEF FilesShape, Stored, Later
  <2> QED
    BY <2>1, <2>2
<1>7. FilesShape'
  BY <1>5, <1>6 DEF FilesShape
<1>8. \A x \in Ids \ {e} : Later(x) = Stored(x) /\ tmp'[x] = tmp[x]
  BY <1>5, <1>6
<1>9. \E d \in {own, Torn} :
        /\ d = Torn => e \in spoilt
        /\ tmp'[e] = IF fd = "tmp" THEN d ELSE tmp[e]
        /\ Later(e) = IF fd = "file" THEN d ELSE Stored(e)
  <2>1. own # Torn
    BY DEF own, Book, Torn
  <2> QED
    BY <1>4, <1>5, <1>6, <2>1
<1> QED
  BY <1>1, <1>3, <1>7, <1>8, <1>9 DEF Stores, Elsewhere, e, fd, own

LEMMA RenameTouches ==
  ASSUME Shape, FilesShape, NEW c \in Callers, FlowInv(c), KnownInv(c), Rename(c)
  PROVE  FilesShape' /\ Renames(c)
<1>1. Running(c) /\ St(c) = "rename" /\ Works(c) /\ \A d \in Callers \ {c} : Steady(d)
  BY RenameWorks, RenameMoves, AtSt
<1> DEFINE e == call[c].id
<1>2. e \in Ids
  BY <1>1, Located
<1>3. /\ files' = [files EXCEPT ![e]["contacts.json"] = tmp[e]]
      /\ tmp' = [tmp EXCEPT ![e] = Absent]
      /\ spoilt' = spoilt
  BY DEF Rename
<1>4. \A d \in Callers \ {c} : call[d].id # e => call'[d] = call[d]
  BY RenameMoves
<1> HIDE DEF e
<1>5. DOMAIN tmp' = Ids /\ tmp'[e] = Absent /\ \A x \in Ids \ {e} : tmp'[x] = tmp[x]
  BY <1>2, <1>3, PutTmp
<1>6. /\ DOMAIN files' = Ids
      /\ \A x \in Ids : DOMAIN files'[x] = {"email.json", "contacts.json"}
      /\ files'[e]["contacts.json"] = tmp[e]
      /\ \A x \in Ids \ {e} : files'[x]["contacts.json"] = Stored(x)
  <2> DEFINE v == tmp[e]
  <2>1. files' = [files EXCEPT ![e]["contacts.json"] = v]
    BY <1>3
  <2> HIDE DEF v
  <2>2. /\ DOMAIN files' = Ids
        /\ \A x \in Ids : DOMAIN files'[x] = {"email.json", "contacts.json"}
        /\ files'[e]["contacts.json"] = v
        /\ \A x \in Ids \ {e} : files'[x]["contacts.json"] = Stored(x)
    BY <1>2, <2>1, PutFile
  <2> QED
    BY <2>2 DEF v
<1>7. FilesShape'
  BY <1>5, <1>6 DEF FilesShape
<1> QED
  BY <1>1, <1>3, <1>4, <1>5, <1>6, <1>7 DEF Renames, Elsewhere, Later, e

LEMMA GivingUpTouches ==
  ASSUME Shape, FilesShape, NEW c \in Callers, FlowInv(c), KnownInv(c), RenameFails(c)
  PROVE  FilesShape' /\ GivesUp(c)
<1>1. Running(c) /\ At(c, "rename") /\ St(c) = "rename" /\ Stops(c) /\ Alike(c)
  BY FailureStops, AtSt DEF RenameFails, Stops, Alike
<1> DEFINE e == call[c].id
<1>2. e \in Ids
  BY <1>1, Located
<1>3. tmp' = [tmp EXCEPT ![e] = Absent] /\ files' = files /\ spoilt' = spoilt
  BY DEF RenameFails
<1> HIDE DEF e
<1>5. DOMAIN tmp' = Ids /\ tmp'[e] = Absent /\ \A x \in Ids \ {e} : tmp'[x] = tmp[x]
  BY <1>2, <1>3, PutTmp
<1>6. FilesShape' /\ \A x \in Ids : Later(x) = Stored(x)
  BY <1>3, <1>5 DEF FilesShape, Stored, Later
<1> QED
  BY <1>1, <1>2, <1>3, <1>5, <1>6 DEF GivesUp, Elsewhere, e

LEMMA CrashTouches ==
  ASSUME Shape, FilesInv, NEW c \in Callers, FlowInv(c), KnownInv(c), Crash(c)
  PROVE  FilesShape' /\ (Quiet(c) \/ Fills(c))
<1>1. Running(c) /\ Stops(c) /\ Alike(c) /\ files' = files /\ tmp' = tmp
  BY EndStops DEF Crash, Stops, Alike
<1>2. /\ FilesShape'
      /\ \A x \in Ids : Later(x) = Stored(x) /\ tmp'[x] = tmp[x] /\ FileOK(Stored(x))
  BY <1>1 DEF FilesInv, FilesShape, Stored, Later
<1>3. CASE At(c, "fill") /\ call[c].fd = "file"
  <2>1. call[c].id \in spoilt' /\ spoilt \subseteq spoilt'
    BY <1>3 DEF Crash
  <2>2. call[c].id \in Ids
    BY <1>1, <1>3, Located, AtSt
  <2> QED
    BY <1>1, <1>2, <1>3, <2>1, <2>2 DEF Fills, Elsewhere
<1>4. CASE ~(At(c, "fill") /\ call[c].fd = "file")
  <2>1. spoilt' = spoilt
    BY <1>4 DEF Crash
  <2> QED
    BY <1>1, <1>2, <1>4, <2>1 DEF Quiet
<1> QED
  BY <1>3, <1>4

LEMMA ResolvingTouches ==
  ASSUME Shape, FilesInv, NEW c \in Callers, FlowInv(c), KnownInv(c), HeldInv(c), Resolving(c)
  PROVE  FilesShape' /\ FileActs(c)
<1>0. FilesShape
  BY DEF FilesInv
<1>1. CASE \/ ResolveIdentity(c) \/ Stat(c) \/ LoadConfig(c) \/ Load(c)
           \/ TruncateConfig(c) \/ \E h \in Handles : NameIdentity(c, h)
  <2>1. UNCHANGED fileVars
    BY <1>1 DEF ResolveIdentity, Stat, LoadConfig, Load, TruncateConfig, NameIdentity, Unmoved
  <2>2. \E s \in {"identity", "stat", "config", "contacts", "truncate", "name"} : At(c, s)
    BY <1>1 DEF ResolveIdentity, Stat, LoadConfig, Load, TruncateConfig, NameIdentity
  <2> QED
    BY <1>0, <2>1, <2>2, ResolvingActs, QuietFrom DEF Touching, FileActs
<1>2. CASE Create(c)
  BY <1>0, <1>2, CreateTouches
<1>3. CASE Fill(c)
  BY <1>3, FillTouches DEF FileActs
<1>4. CASE FillFails(c)
  BY <1>4, FillFailsTouches DEF FileActs
<1> QED
  BY <1>1, <1>2, <1>3, <1>4 DEF Resolving

LEMMA ChangingTouches ==
  ASSUME Shape, FilesInv, NEW c \in Callers, FlowInv(c), KnownInv(c), Changing(c)
  PROVE  FilesShape' /\ FileActs(c)
<1>0. FilesShape
  BY DEF FilesInv
<1>1. CASE \/ \E u \in DOMAIN Mail : OneId(c, u)
           \/ \E ids \in IdLists : ManyIds(c, ids)
           \/ MoveMessages(c)
           \/ \E flag \in BOOLEAN : SetSeenBatch(c, flag)
           \/ \E n \in Newcomers : Add(c, n)
           \/ \E q \in Names \cup Exact : RemoveFound(c, q)
  <2>1. UNCHANGED fileVars
    BY <1>1 DEF OneId, ManyIds, MoveMessages, SetSeenBatch, Add, RemoveFound, Unmoved
  <2>2. \E s \in {"id", "ids", "move", "mark", "add", "remove"} : At(c, s)
    BY <1>1 DEF OneId, ManyIds, MoveMessages, SetSeenBatch, Add, RemoveFound
  <2>3. St(c) # "rename"
    BY <2>2 DEF At, St
  <2>4. ~Rename(c)
    BY <2>3 DEF Rename, At, St
  <2> QED
    BY <1>0, <2>1, <2>2, <2>4, ChangingActs, QuietFrom DEF Touching, FileActs
<1>2. CASE WriteFails(c)
  <2>1. UNCHANGED fileVars
    BY <1>2 DEF WriteFails, Unmoved
  <2>2. Stops(c) /\ Alike(c)
    BY <1>2, FailureStops DEF Stops, Alike
  <2>3. ~At(c, "fill")
    BY <1>2 DEF WriteFails, At
  <2> QED
    BY <1>0, <2>1, <2>2, <2>3, KeptFiles DEF Quiet, FileActs
<1>3. CASE OpenTmp(c) \/ WriteTmp(c) \/ Rename(c) \/ RenameFails(c)
  BY <1>0, <1>3, OpenTouches, WriteTouches, RenameTouches, GivingUpTouches DEF FileActs
<1> QED
  BY <1>1, <1>2, <1>3 DEF Changing

\* Nobody acts, or one caller does one of these things.
LEMMA StepTouches ==
  ASSUME Shape, FilesInv, Step,
         \A c \in Callers : FlowInv(c) /\ KnownInv(c) /\ HeldInv(c)
  PROVE  /\ FilesShape'
         /\ \/ UNCHANGED fileVars /\ call' = call
            \/ \E c \in Callers : FileActs(c)
<1>0. FilesShape
  BY DEF FilesInv
<1>1. ASSUME NEW c \in Callers, Finish(c) \/ \E t \in DOMAIN Handlers : Begin(c, t)
      PROVE  FilesShape' /\ FileActs(c)
  <2>1. UNCHANGED fileVars
    BY <1>1 DEF Finish, Begin
  <2>2. ~At(c, "fill")
    <3>1. ~(Idle.pc > 0)
      BY DEF Idle
    <3>2. ~Running(c)
      BY <1>1, <3>1 DEF Finish, Begin, Running
    <3> QED
      BY <3>2 DEF At
  <2>3. Alike(c) /\ (Starts(c) \/ Stops(c))
    BY <1>1, BeginStarts, EndStops DEF Starts, Stops, Alike
  <2> QED
    BY <1>0, <2>1, <2>2, <2>3, KeptFiles DEF Quiet, FileActs
<1>2. CASE (\E h \in Handles \cup {""} : switchIdentity(h)) \/ Arrive
  <2>1. UNCHANGED fileVars /\ call' = call
    BY <1>2 DEF switchIdentity, Arrive
  <2> QED
    BY <1>0, <2>1, KeptFiles
<1>3. ASSUME NEW c \in Callers, Resolving(c) \/ Listing(c) \/ Reading(c) \/ Changing(c) \/ Crash(c)
      PROVE  FilesShape' /\ FileActs(c)
  BY <1>0, <1>3, ResolvingTouches, ListingQuiet, ReadingQuiet, ChangingTouches, CrashTouches DEF FileActs
<1> QED
  BY <1>1, <1>2, <1>3 DEF Step
-----------------------------------------------------------------------------
(* The files of the contacts, and those who write them *)

LEMMA FileKinds ==
  ASSUME NEW b
  PROVE  /\ Book(b) # Torn /\ Absent # Torn /\ Book(b).book = b
         /\ FileOK(Torn) /\ FileOK(Absent) /\ (IsBook(b) => FileOK(Book(b)))
  BY DEF Book, Torn, Absent, FileOK

LEMMA SpoiltStays ==
  ASSUME NEW c, FileActs(c)
  PROVE  spoilt \subseteq spoilt'
  BY DEF FileActs, Quiet, Creates, Fills, Opens, Stores, Renames, GivesUp

LEMMA FilesKept ==
  ASSUME NEW c \in Callers, FilesInv, HeldInv(c), FileActs(c), FilesShape'
  PROVE  FilesInv'
<1> DEFINE e == call[c].id
           Fine(x) == FileOK(Later(x)) /\ FileOK(tmp'[x])
<1>1. \A x \in Ids : FileOK(Stored(x)) /\ FileOK(tmp[x])
  BY DEF FilesInv
<1>2. FileOK(Book(call[c].new)) /\ FileOK(Torn) /\ FileOK(Absent)
  BY FileKinds DEF HeldInv
<1>3. ASSUME NEW x \in Ids, x # e PROVE Fine(x)
  <2>1. Later(x) = Stored(x) /\ tmp'[x] = tmp[x]
    BY <1>3 DEF FileActs, Quiet, Creates, Fills, Opens, Stores, Renames, GivesUp, Elsewhere
  <2> QED
    BY <1>1, <2>1
<1>4. ASSUME e \in Ids PROVE Fine(e)
  <2>1. FileOK(Stored(e)) /\ FileOK(tmp[e])
    BY <1>1, <1>4
  <2>2. CASE Quiet(c) \/ Creates(c) \/ Opens(c) \/ Renames(c) \/ GivesUp(c)
    BY <1>2, <1>4, <2>1, <2>2 DEF Quiet, Creates, Opens, Renames, GivesUp
  <2>3. CASE Fills(c)
    BY <2>1, <2>3 DEF Fills
  <2>4. CASE Stores(c)
    BY <1>2, <2>1, <2>4 DEF Stores
  <2> QED
    BY <2>2, <2>3, <2>4 DEF FileActs
<1>5. \A x \in Ids : Fine(x)
  BY <1>3, <1>4
<1> QED
  BY <1>5 DEF FilesInv, Stored, Later

\* d is about to fill the contacts file of e.
Fillers(d, e) == call[d].id = e /\ Copies(d) /\ call[d].fd = "file"

LEMMA TornStays ==
  ASSUME NEW c \in Callers, NEW x \in Ids, TornInv, Stored(x) = Torn, spoilt \subseteq spoilt',
         \A d \in Callers \ {c} : call[d].id = x => call'[d] = call[d],
         ~Fillers(c, x)
  PROVE  x \in spoilt' \/ \E d \in Callers : Fillers(d, x)'
<1>1. CASE x \in spoilt
  BY <1>1
<1>2. CASE x \notin spoilt
  <2>1. PICK d \in Callers : Fillers(d, x)
    BY <1>2 DEF TornInv, Fillers
  <2>2. call'[d] = call[d]
    BY <2>1 DEF Fillers
  <2>3. Fillers(d, x)'
    BY <2>1, <2>2 DEF Fillers, Copies, At, Running
  <2> QED
    BY <2>3
<1> QED
  BY <1>1, <1>2

LEMMA TornKept ==
  ASSUME NEW c \in Callers, TornInv, WriterInv, FlowInv(c), KnownInv(c), FileActs(c)
  PROVE  TornInv'
<1> DEFINE e == call[c].id
<1>1. spoilt \subseteq spoilt'
  BY SpoiltStays
<1>2. \A s : At(c, s) <=> Running(c) /\ St(c) = s
  BY AtSt
<1>3. \A x : \A d \in Callers \ {c} : call[d].id = x => call'[d] = call[d] \/ (Renames(c) /\ x = e)
  BY DEF FileActs, Quiet, Creates, Fills, Opens, Stores, Renames, GivesUp, Alike
<1>4. ASSUME NEW x \in Ids, Later(x) = Torn
      PROVE  x \in spoilt' \/ \E d \in Callers : Fillers(d, x)'
  <2>1. CASE x # e
    <3>1. Later(x) = Stored(x)
      BY <1>4, <2>1 DEF FileActs, Quiet, Creates, Fills, Opens, Stores, Renames, GivesUp, Elsewhere
    <3>2. ~Fillers(c, x)
      BY <2>1 DEF Fillers
    <3> QED
      BY <1>1, <1>3, <1>4, <2>1, <3>1, <3>2, TornStays
  <2>2. CASE x = e /\ Quiet(c)
    <3>1. ~Fillers(c, x)
      <4>1. CASE Starts(c)
        <5>1. ~(Idle.pc > 0)
          BY DEF Idle
        <5> QED
          BY <4>1, <5>1 DEF Starts, Fillers, Copies, At, Running
      <4>2. CASE ~Starts(c)
        BY <1>2, <2>2, <4>2 DEF Quiet, Fillers, Copies
      <4> QED
        BY <4>1, <4>2
    <3>2. \A d \in Callers \ {c} : call'[d] = call[d]
      BY <2>2 DEF Quiet, Alike
    <3>3. Later(x) = Stored(x)
      BY <2>2 DEF Quiet
    <3> QED
      BY <1>1, <1>4, <3>1, <3>2, <3>3, TornStays
  <2>3. CASE x = e /\ Creates(c)
    <3>1. Fillers(c, x)'
      BY <2>3 DEF Creates, Fillers, Copies
    <3> QED
      BY <3>1
  <2>4. CASE x = e /\ Fills(c)
    <3>1. e \in spoilt' \/ (Stored(e) = Torn /\ ~Fillers(c, e))
      BY <1>4, <2>4 DEF Fills, Fillers
    <3>2. \A d \in Callers \ {c} : call'[d] = call[d]
      BY <2>4 DEF Fills, Alike
    <3> QED
      BY <1>1, <2>4, <3>1, <3>2, TornStays
  <2>5. CASE x = e /\ (Opens(c) \/ GivesUp(c))
    <3>1. ~Fillers(c, x)
      BY <1>2, <2>5 DEF Opens, GivesUp, Fillers, Copies
    <3>2. /\ \A d \in Callers \ {c} : call'[d] = call[d]
          /\ Later(x) = Stored(x)
      BY <2>5 DEF Opens, GivesUp, Alike
    <3> QED
      BY <1>1, <1>4, <3>1, <3>2, TornStays
  <2>6. CASE x = e /\ Stores(c)
    <3>1. ~Fillers(c, x)
      BY <1>2, <2>6 DEF Stores, Fillers, Copies
    <3>2. \A d \in Callers \ {c} : call'[d] = call[d]
      BY <2>6 DEF Stores, Alike
    <3>3. Stored(x) = Torn \/ x \in spoilt
      BY <1>4, <2>6, FileKinds DEF Stores
    <3> QED
      BY <1>1, <3>1, <3>2, <3>3, TornStays
  <2>7. CASE x = e /\ Renames(c)
    <3>1. tmp[e] = Torn /\ Writing(c) /\ At(c, "rename")
      BY <1>2, <1>4, <2>7 DEF Renames, Writing, Works, FlowWork
    <3>2. e \in spoilt
      BY <3>1, FileKinds DEF WriterInv
    <3> QED
      BY <1>1, <2>7, <3>2
  <2> QED
    BY <2>1, <2>2, <2>3, <2>4, <2>5, <2>6, <2>7 DEF FileActs
<1> QED
  BY <1>4 DEF TornInv, Fillers, Stored, Later

LEMMA NoWriting ==
  ASSUME NEW c \in Callers, FlowInv(c),
         Starts(c) \/ Stops(c) \/ (Works(c) /\ St(c) \notin {"open", "write"})
  PROVE  ~Writing(c)'
<1>1. CASE Starts(c)
  BY <1>1, StartsEarly DEF Writing
<1>2. CASE Stops(c)
  <2>0. call'[c].pc = 0
    BY <1>2, StopsAs
  <2>1. ~(call'[c].pc > 0)
    BY <2>0
  <2> QED
    BY <2>1 DEF Writing, At, Running
<1>3. CASE Works(c) /\ St(c) \notin {"open", "write"}
  BY <1>3, EditFlow DEF Works, Writing
<1> QED
  BY <1>1, <1>2, <1>3

\* Who writes after the step.
LEMMA Writers ==
  ASSUME NEW c \in Callers, FlowInv(c), FileActs(c), NEW d \in Callers, Writing(d)'
  PROVE  /\ call'[d].id = call[d].id /\ call'[d].new = call[d].new
         /\ d # c => Writing(d) /\ (At(d, "write")' => At(d, "write"))
                     /\ (At(d, "rename")' => At(d, "rename"))
         /\ d = c => Opens(c) \/ Stores(c)
<1>1. CASE d # c
  <2>1. Steady(d)
    BY <1>1, SameSteady DEF FileActs, Quiet, Creates, Fills, Opens, Stores, Renames, GivesUp, Alike
  <2>2. /\ call'[d].tool = call[d].tool /\ call'[d].pc = call[d].pc
        /\ call'[d].id = call[d].id /\ call'[d].new = call[d].new
    BY <2>1 DEF Steady, Same, Fields
  <2> QED
    BY <1>1, <2>2 DEF Writing, At, Running
<1>2. CASE d = c
  <2>1. ~(Quiet(c) \/ Creates(c) \/ Fills(c) \/ Renames(c) \/ GivesUp(c))
    BY <1>2, NoWriting, AtSt DEF Quiet, Creates, Fills, Renames, GivesUp
  <2>2. Opens(c) \/ Stores(c)
    BY <2>1 DEF FileActs
  <2>3. Works(c) /\ St(c) \in {"open", "write"}
    BY <2>2 DEF Opens, Stores
  <2>4. call'[c].id = call[c].id /\ call'[c].new = call[c].new
    BY <2>3 DEF Works, ReadWork, EditWork
  <2> QED
    BY <1>2, <2>2, <2>4
<1> QED
  BY <1>1, <1>2

LEMMA WriterKept ==
  ASSUME NEW c \in Callers, WriterInv, FileActs(c), \A d \in Callers : FlowInv(d) /\ KnownInv(d)
  PROVE  WriterInv'
<1> DEFINE e == call[c].id
<1>1. spoilt \subseteq spoilt' /\ FlowInv(c)
  BY SpoiltStays
<1>2. ASSUME NEW d \in Callers PROVE \A s : At(d, s) <=> Running(d) /\ St(d) = s
  BY AtSt
<1> SUFFICES ASSUME NEW x \in Callers, Writing(x)', call'[x].id \notin spoilt'
             PROVE  /\ \A d \in Callers : Writing(d)' /\ call'[d].id = call'[x].id => d = x
                    /\ At(x, "write")' => call'[x].fd = "tmp"
                    /\ At(x, "rename")' => tmp'[call'[x].id] = Book(call'[x].new)
  BY DEF WriterInv
<1>3. \A d \in Callers \ {c} : Writing(d)' => Writing(d) /\ call'[d].id = call[d].id
  BY <1>1, Writers
<1>4. Writing(c)' => (Opens(c) \/ Stores(c)) /\ call'[c].id = e
  BY <1>1, Writers
<1>5. call'[x].id = call[x].id /\ call'[x].new = call[x].new /\ call[x].id \notin spoilt
  BY <1>1, Writers
<1>6. Stores(c) \/ Renames(c) \/ GivesUp(c) => Writing(c)
  BY <1>2 DEF Stores, Renames, GivesUp, Writing, Works, FlowWork
<1>7. CASE x # c
  <2>1. Writing(x) /\ (At(x, "write")' => At(x, "write")) /\ (At(x, "rename")' => At(x, "rename"))
    BY <1>1, <1>7, Writers
  <2>2. /\ \A d \in Callers : Writing(d) /\ call[d].id = call[x].id => d = x
        /\ At(x, "write") => call[x].fd = "tmp"
        /\ At(x, "rename") => tmp[call[x].id] = Book(call[x].new)
    BY <1>5, <2>1 DEF WriterInv
  <2>3. call[x].id = e => ~(Opens(c) \/ Stores(c) \/ Renames(c) \/ GivesUp(c))
    <3>1. call[x].id = e => ~Opens(c)
      BY <1>5, <1>7, <2>1 DEF Opens
    <3>2. call[x].id = e => ~(Stores(c) \/ Renames(c) \/ GivesUp(c))
      BY <1>6, <1>7, <2>2
    <3> QED
      BY <3>1, <3>2
  <2>4. call[x].id \in Ids
    BY <1>2, <2>1, Located DEF Writing
  <2>5. call'[x] = call[x] /\ tmp'[call[x].id] = tmp[call[x].id]
    <3>1. CASE call[x].id = e
      <4>1. Quiet(c) \/ Creates(c) \/ Fills(c)
        BY <2>3, <3>1 DEF FileActs
      <4> QED
        BY <1>7, <2>4, <3>1, <4>1 DEF Quiet, Creates, Fills, Alike
    <3>2. CASE call[x].id # e
      BY <1>7, <2>4, <3>2
         DEF FileActs, Quiet, Creates, Fills, Opens, Stores, Renames, GivesUp, Alike, Elsewhere
    <3> QED
      BY <3>1, <3>2
  <2>6. ASSUME NEW d \in Callers, Writing(d)', call'[d].id = call'[x].id PROVE d = x
    <3>1. d # c
      BY <1>4, <1>5, <2>3, <2>6
    <3> QED
      BY <1>3, <1>5, <2>2, <2>6, <3>1
  <2> QED
    BY <1>5, <2>1, <2>2, <2>5, <2>6
<1>8. CASE x = c /\ Opens(c)
  <2>1. At(c, "rename")' => St(c) = "write"
    BY <1>1, <1>8, EditFlow DEF Opens, Works
  <2>2. ~At(x, "rename")' /\ call'[x].fd = "tmp"
    BY <1>8, <2>1 DEF Opens
  <2>3. ASSUME NEW d \in Callers, Writing(d)', call'[d].id = call'[x].id, d # c PROVE FALSE
    BY <1>3, <1>5, <1>8, <2>3 DEF Opens
  <2> QED
    BY <1>8, <2>2, <2>3
<1>9. CASE x = c /\ Stores(c)
  <2>1. At(c, "write")' => St(c) = "open"
    BY <1>1, <1>9, EditFlow DEF Stores, Works
  <2>2. ~At(x, "write")'
    BY <1>9, <2>1 DEF Stores
  <2>3. /\ \A d \in Callers : Writing(d) /\ call[d].id = e => d = c
        /\ At(c, "write") => call[c].fd = "tmp"
    BY <1>5, <1>6, <1>9 DEF WriterInv
  <2>4. call[c].fd = "tmp"
    BY <1>2, <1>9, <2>3 DEF Stores, Works, FlowWork
  <2>5. tmp'[e] = Book(call[c].new)
    BY <1>5, <1>9, <2>4 DEF Stores
  <2>6. ASSUME NEW d \in Callers, Writing(d)', call'[d].id = call'[x].id, d # c PROVE FALSE
    BY <1>3, <1>5, <1>9, <2>3, <2>6
  <2> QED
    BY <1>5, <1>9, <2>2, <2>5, <2>6
<1> QED
  BY <1>4, <1>7, <1>8, <1>9
-----------------------------------------------------------------------------
(* An edit nobody overlapped *)

\* What an editor has at its stages.
Stages(a) ==
    /\ At(a, "add") \/ At(a, "remove") => Stored(call[a].id).book = call[a].book
    /\ At(a, "open") \/ Writing(a) => call[a].new = call[a].want
    /\ Done(a) => Stored(call[a].id) = Book(call[a].want)

\* Another caller's step: it is not with this file.
LEMMA OthersKeep ==
  ASSUME NEW a \in Callers, NEW c \in Callers \ {a}, AloneInv(a), FileActs(c),
         \A d \in Callers : FlowInv(d) /\ KnownInv(d),
         call'[a].tool \in Editors, alone[a], ~Editing(a, c)',
         call'[a].id \notin spoilt'
  PROVE  Stages(a)'
<1> DEFINE e == call[c].id
<1>1. Steady(a)
  BY SameSteady DEF FileActs, Quiet, Creates, Fills, Opens, Stores, Renames, GivesUp, Alike
<1>2. call'[a].tool = call[a].tool /\ call'[a].id = call[a].id
  BY <1>1 DEF Steady, Same, Fields
<1>3. (\A d \in Callers : ~Editing(a, d)) /\ Stages(a)
  <2>1. call[a].id \notin spoilt
    BY <1>2, SpoiltStays
  <2> QED
    BY <1>2, <2>1 DEF AloneInv, Stages
<1>4. \A s : At(c, s) <=> Running(c) /\ St(c) = s
  BY AtSt
<1>5. call[a].id = e => Alike(c) /\ \A x \in Ids : x = e => Later(x) = Stored(x)
  <2>1. call[a].id = e => ~Creates(c)
    BY <1>2 DEF Creates, Editing, SameFile, At
  <2>2. call[a].id = e => ~Copies(c)
    BY <1>3, <1>4 DEF Copies, Editing, SameFile
  <2>3. call[a].id = e => ~(Opens(c) \/ Stores(c) \/ Renames(c) \/ GivesUp(c))
    <3>1. ASSUME Opens(c) \/ Stores(c) \/ Renames(c) \/ GivesUp(c)
          PROVE  Running(c) /\ St(c) \in {"open", "write", "rename"}
      BY <1>4, <3>1 DEF Opens, Stores, Renames, GivesUp, Works, FlowWork
    <3>2. ASSUME Opens(c) \/ Stores(c) \/ Renames(c) \/ GivesUp(c)
          PROVE  Running(c) /\ call[c].tool \in Editors
      BY <3>1, <3>2, Located
    <3> QED
      BY <1>3, <3>2 DEF Editing, SameFile
  <2> QED
    BY <2>1, <2>2, <2>3 DEF FileActs, Quiet, Fills
<1>6. call'[a] = call[a] /\ \A x \in Ids : x = call[a].id => Later(x) = Stored(x)
  <2>1. CASE call[a].id = e
    BY <1>5, <2>1 DEF Alike
  <2>2. CASE call[a].id # e
    BY <2>2 DEF FileActs, Quiet, Creates, Fills, Opens, Stores, Renames, GivesUp, Alike, Elsewhere
  <2> QED
    BY <2>1, <2>2
<1>7. At(a, "add") \/ At(a, "remove") \/ Done(a) => call[a].id \in Ids
  <2>1. Done(a) => call[a].id \in Ids
    BY <1>2 DEF KnownInv
  <2>2. At(a, "add") \/ At(a, "remove") => Running(a) /\ St(a) \in {"add", "remove"}
    BY AtSt
  <2> QED
    BY <2>1, <2>2, Located
<1>8. At(a, "add") \/ At(a, "remove") \/ Done(a) => files'[call[a].id]["contacts.json"] = Stored(call[a].id)
  BY <1>6, <1>7 DEF Later
<1> QED
  BY <1>3, <1>6, <1>8 DEF Stages, Stored, Writing, At, Running, Done

\* Its own step.
LEMMA OwnKeeps ==
  ASSUME NEW a \in Callers, AloneInv(a), HeldInv(a), FlowInv(a), WriterInv, FileActs(a),
         call'[a].tool \in Editors, alone[a], call'[a].id \notin spoilt'
  PROVE  Stages(a)'
<1>1. CASE Starts(a)
  BY <1>1, StartsEarly, StartsAs DEF Stages, Writing, Done
<1>2. CASE Stops(a)
  <2>1. call'[a].pc = 0 /\ call'[a].ok = FALSE
    BY <1>2, StopsAs
  <2>2. ~(call'[a].pc > 0)
    BY <2>1
  <2> QED
    BY <2>1, <2>2 DEF Stages, Writing, At, Running, Done
<1>3. CASE Works(a) /\ ~Starts(a) /\ ~Stops(a)
  <2>1. call'[a].tool = call[a].tool /\ Running(a) /\ \A s : At(a, s) <=> St(a) = s
    BY <1>3, AtSt DEF Works, FlowWork
  <2>2. call[a].id \notin spoilt => Stages(a)
    BY <2>1 DEF AloneInv, Stages
  <2>3. spoilt \subseteq spoilt'
    BY SpoiltStays
  <2>4. /\ At(a, "add")' \/ At(a, "remove")' => St(a) = "contacts"
        /\ At(a, "open")' => St(a) \in {"add", "remove"}
        /\ At(a, "write")' => St(a) = "open"
        /\ At(a, "rename")' => St(a) = "write"
        /\ Done(a)' => St(a) = "rename"
    BY <1>3, <2>1, EditFlow DEF Works
  <2>5. St(a) \notin {"identity", "create", "fill"} => call'[a].id = call[a].id /\ Stages(a)
    BY <1>3, <2>2, <2>3 DEF Works, ReadWork
  <2>6. ASSUME St(a) = "contacts" PROVE files'[call'[a].id]["contacts.json"].book = call'[a].book
    BY <1>3, <2>5, <2>6 DEF Works, ReadWork, Mine
  <2>7. ASSUME St(a) \in {"add", "remove"} PROVE call'[a].new = call'[a].want
    <3> DEFINE b == call[a].book
    <3>1. Stored(call[a].id).book = b /\ IsBook(b) /\ EditWork(a)
      BY <1>3, <2>1, <2>5, <2>7 DEF Stages, HeldInv, Works
    <3>2. Mine(a)["contacts.json"].book = b
      BY <3>1 DEF Mine, Stored
    <3>3. CASE St(a) = "add"
      BY <3>1, <3>2, <3>3 DEF EditWork
    <3>4. CASE St(a) = "remove"
      <4>1. PICK S : LET found == Only(b, S)
                     IN  /\ found # <<>>
                         /\ call'[a].new = RemoveContact(b, found[1].name)
                         /\ call'[a].want = Only(b, Range(b) \ {found[1]})
        BY <3>1, <3>2, <3>4 DEF EditWork
      <4> DEFINE found == Only(b, S)
      <4>2. /\ found = Only(b, S) /\ found # <<>>
            /\ call'[a].new = RemoveContact(b, found[1].name)
            /\ call'[a].want = Only(b, Range(b) \ {found[1]})
        BY <4>1
      <4> HIDE DEF found, b
      <4> QED
        BY <3>1, <4>2, FoundRemoved
    <3> QED
      BY <2>7, <3>3, <3>4
  <2>8. ASSUME St(a) \in {"open", "write", "rename"}
        PROVE  call'[a].new = call[a].new /\ call'[a].want = call[a].want /\ call[a].new = call[a].want
    BY <1>3, <2>1, <2>5, <2>8 DEF Works, EditWork, Stages, Writing
  <2>9. ASSUME St(a) = "rename" PROVE files'[call'[a].id]["contacts.json"] = Book(call'[a].want)
    <3>1. call'[a].id = call[a].id /\ call[a].id \notin spoilt
      BY <2>3, <2>5, <2>9
    <3>2. Renames(a)
      BY <1>3, <2>1, <2>9 DEF FileActs, Quiet, Creates, Fills, Opens, Stores, Renames, GivesUp
    <3>3. tmp[call[a].id] = Book(call[a].new)
      BY <2>1, <2>9, <3>1 DEF WriterInv, Writing
    <3> QED
      BY <2>8, <2>9, <3>1, <3>2, <3>3 DEF Renames, Later
  <2> QED
    BY <2>4, <2>6, <2>7, <2>8, <2>9 DEF Stages, Stored, Writing
<1> QED
  BY <1>1, <1>2, <1>3 DEF FileActs, Quiet, Creates, Fills, Opens, Stores, Renames, GivesUp

LEMMA AloneKept ==
  ASSUME NEW a \in Callers, NEW c \in Callers, AloneInv(a), HeldInv(a), WriterInv, FileActs(c),
         \A d \in Callers : FlowInv(d) /\ KnownInv(d), Observe
  PROVE  AloneInv(a)'
<1> SUFFICES ASSUME call'[a].tool \in Editors, alone'[a]
             PROVE  /\ \A d \in Callers : ~Editing(a, d)'
                    /\ call'[a].id \notin spoilt' => Stages(a)'
  BY DEF AloneInv, Stages
<1>1. alone[a] /\ \A d \in Callers : ~Editing(a, d)'
  BY DEF Observe
<1>2. ASSUME call'[a].id \notin spoilt' PROVE Stages(a)'
  <2>1. CASE a = c
    BY <1>1, <1>2, <2>1, OwnKeeps
  <2>2. CASE a # c
    BY <1>1, <1>2, <2>2, OthersKeep
  <2> QED
    BY <2>1, <2>2
<1> QED
  BY <1>1, <1>2

EditInv ==
    /\ FilesInv /\ TornInv /\ WriterInv
    /\ \A c \in Callers : KnownInv(c) /\ HeldInv(c) /\ AloneInv(c)

LEMMA EditInit ==
  ASSUME Init
  PROVE  EditInv
<1>1. PICK s \in Setups : files = s.files
  BY DEF Init
<1>2. FilesInv
  <2>1. DOMAIN files = Ids /\ DOMAIN tmp = Ids
    BY <1>1, SetupAssumption DEF Init, Ids
  <2>2. ASSUME NEW e \in Ids
        PROVE  /\ DOMAIN files[e] = {"email.json", "contacts.json"}
               /\ FileOK(Stored(e)) /\ Stored(e) # Torn /\ FileOK(tmp[e])
    <3>1. /\ DOMAIN files[e] = {"email.json", "contacts.json"}
          /\ \/ files[e]["contacts.json"] = Absent
             \/ \E b \in {files[e]["contacts.json"].book} :
                   IsBook(b) /\ files[e]["contacts.json"] = Book(b)
      BY <1>1, <2>2, SetupAssumption DEF Ids
    <3>2. tmp[e] = Absent
      BY <2>2 DEF Init, Ids
    <3> QED
      BY <3>1, <3>2, FileKinds DEF Stored
  <2> QED
    BY <2>1, <2>2 DEF FilesInv, FilesShape
<1>3. TornInv
  <2>1. ASSUME NEW e \in Ids PROVE Stored(e) # Torn
    <3>1. \/ files[e]["contacts.json"] = Absent
          \/ \E b \in {files[e]["contacts.json"].book} :
                IsBook(b) /\ files[e]["contacts.json"] = Book(b)
      BY <1>1, <2>1, SetupAssumption DEF Ids
    <3> QED
      BY <3>1, FileKinds DEF Stored
  <2> QED
    BY <2>1 DEF TornInv
<1>4. ASSUME NEW c \in Callers
      PROVE  KnownInv(c) /\ HeldInv(c) /\ AloneInv(c) /\ ~Writing(c)
  <2>1. /\ Idle.tool = None /\ Idle.pc = 0 /\ Idle.book = <<>> /\ Idle.new = <<>> /\ Idle.buf = Absent
    BY DEF Idle
  <2>2. call[c] = Idle /\ None \notin Editors
    BY IdleStart DEF None, Editors
  <2>3. ~(Idle.pc > 0) /\ Base(None) = 1 /\ ~(Idle.pc > 1)
    BY <2>1 DEF Base, None
  <2>4. KnownInv(c)
    BY <2>1, <2>2, <2>3 DEF KnownInv
  <2>5. HeldInv(c)
    BY <2>1, <2>2, NoBook, FileKinds DEF HeldInv
  <2>6. AloneInv(c)
    BY <2>1, <2>2 DEF AloneInv
  <2>7. ~Writing(c)
    BY <2>2, <2>3 DEF Writing, At, Running
  <2> QED
    BY <2>4, <2>5, <2>6, <2>7
<1>5. WriterInv
  BY <1>4 DEF WriterInv
<1> QED
  BY <1>2, <1>3, <1>4, <1>5 DEF EditInv

LEMMA EditStep ==
  ASSUME CallInv, NamesInv, EditInv, Next
  PROVE  EditInv'
<1>1. Shape /\ Step /\ Observe /\ \A c \in Callers : FlowInv(c)
  BY DEF CallInv, Next
<1>2. \A c \in Callers : KnownInv(c)' /\ HeldInv(c)'
  BY <1>1, KnownStep, HeldStep DEF EditInv
<1>3. /\ FilesShape'
      /\ \/ UNCHANGED fileVars /\ call' = call
         \/ \E c \in Callers : FileActs(c)
  BY <1>1, StepTouches DEF EditInv
<1>4. CASE UNCHANGED fileVars /\ call' = call
  <2>1. FilesInv' /\ TornInv' /\ WriterInv'
    BY <1>4 DEF EditInv, fileVars, FilesInv, FilesShape, Stored, TornInv, Copies, WriterInv, Writing, At, Running
  <2>2. ASSUME NEW c \in Callers, call'[c].tool \in Editors, alone'[c] PROVE alone[c]
    BY <2>2 DEF Observe, Next
  <2>3. ASSUME NEW c \in Callers PROVE AloneInv(c)'
    BY <1>4, <2>2
       DEF EditInv, AloneInv, fileVars, Stored, Editing, SameFile, Writing, At, Running, Done
  <2> QED
    BY <1>2, <2>1, <2>3 DEF EditInv
<1>5. ASSUME NEW c \in Callers, FileActs(c) PROVE EditInv'
  <2>1. FilesInv'
    BY <1>3, <1>5, FilesKept DEF EditInv
  <2>2. TornInv'
    BY <1>1, <1>5, TornKept DEF EditInv
  <2>3. WriterInv'
    BY <1>1, <1>5, WriterKept DEF EditInv
  <2>4. \A a \in Callers : AloneInv(a)'
    BY <1>1, <1>5, AloneKept DEF EditInv
  <2> QED
    BY <1>2, <2>1, <2>2, <2>3, <2>4 DEF EditInv
<1> QED
  BY <1>3, <1>4, <1>5

\* The file of the contacts is whole unless two writers, or a first copy, had
\* their hands on it, and an acknowledged edit that nobody overlapped is
\* exactly the change of the file (EditsKept).
THEOREM EditsAreKept == Spec => []EditsKept
<1> DEFINE Inv == CallInv /\ NamesInv /\ EditInv
<1>1. Init => Inv
  <2> SUFFICES ASSUME Init PROVE NamesInv
    BY CallInvInit, EditInit
  <2> QED
    BY SetupAssumption DEF Init, NamesInv
<1>2. Inv /\ [Next]_vars => Inv'
  <2> SUFFICES ASSUME Inv, [Next]_vars PROVE NamesInv' /\ EditInv'
    BY CallInvStep
  <2>1. CASE Next
    BY <2>1, NamesStep, EditStep DEF Next
  <2>2. CASE UNCHANGED vars
    <3>1. NamesInv'
      BY <2>2 DEF vars, idVars, NamesInv
    <3>2. UNCHANGED fileVars /\ call' = call /\ alone' = alone
      BY <2>2 DEF vars
    <3>3. FilesInv' /\ TornInv' /\ WriterInv'
      BY <3>2 DEF EditInv, fileVars, FilesInv, FilesShape, Stored, TornInv, Copies, WriterInv, Writing, At, Running
    <3>4. \A c \in Callers : KnownInv(c)' /\ HeldInv(c)'
      BY <3>2 DEF EditInv, KnownInv, HeldInv, Done, At, Running
    <3>5. \A c \in Callers : AloneInv(c)'
      BY <3>2 DEF EditInv, AloneInv, fileVars, Stored, Editing, SameFile, Writing, At, Running, Done
    <3> QED
      BY <3>1, <3>3, <3>4, <3>5 DEF EditInv
  <2> QED
    BY <2>1, <2>2
<1>3. Inv => EditsKept
  <2> SUFFICES ASSUME Inv PROVE EditsKept
    OBVIOUS
  <2>1. ASSUME NEW e \in Emails \cup {Root}, files[e]["contacts.json"].st = "torn"
        PROVE  e \in spoilt \/ \E c \in Callers : call[c].id = e /\ At(c, "fill")
    <3>1. FileOK(Stored(e)) /\ Stored(e).st = "torn"
      BY <2>1 DEF EditInv, FilesInv, Ids, Stored
    <3>2. Stored(e) = Torn
      BY <3>1 DEF FileOK, Absent, Book
    <3> QED
      BY <3>2 DEF EditInv, TornInv, Copies, Ids
  <2>2. ASSUME NEW c \in Callers, Answered(c, Editors), alone[c], call[c].id \notin spoilt
        PROVE  files[call[c].id]["contacts.json"] = Book(call[c].want)
    BY <2>2 DEF EditInv, AloneInv, Answered, Done, Stored
  <2> QED
    BY <2>1, <2>2 DEF EditsKept
<1> QED
  BY <1>1, <1>2, <1>3, PTL DEF Spec
=============================================================================
