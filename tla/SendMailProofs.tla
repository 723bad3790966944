--------------------------- MODULE SendMailProofs ---------------------------
(***************************************************************************)
(* Proofs about SendMail.tla, for any requests, originals, contacts files, *)
(* edits of them and failures of the two transports.                       *)
(***************************************************************************)
EXTENDS SendMail, TLAPS, WellFoundedInduction

Message == <<callVars, msgVars>>

PCs == {"handler", "probe", "compose", "smtp", "resend", "response", "done"}

TypeInv ==
    /\ entry \in Entries /\ req \in Requests
    /\ sign \in BOOLEAN /\ encrypt \in BOOLEAN
    /\ pc \in PCs /\ (answer = "pending" <=> pc # "done")
    /\ next \in Nat /\ step \in Nat
    /\ IsTool => step \in 1..(IF entry = "send_email" THEN 6 ELSE 7)
    /\ to \in Seq(Range(to)) /\ cc \in Seq(Range(cc)) /\ bcc \in Seq(Range(bcc))

\* Where the final dot and the last exchange are.
Dot == Len(Recipients) + 8
Quit == Len(Recipients) + 10

\* What the chain has established before a copy can be out.
ChainInv ==
    /\ pc \notin {"handler", "done"} => (encrypt => sign) /\ "bcc" \notin req.taint
    /\ pc \in {"handler", "probe", "compose"} => copies = <<>> /\ lost = {} /\ next = 1
    /\ pc = "smtp" =>
         /\ next \in 1..Quit /\ lost = {} /\ Taints = {}
         /\ \/ copies = <<>> /\ next < Quit
            \/ copies = <<TheCopy("smtp")>> /\ next > Dot
    /\ pc = "resend" =>
         \/ copies = <<>> /\ lost = {}
         \/ copies = <<TheCopy("smtp")>> /\ lost = {"smtp"} /\ Taints = {} /\ ~sign
    /\ pc = "response" =>
         /\ ~sign /\ "thread" \notin Taints
         /\ \/ copies = <<TheCopy("resend")>> /\ lost = {}
            \/ /\ copies = <<TheCopy("smtp"), TheCopy("resend")>>
               /\ lost = {"smtp"} /\ Taints = {}
    /\ pc = "done" /\ copies # <<>> =>
         /\ encrypt => sign
         /\ "bcc" \notin req.taint
         /\ \/ copies = <<TheCopy("smtp")>> /\ Taints = {} /\ (answer = "smtp" \/ "smtp" \in lost)
            \/ /\ copies = <<TheCopy("resend")>> /\ "thread" \notin Taints /\ ~sign
               /\ answer = "resend" \/ "resend" \in lost
            \/ /\ copies = <<TheCopy("smtp"), TheCopy("resend")>> /\ Taints = {} /\ ~sign
               /\ "smtp" \in lost /\ (answer = "resend" \/ "resend" \in lost)
    /\ pc = "done" => answer \in {"smtp", "resend", "error"}
    /\ pc = "done" /\ copies = <<>> => answer = "error"

\* The gate of a tool looked at the contacts of this call.
PastGate == (entry = "send_email" /\ step > 3) \/ (entry = "reply_message" /\ step > 5)

GateInv ==
    /\ book \in books /\ books \subseteq Books
    /\ IsTool =>
         /\ step > 1 => store \in books
         /\ PastGate => enforceWritePermission(store, Me, Recipients) = {}
         /\ pc \notin {"handler", "done"} => PastGate
         /\ copies # <<>> => PastGate

OrigInv == orig \in Originals \cup {NoOriginal}

IInv == TypeInv /\ ChainInv /\ GateInv /\ OrigInv

USE DEF callVars, fileVars, msgVars
-----------------------------------------------------------------------------
\* What a copy says depends on the message only.
LEMMA SameMessage ==
  ASSUME UNCHANGED Message
  PROVE  /\ \A v : TheCopy(v)' = TheCopy(v)
         /\ UNCHANGED <<Taints, Recipients, Exchanges, IsTool, IsReply, Threading>>
<1> USE DEF Message
<1>1. UNCHANGED <<IsTool, IsReply, Threading, Recipients, Subject>>
  BY DEF IsTool, IsReply, Threading, Recipients, Subject
<1>2. UNCHANGED Taints
  BY <1>1 DEF Taints
<1>3. UNCHANGED Exchanges
  BY <1>1 DEF Exchanges
<1>4. \A v : TheCopy(v)' = TheCopy(v)
  BY <1>1, <1>2 DEF TheCopy
<1> QED
  BY <1>1, <1>2, <1>3, <1>4

\* The exchanges by position.
LEMMA ExchangeAt ==
  ASSUME TypeInv
  PROVE  /\ Len(Recipients) \in Nat
         /\ \A i \in 1..Quit :
              /\ Exchanges[i] = "dot" <=> i = Dot
              /\ Exchanges[i] = "close" <=> i = Dot + 1
              /\ Exchanges[i] = "quit" <=> i = Quit
              /\ Exchanges[i] = "password" => i = 1
<1> DEFINE n == Len(Recipients)
           W == {"password", "dial", "tls", "auth", "mail", "rcpt",
                 "data", "write", "dot", "close", "quit"}
           pre == <<"password", "dial", "tls", "auth", "mail">>
           mid == [i \in 1..n |-> "rcpt"]
           post == <<"data", "write", "dot", "close", "quit">>
<1>1. n \in Nat
  <2>1. Recipients \in Seq(Range(to) \cup Range(cc) \cup Range(bcc))
    BY DEF TypeInv, Recipients
  <2> QED
    BY <2>1
<1> HIDE DEF n
<1>2. pre \in Seq(W) /\ mid \in Seq(W) /\ post \in Seq(W)
  <2>1. pre \in Seq(W) /\ post \in Seq(W)
    OBVIOUS
  <2>2. mid \in [1..n -> W]
    OBVIOUS
  <2>3. mid \in Seq(W)
    BY <1>1, <2>2
  <2> QED
    BY <2>1, <2>3
<1>3. Len(pre) = 5 /\ Len(mid) = n /\ Len(post) = 5
  <2>1. DOMAIN mid = 1..n
    OBVIOUS
  <2>2. Len(mid) = n
    BY <1>1, <1>2, <2>1
  <2> QED
    BY <2>2
<1>4. Exchanges = (pre \o mid) \o post
  BY DEF Exchanges, n
<1>5. (pre \o mid) \in Seq(W) /\ Len(pre \o mid) = n + 5
  BY <1>1, <1>2, <1>3
<1>6. \A i \in 1..(n + 5) : Exchanges[i] = (pre \o mid)[i]
  BY <1>1, <1>2, <1>4, <1>5
<1>7. \A i \in 1..5 : Exchanges[n + 5 + i] = post[i]
  BY <1>1, <1>2, <1>3, <1>4, <1>5
<1>8. \A i \in 1..5 : (pre \o mid)[i] = pre[i]
  BY <1>1, <1>2, <1>3
<1>9. \A i \in 6..(n + 5) : (pre \o mid)[i] = "rcpt"
  BY <1>1, <1>2, <1>3
<1>10. \A i \in 1..Quit : i \in 1..5 \/ i \in 6..(n + 5) \/ \E j \in 1..5 : i = n + 5 + j
  <2> SUFFICES ASSUME NEW i \in 1..Quit, i > n + 5
               PROVE  \E j \in 1..5 : i = n + 5 + j
    BY <1>1 DEF Quit, n
  <2>1. i - (n + 5) \in 1..5 /\ i = n + 5 + (i - (n + 5))
    BY <1>1 DEF Quit, n
  <2> QED
    BY <2>1
<1> HIDE DEF mid
<1>11. /\ Exchanges[1] = "password" /\ Exchanges[2] = "dial" /\ Exchanges[3] = "tls"
       /\ Exchanges[4] = "auth" /\ Exchanges[5] = "mail"
       /\ \A i \in 6..(n + 5) : Exchanges[i] = "rcpt"
       /\ Exchanges[n + 6] = "data" /\ Exchanges[n + 7] = "write" /\ Exchanges[n + 8] = "dot"
       /\ Exchanges[n + 9] = "close" /\ Exchanges[n + 10] = "quit"
  <2>1. \A i \in 1..5 : Exchanges[i] = pre[i]
    <3>1. \A i \in 1..5 : i \in 1..(n + 5)
      BY <1>1
    <3> QED
      BY <1>6, <1>8, <3>1
  <2>2. \A i \in 6..(n + 5) : Exchanges[i] = "rcpt"
    <3>1. \A i \in 6..(n + 5) : i \in 1..(n + 5)
      BY <1>1
    <3> QED
      BY <1>6, <1>9, <3>1
  <2>3. /\ n + 5 + 1 = n + 6 /\ n + 5 + 2 = n + 7 /\ n + 5 + 3 = n + 8
        /\ n + 5 + 4 = n + 9 /\ n + 5 + 5 = n + 10
    BY <1>1
  <2> QED
    BY <1>7, <2>1, <2>2, <2>3
<1> HIDE DEF pre, post
<1> QED
  <2> SUFFICES ASSUME NEW i \in 1..Quit
               PROVE  /\ Exchanges[i] = "dot" <=> i = Dot
                      /\ Exchanges[i] = "close" <=> i = Dot + 1
                      /\ Exchanges[i] = "quit" <=> i = Quit
                      /\ Exchanges[i] = "password" => i = 1
    BY <1>1 DEF n
  <2>1. i \in Int /\ Dot = n + 8 /\ Quit = n + 10
    BY <1>1 DEF Dot, Quit, n
  <2>2. CASE i \in 1..5
    <3>1. i = 1 \/ i = 2 \/ i = 3 \/ i = 4 \/ i = 5
      BY <2>2
    <3> QED
      BY <1>1, <1>11, <2>1, <3>1
  <2>3. CASE i \in 6..(n + 5)
    BY <1>1, <1>11, <2>1, <2>3
  <2>4. CASE \E j \in 1..5 : i = n + 5 + j
    <3>1. i = n + 6 \/ i = n + 7 \/ i = n + 8 \/ i = n + 9 \/ i = n + 10
      BY <1>1, <2>4
    <3> QED
      BY <1>1, <1>11, <2>1, <3>1
  <2> QED
    BY <1>10, <2>2, <2>3, <2>4

\* The stages of the two tools by position.
LEMMA ToolStages ==
  ASSUME TypeInv, IsTool, pc = "handler"
  PROVE  /\ entry \in {"send_email", "reply_message"}
         /\ At("context") => step = 1
         /\ At("resolve") => step = 2
         /\ At("gate") => (entry = "send_email" /\ step = 3) \/ (entry = "reply_message" /\ step = 5)
         /\ At("fetch") => entry = "reply_message" /\ step = 4
         /\ At("attach") => (entry = "send_email" /\ step = 4) \/ (entry = "reply_message" /\ step = 3)
         /\ At("keys") => (entry = "send_email" /\ step = 5) \/ (entry = "reply_message" /\ step = 6)
         /\ At("chain") => (entry = "send_email" /\ step = 6) \/ (entry = "reply_message" /\ step = 7)
<1>1. entry \in {"send_email", "reply_message"}
  BY DEF IsTool
<1>2. CASE entry = "send_email"
  <2>1. Route[entry] = sendEmail
    BY <1>2 DEF Route
  <2>2. step = 1 \/ step = 2 \/ step = 3 \/ step = 4 \/ step = 5 \/ step = 6
    BY <1>2 DEF TypeInv
  <2> QED
    BY <1>2, <2>1, <2>2 DEF At, sendEmail
<1>3. CASE entry = "reply_message"
  <2>1. Route[entry] = replyMessage
    BY <1>3 DEF Route
  <2>2. step = 1 \/ step = 2 \/ step = 3 \/ step = 4 \/ step = 5 \/ step = 6 \/ step = 7
    BY <1>3 DEF TypeInv
  <2> QED
    BY <1>3, <2>1, <2>2 DEF At, replyMessage
<1> QED
  BY <1>1, <1>2, <1>3

\* An error return before anything was sent, or after the SMTP server hid
\* that it had taken the message.
LEMMA FailStep ==
  ASSUME IInv, Fail, pc \in {"handler", "compose", "resend"}
  PROVE  IInv'
<1>1. /\ answer' = "error" /\ pc' = "done" /\ UNCHANGED Message
      /\ UNCHANGED <<fileVars, step, next, copies, lost>>
  BY DEF Fail, Message
<1>2. /\ UNCHANGED <<Taints, Recipients, IsTool>> /\ \A v : TheCopy(v)' = TheCopy(v)
  BY <1>1, SameMessage
<1>3. TypeInv'
  BY <1>1, <1>2 DEF IInv, TypeInv, PCs, Message
<1>4. ChainInv'
  BY <1>1, <1>2 DEF IInv, ChainInv, Message
<1>5. GateInv'
  BY <1>1, <1>2 DEF IInv, GateInv, PastGate, Message
<1>6. OrigInv'
  BY <1>1 DEF IInv, OrigInv, Message
<1> QED
  BY <1>3, <1>4, <1>5, <1>6 DEF IInv

\* The handlers up to the chain.
LEMMA HandlerSteps ==
  ASSUME IInv, Context \/ Resolve \/ FetchThread \/ Gate \/ Attach \/ EncryptKeys
  PROVE  IInv'
<1>1. pc = "handler"
  BY DEF Context, Resolve, FetchThread, Gate, Attach, EncryptKeys, At
<1>2. CASE Fail
  BY <1>1, <1>2, FailStep
<1>3. CASE ~ Fail
  <2>1. HandlerOnly /\ step' = step + 1
    BY <1>3 DEF Context, Resolve, FetchThread, Gate, Attach, EncryptKeys, Advance
  <2>2. UNCHANGED <<callVars, fileVars, pc, next, copies, lost, answer>> /\ (IsTool' <=> IsTool)
    BY <2>1 DEF HandlerOnly, IsTool
  <2>3. copies = <<>> /\ lost = {} /\ next = 1
    BY <1>1 DEF IInv, ChainInv
  <2>4. ChainInv'
    BY <1>1, <2>2, <2>3 DEF ChainInv
  <2>5. /\ to' \in Seq(Range(to')) /\ cc' \in Seq(Range(cc')) /\ bcc' \in Seq(Range(bcc'))
        /\ encrypt' \in BOOLEAN /\ orig' \in Originals \cup {NoOriginal}
    <3>1. CASE Context \/ Gate \/ Attach
      BY <1>3, <3>1 DEF Context, Gate, Attach, IInv, TypeInv, OrigInv
    <3>2. CASE EncryptKeys
      <4>1. encrypt' \in BOOLEAN
        BY <3>2 DEF EncryptKeys, encryptKeysFor
      <4> QED
        BY <3>2, <4>1 DEF EncryptKeys, IInv, TypeInv, OrigInv
    <3>3. CASE FetchThread
      <4>1. PICK o \in Originals : orig' = o /\ to' = <<o.replyTo>> /\ UNCHANGED <<cc, bcc, encrypt>>
        BY <1>3, <3>3 DEF FetchThread
      <4>2. to' \in Seq(Range(to'))
        BY <4>1 DEF Range
      <4> QED
        BY <4>1, <4>2 DEF IInv, TypeInv
    <3>4. CASE Resolve
      <4>1. \A b, t : t \in Seq(Names \cup Exact \cup Patterns) =>
              ResolveAddresses(b, t) \in Seq(Range(ResolveAddresses(b, t)))
        <5> SUFFICES ASSUME NEW b, NEW t \in Seq(Names \cup Exact \cup Patterns)
                     PROVE  ResolveAddresses(b, t) \in Seq(Range(ResolveAddresses(b, t)))
          OBVIOUS
        <5> DEFINE r == [i \in DOMAIN t |-> ResolveAddress(b, t[i])]
        <5>1. r \in Seq(Range(r))
          <6>1. DOMAIN t = 1..Len(t) /\ Len(t) \in Nat
            OBVIOUS
          <6>2. r \in [1..Len(t) -> Range(r)]
            BY <6>1 DEF Range
          <6> QED
            BY <6>1, <6>2
        <5>2. <<Failed>> \in Seq(Range(<<Failed>>))
          BY DEF Range
        <5> HIDE DEF r
        <5>3. ResolveAddresses(b, t) = r \/ ResolveAddresses(b, t) = <<Failed>>
          BY DEF ResolveAddresses, r
        <5> QED
          BY <5>1, <5>2, <5>3
      <4>2. \E f : /\ to' = <<>> \/ to' = ResolveAddresses(f, req.to)
                   /\ cc' = ResolveAddresses(f, req.cc) /\ bcc' = ResolveAddresses(f, req.bcc)
        BY <1>3, <3>4 DEF Resolve
      <4>3. /\ req.to \in Seq(Names \cup Exact \cup Patterns)
            /\ req.cc \in Seq(Names \cup Exact \cup Patterns)
            /\ req.bcc \in Seq(Names \cup Exact \cup Patterns)
        BY SendAssumption DEF IInv, TypeInv
      <4>4. <<>> \in Seq(Range(<<>>))
        OBVIOUS
      <4>5. UNCHANGED <<orig, encrypt>>
        BY <1>3, <3>4 DEF Resolve
      <4> QED
        BY <4>1, <4>2, <4>3, <4>4, <4>5 DEF IInv, TypeInv, OrigInv
    <3> QED
      BY <3>1, <3>2, <3>3, <3>4
  <2>6. TypeInv'
    <3>1. step \in Nat /\ step' \in Nat
      BY <2>1 DEF IInv, TypeInv
    <3>2. IsTool => step' \in 1..(IF entry = "send_email" THEN 6 ELSE 7)
      <4>1. \E st \in {"context", "resolve", "fetch", "gate", "attach", "keys"} : At(st)
        BY DEF Context, Resolve, FetchThread, Gate, Attach, EncryptKeys
      <4>2. TypeInv
        BY DEF IInv
      <4>3. IsTool => /\ entry = "send_email" => step \in 1..5
                      /\ entry # "send_email" => step \in 1..6
        BY <1>1, <4>1, <4>2, ToolStages
      <4> QED
        BY <2>1, <3>1, <4>3
    <3> QED
      BY <2>2, <2>5, <3>1, <3>2 DEF IInv, TypeInv
  <2>7. GateInv'
    <3> SUFFICES ASSUME IsTool
                 PROVE  /\ step' > 1 => store' \in books
                        /\ PastGate' => enforceWritePermission(store', Me, Recipients') = {}
      BY <1>1, <2>2, <2>3 DEF IInv, GateInv
    <3>1. CASE Context
      <4>1. step = 1 /\ store' = book
        BY <1>1, <1>3, <3>1, ToolStages DEF Context, IInv
      <4>2. ~ PastGate'
        BY <2>1, <4>1 DEF PastGate
      <4> QED
        BY <4>1, <4>2 DEF IInv, GateInv
    <3>2. CASE Resolve
      <4>1. step = 2 /\ store' = store
        BY <1>1, <1>3, <3>2, ToolStages DEF Resolve, IInv
      <4>2. ~ PastGate'
        BY <2>1, <4>1 DEF PastGate
      <4> QED
        BY <4>1, <4>2 DEF IInv, GateInv
    <3>3. CASE FetchThread
      <4>1. entry = "reply_message" /\ step = 4 /\ store' = store
        BY <1>1, <1>3, <3>3, ToolStages DEF FetchThread, IInv
      <4>2. ~ PastGate'
        BY <2>1, <2>2, <4>1 DEF PastGate
      <4> QED
        BY <4>1, <4>2 DEF IInv, GateInv
    <3>4. CASE Gate
      BY <1>1, <1>3, <2>1, <2>2, <3>4, ToolStages DEF Gate, IInv, GateInv, PastGate, Recipients
    <3>5. CASE Attach
      BY <1>1, <1>3, <2>1, <2>2, <3>5, ToolStages DEF Attach, IInv, GateInv, PastGate, Recipients
    <3>6. CASE EncryptKeys
      BY <1>1, <1>3, <2>1, <2>2, <3>6, ToolStages DEF EncryptKeys, IInv, GateInv, PastGate, Recipients
    <3> QED
      BY <3>1, <3>2, <3>3, <3>4, <3>5, <3>6
  <2>8. OrigInv'
    BY <2>5 DEF OrigInv
  <2> QED
    BY <2>4, <2>6, <2>7, <2>8 DEF IInv
<1> QED
  BY <1>2, <1>3

\* Once the handler is done the message stands.
LEMMA ChainFrame ==
  ASSUME IInv, UNCHANGED <<Message, fileVars, step>>, pc' \in PCs, next' \in Nat,
         answer' = "pending" <=> pc' # "done"
  PROVE  /\ TypeInv' /\ OrigInv'
         /\ (IsTool /\ (pc' \notin {"handler", "done"} \/ copies' # <<>>) => PastGate) => GateInv'
<1>1. UNCHANGED <<Recipients, IsTool>>
  BY SameMessage
<1>2. TypeInv' /\ OrigInv'
  BY <1>1 DEF IInv, TypeInv, OrigInv, Message
<1>3. ASSUME IsTool /\ (pc' \notin {"handler", "done"} \/ copies' # <<>>) => PastGate
      PROVE  GateInv'
  BY <1>1, <1>3 DEF IInv, GateInv, PastGate, Message
<1> QED
  BY <1>2, <1>3

\* From the checks of TrySendChain to the composed message.
LEMMA ChainSteps ==
  ASSUME IInv, Chain \/ Probe \/ Compose
  PROVE  IInv'
<1>1. pc \in {"handler", "probe", "compose"}
  BY DEF Chain, Probe, Compose, At
<1>2. CASE Fail
  <2>1. pc \in {"handler", "compose"}
    BY <1>2 DEF Chain, Probe, Compose, At, Fail, Goto
  <2> QED
    BY <1>2, <2>1, FailStep
<1>3. CASE ~ Fail
  <2>1. \E l \in {"probe", "compose", "resend", "smtp"} : Goto(l)
    BY <1>3 DEF Chain, Probe, Compose
  <2>2. /\ UNCHANGED <<Message, fileVars, step, next, copies, lost, answer>>
        /\ pc' \in {"probe", "compose", "resend", "smtp"}
    BY <2>1 DEF Goto, ChainOnly, Message
  <2>3. copies = <<>> /\ lost = {} /\ next = 1 /\ answer = "pending"
    BY <1>1 DEF IInv, ChainInv, TypeInv
  <2>4. /\ (encrypt => sign) /\ "bcc" \notin req.taint
        /\ pc' = "smtp" => Taints = {}
        /\ IsTool => PastGate
    <3>1. CASE Chain
      <4>1. (encrypt => sign) /\ "bcc" \notin req.taint /\ pc' = "probe" /\ At("chain")
        BY <1>3, <3>1 DEF Chain, Goto
      <4>2. IsTool => PastGate
        BY <4>1, ToolStages DEF At, PastGate, IInv
      <4> QED
        BY <4>1, <4>2
    <3>2. CASE Probe
      <4>1. pc = "probe" /\ pc' # "smtp"
        BY <3>2 DEF Probe, Goto
      <4> QED
        BY <4>1 DEF IInv, ChainInv, GateInv
    <3>3. CASE Compose
      <4>1. pc = "compose" /\ Taints = {}
        BY <1>3, <3>3 DEF Compose, ComposeRaw, ComposeSignedRaw, ComposeEncryptedSignedRaw
      <4> QED
        BY <4>1 DEF IInv, ChainInv, GateInv
    <3> QED
      BY <3>1, <3>2, <3>3
  <2>5. /\ UNCHANGED <<Taints, Recipients>> /\ \A v : TheCopy(v)' = TheCopy(v)
    BY <2>2, SameMessage
  <2>6. ChainInv'
    <3>1. 1 \in 1..Quit /\ 1 < Quit
      BY ExchangeAt DEF Quit, IInv
    <3>2. Quit' = Quit /\ Dot' = Dot
      BY <2>5 DEF Quit, Dot
    <3>3. UNCHANGED <<encrypt, sign, req>>
      BY <2>2 DEF Message
    <3> QED
      BY <2>2, <2>3, <2>4, <2>5, <3>1, <3>2, <3>3 DEF ChainInv
  <2>7. TypeInv' /\ OrigInv' /\ GateInv'
    <3>1. pc' \in PCs /\ next' \in Nat /\ (answer' = "pending" <=> pc' # "done")
      BY <2>2, <2>3 DEF PCs
    <3> QED
      BY <2>2, <2>4, <3>1, ChainFrame
  <2> QED
    BY <2>6, <2>7 DEF IInv
<1> QED
  BY <1>2, <1>3

\* The exchanges with the SMTP server.
LEMMA SMTPSteps ==
  ASSUME IInv, ReadPassword \/ SMTPSend \/ ServerTakes
  PROVE  IInv'
<1>1. pc = "smtp" /\ UNCHANGED <<Message, fileVars, step>>
  BY DEF ReadPassword, SMTPSend, ServerTakes, ChainOnly, Message
<1>2. /\ UNCHANGED <<Taints, Recipients, Exchanges>> /\ \A v : TheCopy(v)' = TheCopy(v)
  BY <1>1, SameMessage
<1>3. UNCHANGED <<encrypt, sign, req, Quit, Dot>>
  BY <1>1, <1>2 DEF Message, Quit, Dot
<1>4. Len(Recipients) \in Nat /\ Dot \in Nat /\ Quit = Dot + 2 /\ next \in 1..Quit
  BY <1>1, ExchangeAt DEF IInv, ChainInv, Dot, Quit
<1>5. /\ Exchanges[next] = "dot" <=> next = Dot
      /\ Exchanges[next] = "close" <=> next = Dot + 1
      /\ Exchanges[next] = "quit" <=> next = Quit
      /\ Exchanges[next] = "password" => next = 1
  BY <1>4, ExchangeAt DEF IInv
<1>6. /\ (encrypt => sign) /\ "bcc" \notin req.taint /\ lost = {} /\ Taints = {}
      /\ \/ copies = <<>> /\ next < Quit
         \/ copies = <<TheCopy("smtp")>> /\ next > Dot
      /\ answer = "pending"
  BY <1>1 DEF IInv, ChainInv, TypeInv
<1>7. <<TheCopy("smtp")>> # <<>>
  OBVIOUS
<1> DEFINE Failing == /\ SMTPFailed /\ UNCHANGED copies
                      /\ lost' = IF copies # <<>> THEN {"smtp"} ELSE {}
           Going == /\ next' = next + 1 /\ UNCHANGED <<pc, answer, lost>> /\ next < Quit
                    /\ \/ copies' = <<>> /\ next + 1 < Quit
                       \/ copies' = <<TheCopy("smtp")>> /\ next + 1 > Dot
           Ending == /\ Delivered /\ UNCHANGED <<next, lost, copies>>
                     /\ copies = <<TheCopy("smtp")>>
<1>8. Failing \/ Going \/ Ending
  <2>1. CASE ReadPassword
    <3>1. copies = <<>> /\ next = 1 /\ 1 < Dot
      BY <1>4, <1>5, <1>6, <2>1 DEF ReadPassword, Dot
    <3> QED
      BY <1>4, <1>6, <2>1, <3>1 DEF ReadPassword
  <2>2. CASE SMTPSend
    <3>1. CASE SMTPFailed /\ lost' = IF copies # <<>> THEN lost \cup {"smtp"} ELSE lost
      BY <1>6, <2>2, <3>1 DEF SMTPSend
    <3>2. CASE Exchanges[next] = "quit" /\ Delivered /\ UNCHANGED <<next, lost>>
      BY <1>4, <1>5, <1>6, <2>2, <3>2 DEF SMTPSend
    <3>3. CASE /\ Exchanges[next] # "quit" /\ (Exchanges[next] = "close" => copies # <<>>)
               /\ next' = next + 1 /\ UNCHANGED <<pc, answer, lost>>
      <4>1. next < Quit /\ UNCHANGED copies
        BY <1>4, <1>5, <2>2, <3>3 DEF SMTPSend
      <4>2. CASE copies = <<>>
        BY <1>4, <1>5, <2>2, <3>3, <4>1, <4>2 DEF SMTPSend
      <4>3. CASE copies = <<TheCopy("smtp")>> /\ next > Dot
        BY <1>4, <3>3, <4>1, <4>3
      <4> QED
        BY <1>6, <4>2, <4>3
    <3> QED
      BY <2>2, <3>1, <3>2, <3>3 DEF SMTPSend
  <2>3. CASE ServerTakes
    <3>1. next = Dot /\ copies = <<>> /\ next + 1 < Quit /\ next + 1 > Dot /\ next < Quit
      BY <1>4, <1>5, <1>6, <2>3 DEF ServerTakes
    <3>2. copies' = <<>> \/ copies' = <<TheCopy("smtp")>>
      BY <2>3, <3>1 DEF ServerTakes
    <3> QED
      BY <2>3, <3>1, <3>2 DEF ServerTakes
  <2> QED
    BY <2>1, <2>2, <2>3
<1>9. /\ pc' \in {"smtp", "resend", "done"} /\ next' \in Nat
      /\ (answer' = "pending" <=> pc' # "done")
  BY <1>1, <1>4, <1>6, <1>8 DEF SMTPFailed, Delivered
<1>10. ChainInv'
  <2>1. CASE Failing
    BY <1>2, <1>3, <1>6, <1>7, <2>1 DEF ChainInv, SMTPFailed
  <2>2. CASE Going
    <3>1. next' \in 1..Quit
      BY <1>4, <2>2
    <3> QED
      BY <1>1, <1>2, <1>3, <1>6, <1>7, <2>2, <3>1 DEF ChainInv
  <2>3. CASE Ending
    BY <1>2, <1>3, <1>6, <1>7, <2>3 DEF ChainInv, Delivered
  <2> QED
    BY <1>8, <2>1, <2>2, <2>3
<1>11. TypeInv' /\ OrigInv' /\ GateInv'
  <2>1. IsTool => PastGate
    BY <1>1 DEF IInv, GateInv
  <2> QED
    BY <1>1, <1>9, <2>1, ChainFrame DEF PCs
<1> QED
  BY <1>10, <1>11 DEF IInv

\* Append on the shortest sequences.
LEMMA Appending == \A a, b : Append(<<>>, b) = <<b>> /\ Append(<<a>>, b) = <<a, b>>
<1> SUFFICES ASSUME NEW a, NEW b
             PROVE  Append(<<>>, b) = <<b>> /\ Append(<<a>>, b) = <<a, b>>
  OBVIOUS
<1> DEFINE S == {a, b}
<1>1. a \in S /\ b \in S /\ <<a>> \in Seq(S) /\ <<>> \in Seq(S)
  OBVIOUS
<1>2. Append(<<>>, b) = <<b>>
  OBVIOUS
<1>3. <<a, b>> \in Seq(S) /\ Append(<<a>>, b) \in Seq(S)
  BY <1>1
<1>4. Len(Append(<<a>>, b)) = 2 /\ Append(<<a>>, b)[1] = a /\ Append(<<a>>, b)[2] = b
  BY <1>1
<1>5. Append(<<a>>, b) = <<a, b>>
  <2> DEFINE s == Append(<<a>>, b)
             t == <<a, b>>
  <2>1. Len(t) = 2 /\ t[1] = a /\ t[2] = b
    OBVIOUS
  <2>2. DOMAIN s = 1..2 /\ DOMAIN t = 1..2
    BY <1>3, <1>4
  <2>3. \A i \in 1..2 : s[i] = t[i]
    <3>1. \A i \in 1..2 : i = 1 \/ i = 2
      OBVIOUS
    <3> QED
      BY <1>4, <2>1, <3>1
  <2>4. s = [i \in 1..2 |-> s[i]] /\ t = [i \in 1..2 |-> t[i]]
    BY <1>3, <2>2
  <2> HIDE DEF s, t
  <2>5. s = t
    BY <2>3, <2>4
  <2> QED
    BY <2>5 DEF s, t
<1> QED
  BY <1>2, <1>5

\* The elements of the shortest sequences.
LEMMA Elements ==
  ASSUME NEW x, NEW y
  PROVE  /\ DOMAIN <<>> = {}
         /\ DOMAIN <<x>> = {1} /\ <<x>>[1] = x
         /\ DOMAIN <<x, y>> = {1, 2} /\ <<x, y>>[1] = x /\ <<x, y>>[2] = y
OBVIOUS

\* The Resend API.
LEMMA ResendSteps ==
  ASSUME IInv, Resend \/ Response
  PROVE  IInv'
<1>1. CASE Fail /\ pc = "resend"
  BY <1>1, FailStep
<1>2. CASE ~ (Fail /\ pc = "resend")
  <2>1. pc \in {"resend", "response"} /\ UNCHANGED <<Message, fileVars, step, next>>
    BY <1>2 DEF Resend, Response, ChainOnly, Message
  <2>2. /\ UNCHANGED <<Taints, Recipients>> /\ \A v : TheCopy(v)' = TheCopy(v)
    BY <2>1, SameMessage
  <2>3. UNCHANGED <<encrypt, sign, req>>
    BY <2>1 DEF Message
  <2>4. (encrypt => sign) /\ "bcc" \notin req.taint /\ answer = "pending"
    BY <2>1 DEF IInv, ChainInv, TypeInv
  <2>5. <<TheCopy("resend")>> # <<>> /\ <<TheCopy("smtp"), TheCopy("resend")>> # <<>>
    OBVIOUS
  <2>6. CASE Resend
    <3>1. /\ pc = "resend" /\ ~ sign /\ "thread" \notin Taints
          /\ copies' = Append(copies, TheCopy("resend")) /\ pc' = "response"
          /\ UNCHANGED <<next, lost, answer>>
      BY <1>2, <2>6 DEF Resend
    <3>2. \/ copies' = <<TheCopy("resend")>> /\ lost = {}
          \/ /\ copies' = <<TheCopy("smtp"), TheCopy("resend")>>
             /\ lost = {"smtp"} /\ Taints = {}
      <4>1. \/ copies = <<>> /\ lost = {}
            \/ copies = <<TheCopy("smtp")>> /\ lost = {"smtp"} /\ Taints = {}
        BY <3>1 DEF IInv, ChainInv
      <4>2. \A a, b : Append(<<>>, b) = <<b>> /\ Append(<<a>>, b) = <<a, b>>
        BY Appending
      <4> QED
        BY <3>1, <4>1, <4>2
    <3>3. ChainInv'
      BY <2>2, <2>3, <2>4, <3>1, <3>2 DEF ChainInv
    <3>4. IsTool => PastGate
      BY <2>1 DEF IInv, GateInv
    <3>5. pc' \in PCs /\ next' \in Nat /\ (answer' = "pending" <=> pc' # "done")
      BY <2>1, <2>4, <3>1 DEF PCs, IInv, TypeInv
    <3> QED
      BY <2>1, <3>3, <3>4, <3>5, ChainFrame DEF IInv
  <2>7. CASE Response
    <3>1. /\ pc = "response" /\ pc' = "done" /\ UNCHANGED <<next, copies>>
          /\ \/ answer' = "resend" /\ UNCHANGED lost
             \/ answer' = "error" /\ lost' = lost \cup {"resend"}
      BY <2>7 DEF Response
    <3>2. ChainInv'
      BY <2>2, <2>3, <2>4, <2>5, <3>1 DEF ChainInv, IInv
    <3>4. IsTool => PastGate
      BY <2>1 DEF IInv, GateInv
    <3>5. pc' \in PCs /\ next' \in Nat /\ (answer' = "pending" <=> pc' # "done")
      BY <2>1, <3>1 DEF PCs, IInv, TypeInv
    <3> QED
      BY <2>1, <3>2, <3>4, <3>5, ChainFrame DEF IInv
  <2> QED
    BY <2>6, <2>7
<1> QED
  BY <1>1, <1>2

LEMMA Initially == Init => IInv
<1> SUFFICES ASSUME Init PROVE IInv
  OBVIOUS
<1>1. TypeInv
  <2>1. <<>> \in Seq(Range(<<>>))
    OBVIOUS
  <2>2. IsTool => step \in 1..(IF entry = "send_email" THEN 6 ELSE 7)
    BY DEF Init
  <2>3. to \in Seq(Range(to)) /\ cc \in Seq(Range(cc)) /\ bcc \in Seq(Range(bcc))
    BY <2>1 DEF Init
  <2> QED
    BY <2>2, <2>3 DEF Init, TypeInv, PCs
<1>2. ChainInv /\ OrigInv
  BY DEF Init, ChainInv, OrigInv
<1>3. GateInv
  BY DEF Init, GateInv, PastGate
<1> QED
  BY <1>1, <1>2, <1>3 DEF IInv

LEMMA StepKeeps == IInv /\ [Next]_vars => IInv'
<1> SUFFICES ASSUME IInv, [Next]_vars PROVE IInv'
  OBVIOUS
<1>1. CASE EditBook \/ UNCHANGED vars
  <2>1. /\ UNCHANGED <<Message, step, pc, next, copies, lost, answer>>
        /\ book' \in books' /\ books \subseteq books' /\ books' \subseteq Books
    BY <1>1 DEF EditBook, vars, Message, IInv, GateInv
  <2>2. /\ UNCHANGED <<Taints, Recipients, IsTool>> /\ \A v : TheCopy(v)' = TheCopy(v)
    BY <2>1, SameMessage
  <2>3. UNCHANGED <<entry, req, sign, encrypt, orig, store, to, cc, bcc>>
    BY <2>1 DEF Message
  <2>4. UNCHANGED <<Quit, Dot, PastGate>>
    BY <2>1, <2>2, <2>3 DEF Quit, Dot, PastGate
  <2>5. TypeInv' /\ OrigInv'
    BY <2>1, <2>2, <2>3 DEF IInv, TypeInv, OrigInv
  <2>6. ChainInv'
    BY <2>1, <2>2, <2>3, <2>4 DEF IInv, ChainInv
  <2>7. GateInv'
    BY <2>1, <2>2, <2>3, <2>4 DEF IInv, GateInv
  <2> QED
    BY <2>5, <2>6, <2>7 DEF IInv
<1> QED
  BY <1>1, HandlerSteps, ChainSteps, SMTPSteps, ResendSteps DEF Next, Terminated

\* The inductive invariant: by the position in the chain, which copies can be
\* out and what was checked before (TrySendChain, SMTPSend, Send).
THEOREM Inductive == Spec => []IInv
BY Initially, StepKeeps, PTL DEF Spec

\* The copies of a state that satisfies the invariant, whatever the position.
LEMMA CopyCases ==
  ASSUME IInv
  PROVE  /\ \/ copies = <<>>
            \/ copies = <<TheCopy("smtp")>> /\ Taints = {}
            \/ copies = <<TheCopy("resend")>> /\ "thread" \notin Taints
            \/ /\ copies = <<TheCopy("smtp"), TheCopy("resend")>>
               /\ "smtp" \in lost /\ Taints = {}
         /\ copies # <<>> => "bcc" \notin req.taint
         /\ answer = "error" =>
              /\ copies = <<TheCopy("smtp")>> => "smtp" \in lost
              /\ copies = <<TheCopy("resend")>> => "resend" \in lost
              /\ copies = <<TheCopy("smtp"), TheCopy("resend")>> => {"smtp", "resend"} \subseteq lost
<1>1. pc \in PCs /\ (answer = "pending" <=> pc # "done")
  BY DEF IInv, TypeInv
<1>2. TheCopy("smtp") # TheCopy("resend")
  BY DEF TheCopy
<1>3. /\ <<TheCopy("smtp")>> # <<TheCopy("resend")>>
      /\ <<TheCopy("smtp"), TheCopy("resend")>> # <<TheCopy("smtp")>>
      /\ <<TheCopy("smtp"), TheCopy("resend")>> # <<TheCopy("resend")>>
      /\ <<TheCopy("smtp")>> # <<>> /\ <<TheCopy("resend")>> # <<>>
      /\ <<TheCopy("smtp"), TheCopy("resend")>> # <<>>
  BY <1>2
<1> QED
  BY <1>1, <1>3 DEF IInv, ChainInv, PCs

\* A second copy, and an error while a copy is out, come only from a server
\* that took the message and whose answer was lost (TrySendChain).
THEOREM NoUnexplainedCopy == Spec => []CopiesExplained
<1>1. IInv => CopiesExplained
  <2> SUFFICES ASSUME IInv PROVE CopiesExplained
    OBVIOUS
  <2>1. TheCopy("smtp").via = "smtp" /\ TheCopy("resend").via = "resend"
    BY DEF TheCopy
  <2>2. CASE copies = <<>>
    BY <2>2 DEF CopiesExplained
  <2>3. CASE copies = <<TheCopy("smtp")>>
    BY <2>1, <2>3, CopyCases DEF CopiesExplained
  <2>4. CASE copies = <<TheCopy("resend")>>
    BY <2>1, <2>4, CopyCases DEF CopiesExplained
  <2>5. CASE copies = <<TheCopy("smtp"), TheCopy("resend")>> /\ "smtp" \in lost
    BY <2>1, <2>5, CopyCases DEF CopiesExplained
  <2> QED
    BY <2>2, <2>3, <2>4, <2>5, CopyCases
<1> QED
  BY <1>1, Inductive, PTL

-----------------------------------------------------------------------------
\* The form of a copy, as the caller's promise knows it.
LEMMA FormOf ==
  ASSUME TypeInv
  PROVE  /\ Form(TheCopy("smtp")) = O!Copy("smtp", sign, encrypt)
         /\ Form(TheCopy("resend")) = O!Copy("resend", FALSE, FALSE)
<1>1. sign \in BOOLEAN /\ encrypt \in BOOLEAN
  BY DEF TypeInv
<1> DEFINE a(v) == v = "smtp" /\ sign
           b(v) == v = "smtp" /\ encrypt
<1>2. a("smtp") = sign /\ b("smtp") = encrypt /\ a("resend") = FALSE /\ b("resend") = FALSE
  BY <1>1
<1>3. \A v \in {"smtp", "resend"} :
        TheCopy(v).via = v /\ TheCopy(v).sign = a(v) /\ TheCopy(v).encrypt = b(v)
  BY DEF TheCopy
<1> HIDE DEF a, b
<1>4. /\ TheCopy("smtp").via = "smtp" /\ TheCopy("smtp").sign = sign
      /\ TheCopy("smtp").encrypt = encrypt
      /\ TheCopy("resend").via = "resend" /\ TheCopy("resend").sign = FALSE
      /\ TheCopy("resend").encrypt = FALSE
  BY <1>2, <1>3
<1> QED
  BY <1>4 DEF Form, O!Copy

Forms(c) == [i \in DOMAIN c |-> Form(c[i])]

\* The abstract copies for each value of the detailed ones.
LEMMA FormsOf ==
  ASSUME TypeInv
  PROVE  /\ Forms(<<>>) = <<>>
         /\ Forms(<<TheCopy("smtp")>>) = <<O!Copy("smtp", sign, encrypt)>>
         /\ Forms(<<TheCopy("resend")>>) = <<O!Copy("resend", FALSE, FALSE)>>
         /\ Forms(<<TheCopy("smtp"), TheCopy("resend")>>) =
              <<O!Copy("smtp", sign, encrypt), O!Copy("resend", FALSE, FALSE)>>
<1> DEFINE x == TheCopy("smtp")
           y == TheCopy("resend")
           fx == O!Copy("smtp", sign, encrypt)
           fy == O!Copy("resend", FALSE, FALSE)
<1>1. Form(x) = fx /\ Form(y) = fy
  BY FormOf
<1> HIDE DEF x, y, fx, fy
<1>2. Forms(<<>>) = <<>>
  BY DEF Forms
<1>3. Forms(<<x>>) = <<fx>>
  BY <1>1 DEF Forms
<1>4. Forms(<<y>>) = <<fy>>
  BY <1>1 DEF Forms
<1>5. Forms(<<x, y>>) = <<fx, fy>>
  BY <1>1 DEF Forms
<1> QED
  BY <1>2, <1>3, <1>4, <1>5 DEF x, y, fx, fy

\* Every step of the handlers and the chain is a step of the promise or none.
LEMMA StepRefines == IInv /\ IInv' /\ [Next]_vars => [O!Next]_(O!vars)
<1> SUFFICES ASSUME IInv, IInv', [Next]_vars PROVE [O!Next]_(O!vars)
  OBVIOUS
<1> DEFINE cs == [i \in DOMAIN copies |-> Form(copies[i])]
<1>0. cs = Forms(copies) /\ cs' = Forms(copies')
  BY DEF Forms
<1>1. TypeInv /\ ChainInv /\ encrypt' \in BOOLEAN
  BY DEF IInv, TypeInv
<1>2. ASSUME UNCHANGED <<sign, encrypt, copies, answer>> PROVE UNCHANGED O!vars
  BY <1>2 DEF O!vars
<1>3. ASSUME answer = "pending", answer' = "error", UNCHANGED <<sign, encrypt, copies>>
      PROVE  O!Next
  BY <1>3 DEF O!Next, O!GiveUp
<1>4. CASE Fail /\ pc # "done"
  BY <1>1, <1>3, <1>4 DEF Fail, TypeInv
<1>5. CASE EncryptKeys
  <2>1. answer = "pending" /\ copies = <<>> /\ UNCHANGED <<sign, copies, answer>>
    BY <1>1, <1>5 DEF EncryptKeys, At, HandlerOnly, TypeInv, ChainInv
  <2>2. cs = <<>> /\ cs' = cs
    BY <1>0, <1>1, <2>1, FormsOf
  <2> QED
    BY <1>1, <2>1, <2>2 DEF O!Next, O!Decide
<1>6. CASE (Context \/ Resolve \/ FetchThread \/ Gate \/ Attach \/ Chain \/ Probe \/ Compose) /\ ~ Fail
  <2>1. UNCHANGED <<sign, encrypt, copies, answer>>
    BY <1>6 DEF Context, Resolve, FetchThread, Gate, Attach, Chain, Probe, Compose,
                HandlerOnly, Goto, ChainOnly
  <2> QED
    BY <1>2, <2>1
<1>7. CASE EditBook \/ Terminated \/ UNCHANGED vars
  <2>1. UNCHANGED <<sign, encrypt, copies, answer>>
    BY <1>7 DEF EditBook, Terminated, vars
  <2> QED
    BY <1>2, <2>1
<1>8. CASE ReadPassword \/ SMTPSend
  <2>1. /\ pc = "smtp" /\ answer = "pending" /\ UNCHANGED <<sign, encrypt, copies>>
    BY <1>1, <1>8 DEF ReadPassword, SMTPSend, ChainOnly, TypeInv
  <2>2. CASE answer' = "error"
    BY <1>3, <2>1, <2>2
  <2>3. CASE answer' = answer
    BY <1>2, <2>1, <2>3
  <2>4. CASE SMTPSend /\ Exchanges[next] = "quit" /\ Delivered
    <3>1. next = Quit /\ answer' = "smtp"
      BY <1>1, <2>1, <2>4, ExchangeAt DEF ChainInv, Delivered
    <3>2. copies = <<TheCopy("smtp")>>
      BY <1>1, <2>1, <3>1, ExchangeAt DEF ChainInv, Quit
    <3>3. cs = <<O!Copy("smtp", sign, encrypt)>>
      BY <1>0, <1>1, <3>2, FormsOf
    <3>4. 1 \in DOMAIN cs /\ cs[1].via = "smtp"
      BY <3>3 DEF O!Copy
    <3>5. cs' = cs
      BY <1>0, <2>1
    <3> HIDE DEF cs
    <3>6. O!Succeed("smtp")
      BY <2>1, <3>1, <3>4, <3>5 DEF O!Succeed, cs
    <3> QED
      BY <3>6 DEF O!Next
  <2> QED
    BY <1>8, <2>2, <2>3, <2>4 DEF ReadPassword, SMTPSend, SMTPFailed
<1>9. CASE ServerTakes
  <2>1. /\ pc = "smtp" /\ answer = "pending" /\ UNCHANGED <<sign, encrypt, answer>>
        /\ copies' \in {copies, Append(copies, TheCopy("smtp"))}
        /\ Exchanges[next] = "dot"
    BY <1>1, <1>9 DEF ServerTakes, ChainOnly, TypeInv
  <2>2. copies = <<>> /\ (encrypt => sign)
    BY <1>1, <2>1, ExchangeAt DEF ChainInv
  <2>3. CASE copies' = copies
    BY <1>2, <2>1, <2>3
  <2>4. CASE copies' = <<TheCopy("smtp")>>
    <3>1. cs = <<>> /\ cs' = <<O!Copy("smtp", sign, encrypt)>>
      BY <1>0, <1>1, <2>2, <2>4, FormsOf
    <3> QED
      BY <2>1, <2>2, <3>1 DEF O!Next, O!AcceptSMTP
  <2> QED
    BY <2>1, <2>2, <2>3, <2>4, Appending
<1>10. CASE Resend /\ ~ (Fail /\ pc # "done")
  <2>1. /\ pc = "resend" /\ answer = "pending" /\ ~ sign /\ ~ encrypt
        /\ copies' = Append(copies, TheCopy("resend")) /\ UNCHANGED <<sign, encrypt, answer>>
    BY <1>1, <1>10 DEF Resend, ChainOnly, TypeInv, ChainInv
  <2>2. copies = <<>> \/ copies = <<TheCopy("smtp")>>
    BY <1>1, <2>1 DEF ChainInv
  <2>3. /\ \A i \in DOMAIN cs : cs[i].via # "resend"
        /\ cs' = Append(cs, O!Copy("resend", FALSE, FALSE))
    <3>1. CASE copies = <<>>
      <4>1. cs = <<>> /\ cs' = <<O!Copy("resend", FALSE, FALSE)>>
        BY <1>0, <1>1, <2>1, <3>1, FormsOf, Appending
      <4>2. Append(<<>>, O!Copy("resend", FALSE, FALSE)) = <<O!Copy("resend", FALSE, FALSE)>>
        BY Appending
      <4>3. \A i \in DOMAIN cs : cs[i].via # "resend"
        BY <4>1, Elements
      <4> QED
        BY <4>1, <4>2, <4>3
    <3>2. CASE copies = <<TheCopy("smtp")>>
      <4>1. /\ cs = <<O!Copy("smtp", sign, encrypt)>>
            /\ cs' = <<O!Copy("smtp", sign, encrypt), O!Copy("resend", FALSE, FALSE)>>
        <5>1. copies' = <<TheCopy("smtp"), TheCopy("resend")>>
          BY <2>1, <3>2, Appending
        <5> QED
          BY <1>0, <1>1, <3>2, <5>1, FormsOf
      <4>2. O!Copy("smtp", sign, encrypt).via = "smtp"
        BY DEF O!Copy
      <4>3. Append(<<O!Copy("smtp", sign, encrypt)>>, O!Copy("resend", FALSE, FALSE)) =
              <<O!Copy("smtp", sign, encrypt), O!Copy("resend", FALSE, FALSE)>>
        BY Appending
      <4>4. \A i \in DOMAIN cs : cs[i].via # "resend"
        BY <4>1, <4>2, Elements
      <4> QED
        BY <4>1, <4>3, <4>4
    <3> QED
      BY <2>2, <3>1, <3>2
  <2>4. O!AcceptResend
    BY <2>1, <2>3 DEF O!AcceptResend
  <2> QED
    BY <2>4 DEF O!Next
<1>11. CASE Response
  <2>1. pc = "response" /\ answer = "pending" /\ UNCHANGED <<sign, encrypt, copies>>
    BY <1>1, <1>11 DEF Response, ChainOnly, TypeInv
  <2>2. CASE answer' = "error"
    BY <1>3, <2>1, <2>2
  <2>3. CASE answer' = "resend"
    <3>1. \E i \in DOMAIN cs : cs[i].via = "resend"
      <4>1. O!Copy("resend", FALSE, FALSE).via = "resend"
        BY DEF O!Copy
      <4>2. \/ cs = <<O!Copy("resend", FALSE, FALSE)>>
            \/ cs = <<O!Copy("smtp", sign, encrypt), O!Copy("resend", FALSE, FALSE)>>
        BY <1>0, <1>1, <2>1, FormsOf DEF ChainInv
      <4> HIDE DEF cs
      <4>3. CASE cs = <<O!Copy("resend", FALSE, FALSE)>>
        <5>1. 1 \in DOMAIN cs /\ cs[1].via = "resend"
          BY <4>1, <4>3, Elements
        <5> QED
          BY <5>1
      <4>4. CASE cs = <<O!Copy("smtp", sign, encrypt), O!Copy("resend", FALSE, FALSE)>>
        <5>1. 2 \in DOMAIN cs /\ cs[2].via = "resend"
          BY <4>1, <4>4, Elements
        <5> QED
          BY <5>1
      <4> QED
        BY <4>2, <4>3, <4>4
    <3>2. O!Succeed("resend")
      BY <2>1, <2>3, <3>1 DEF O!Succeed
    <3> QED
      BY <3>2 DEF O!Next
  <2> QED
    BY <1>11, <2>2, <2>3 DEF Response
<1>12. CASE Context \/ Resolve \/ FetchThread \/ Gate \/ Attach \/ Chain \/ Probe \/ Compose \/ Resend
  <2>1. pc # "done"
    BY <1>12 DEF Context, Resolve, FetchThread, Gate, Attach, Chain, Probe, Compose, Resend, At
  <2> QED
    BY <1>4, <1>6, <1>10, <1>12, <2>1
<1> QED
  BY <1>5, <1>7, <1>8, <1>9, <1>11, <1>12 DEF Next

\* The send path keeps what a caller of it is promised: a signed message never
\* leaves unsigned nor an encrypted one in the clear, and success is reported
\* only for a copy that was taken (TrySendChain).
THEOREM KeepsThePromise == Spec => ImplementsOutbox
<1>1. Init => O!Init
  <2> SUFFICES ASSUME Init PROVE O!Init
    OBVIOUS
  <2>1. [i \in DOMAIN copies |-> Form(copies[i])] = <<>>
    BY DEF Init
  <2> QED
    BY <2>1 DEF Init, O!Init
<1> QED
  BY <1>1, Inductive, StepRefines, PTL DEF Spec, ImplementsOutbox, O!Spec

-----------------------------------------------------------------------------
\* A nonempty set of naturals has a least element.
LEMMA LeastNatural ==
  ASSUME NEW T \in SUBSET Nat, T # {}
  PROVE  \E x \in T : \A y \in T : x <= y
<1>1. IsWellFoundedOn(OpToRel(<, Nat), Nat)
  BY NatLessThanWellFounded
<1>2. PICK x \in T : \A y \in T : ~ (<<y, x>> \in OpToRel(<, Nat))
  BY <1>1, WFMin
<1>3. \A y \in T : ~ (y < x)
  BY <1>2 DEF OpToRel
<1> QED
  BY <1>3

\* Induction, on a set instead of a predicate.
LEMMA Induction ==
  ASSUME NEW T \in SUBSET Nat, 0 \in T, \A n \in T : n + 1 \in T
  PROVE  T = Nat
<1> SUFFICES ASSUME Nat \ T # {} PROVE FALSE
  OBVIOUS
<1>1. PICK x \in Nat \ T : \A y \in Nat \ T : x <= y
  BY LeastNatural
<1>2. x - 1 \in Nat
  BY <1>1
<1>3. x - 1 \in T
  BY <1>1, <1>2
<1> QED
  BY <1>1, <1>2, <1>3

\* Contact i is a pattern that matches address a; the loop body on it.
Fits(b, a, i) == b[i].email \in Patterns /\ a \in Matches[b[i].email]
Better(b, f, i) == f[i - 1] = 0 \/ Width[b[i].email] > Width[b[f[i - 1]].email]
LoopTo(f, b, a, m) ==
    f = [i \in 0..m |-> IF i = 0 THEN 0
                        ELSE IF Fits(b, a, i) /\ Better(b, f, i) THEN i ELSE f[i - 1]]

\* The loop of FindByAddress runs to its end.
LEMMA LoopRuns ==
  ASSUME NEW b, NEW a, Len(b) \in Nat
  PROVE  LoopTo(BestPattern(b, a), b, a, Len(b))
<1> DEFINE T == {m \in Nat : \E f : LoopTo(f, b, a, m)}
<1>1. 0 \in T
  <2>1. LoopTo([i \in 0..0 |-> 0], b, a, 0)
    BY DEF LoopTo
  <2> QED
    BY <2>1
<1>2. ASSUME NEW m \in T PROVE m + 1 \in T
  <2>1. m \in Nat /\ m + 1 \in Nat /\ m + 1 - 1 = m
    OBVIOUS
  <2>2. PICK f : LoopTo(f, b, a, m)
    BY <1>2
  <2> DEFINE last == IF Fits(b, a, m + 1) /\ Better(b, f, m + 1) THEN m + 1 ELSE f[m]
             g == [i \in 0..(m + 1) |-> IF i = m + 1 THEN last ELSE f[i]]
  <2>3. \A i \in 0..m : g[i] = f[i]
    BY <2>1
  <2>4. g[m + 1] = last
    BY <2>1
  <2>5. g = [i \in 0..(m + 1) |-> g[i]]
    OBVIOUS
  <2>6. ASSUME NEW i \in 0..(m + 1)
        PROVE  g[i] = IF i = 0 THEN 0
                      ELSE IF Fits(b, a, i) /\ Better(b, g, i) THEN i ELSE g[i - 1]
    <3>1. CASE i = 0
      BY <2>1, <2>2, <2>3, <3>1 DEF LoopTo
    <3>2. CASE i \in 1..m
      <4>1. i \in 0..m /\ i - 1 \in 0..m /\ i # 0
        BY <2>1, <3>2
      <4>2. g[i] = f[i] /\ g[i - 1] = f[i - 1]
        BY <2>3, <4>1
      <4>3. f[i] = IF Fits(b, a, i) /\ Better(b, f, i) THEN i ELSE f[i - 1]
        BY <2>2, <4>1 DEF LoopTo
      <4>4. Better(b, g, i) <=> Better(b, f, i)
        BY <4>2 DEF Better
      <4> HIDE DEF g
      <4> QED
        BY <4>1, <4>2, <4>3, <4>4
    <3>3. CASE i = m + 1
      <4>1. g[i] = last /\ g[i - 1] = f[m] /\ i # 0
        BY <2>1, <2>3, <2>4, <3>3
      <4> HIDE DEF g, last
      <4>2. Better(b, g, i) <=> Better(b, f, m + 1)
        <5>1. i - 1 = m /\ i = m + 1 /\ g[i - 1] = f[m] /\ (m + 1) - 1 = m
          BY <2>1, <3>3, <4>1
        <5> QED
          BY <5>1 DEF Better
      <4> USE DEF last
      <4> QED
        BY <3>3, <4>1, <4>2
    <3> QED
      BY <2>1, <3>1, <3>2, <3>3
  <2> HIDE DEF g
  <2>7. LoopTo(g, b, a, m + 1)
    BY <2>5, <2>6 DEF LoopTo
  <2> QED
    BY <2>1, <2>7
<1>3. Len(b) \in T
  <2> HIDE DEF T
  <2>1. T \in SUBSET Nat
    BY DEF T
  <2> QED
    BY <1>1, <1>2, <2>1, Induction
<1>4. BestPattern(b, a) = CHOOSE f : LoopTo(f, b, a, Len(b))
  BY DEF BestPattern, LoopTo, Fits, Better, IsPattern
<1> QED
  BY <1>3, <1>4

\* What the loop knows after i contacts: the longest matching pattern among
\* them, the earliest of equals.
Leads(b, a, i, k) ==
    /\ k = 0 => \A j \in 1..i : ~ Fits(b, a, j)
    /\ k # 0 =>
         /\ k \in 1..i /\ Fits(b, a, k)
         /\ \A j \in 1..i : Fits(b, a, j) =>
              /\ Width[b[k].email] >= Width[b[j].email]
              /\ Width[b[k].email] = Width[b[j].email] => k <= j

LEMMA LoopFinds ==
  ASSUME NEW b, NEW a, Len(b) \in Nat
  PROVE  Leads(b, a, Len(b), BestPattern(b, a)[Len(b)])
<1> DEFINE f == BestPattern(b, a)
           n == Len(b)
           T == {m \in Nat : m <= n => Leads(b, a, m, f[m])}
<1>1. LoopTo(f, b, a, n)
  BY LoopRuns
<1>2. f[0] = 0 /\ \A i \in 1..n : f[i] = IF Fits(b, a, i) /\ Better(b, f, i) THEN i ELSE f[i - 1]
  BY <1>1 DEF LoopTo
<1> HIDE DEF f
<1>3. 0 \in T
  BY <1>2 DEF Leads
<1>4. ASSUME NEW m \in T PROVE m + 1 \in T
  <2>1. m \in Nat /\ m + 1 \in Nat
    OBVIOUS
  <2> SUFFICES ASSUME m + 1 <= n PROVE Leads(b, a, m + 1, f[m + 1])
    BY <2>1
  <2> DEFINE i == m + 1
             w(j) == Width[b[j].email]
  <2>2. Leads(b, a, m, f[m]) /\ i \in 1..n /\ i - 1 = m /\ i # 0
    BY <2>1
  <2>3. f[i] = IF Fits(b, a, i) /\ Better(b, f, i) THEN i ELSE f[m]
    BY <1>2, <2>2
  <2>4. \A j \in 1..i : j \in 1..m \/ j = i
    BY <2>1
  <2>5. \A j : Fits(b, a, j) => w(j) \in Nat
    BY ContactsAssumption DEF Fits
  <2>6. CASE ~ Fits(b, a, i)
    <3>1. f[i] = f[m]
      BY <2>3, <2>6
    <3> QED
      BY <2>1, <2>2, <2>4, <2>6, <3>1 DEF Leads
  <2>7. CASE Fits(b, a, i) /\ f[m] = 0
    <3>1. f[i] = i
      BY <2>2, <2>3, <2>7 DEF Better
    <3> QED
      BY <2>1, <2>2, <2>4, <2>5, <2>7, <3>1 DEF Leads
  <2>8. CASE Fits(b, a, i) /\ f[m] # 0
    <3>1. /\ f[m] \in 1..m /\ Fits(b, a, f[m])
          /\ \A j \in 1..m : Fits(b, a, j) =>
               w(f[m]) >= w(j) /\ (w(f[m]) = w(j) => f[m] <= j)
      BY <2>2, <2>8 DEF Leads
    <3>2. w(f[m]) \in Nat /\ w(i) \in Nat
      BY <2>5, <2>8, <3>1
    <3>3. f[i] = IF w(i) > w(f[m]) THEN i ELSE f[m]
      BY <2>2, <2>3, <2>8 DEF Better
    <3>4. CASE w(i) > w(f[m])
      <4>1. f[i] = i
        BY <3>3, <3>4
      <4>2. \A j \in 1..m : Fits(b, a, j) => w(i) > w(j)
        BY <2>5, <3>1, <3>2, <3>4, SMTT(30)
      <4> HIDE DEF w
      <4>3. \A j \in 1..i : Fits(b, a, j) => w(i) >= w(j) /\ (w(i) = w(j) => i <= j)
        BY <2>1, <2>4, <2>5, <3>2, <4>2
      <4> QED
        BY <2>2, <2>8, <4>1, <4>3 DEF Leads, w
    <3>5. CASE ~ (w(i) > w(f[m]))
      <4>1. f[i] = f[m]
        BY <3>3, <3>5
      <4> HIDE DEF w
      <4>2. \A j \in 1..i : Fits(b, a, j) => w(f[m]) >= w(j) /\ (w(f[m]) = w(j) => f[m] <= j)
        BY <2>1, <2>4, <3>1, <3>2, <3>5
      <4>3. f[m] \in 1..i
        BY <2>1, <3>1
      <4> QED
        BY <2>8, <3>1, <4>1, <4>2, <4>3 DEF Leads, w
    <3> QED
      BY <3>4, <3>5
  <2> QED
    BY <2>6, <2>7, <2>8
<1>5. n \in T
  <2> HIDE DEF T
  <2>1. T \in SUBSET Nat
    BY DEF T
  <2>2. T = Nat
    BY <1>3, <1>4, <2>1, Induction
  <2> QED
    BY <2>2
<1> QED
  BY <1>5 DEF f

\* FindByAddress returns the contact the documented precedence selects.
LEMMA FoundIsSelected ==
  ASSUME NEW b, NEW a, b \in Seq(Range(b)), FindByAddress(b, a) # <<>>
  PROVE  \E c \in Selected(b, a) : FindByAddress(b, a) = <<c>>
<1> DEFINE n == Len(b)
           exact == {i \in DOMAIN b : b[i].email = a /\ a \notin Patterns}
           glob == {i \in DOMAIN b : b[i].email \in Patterns /\ a \in Matches[b[i].email]}
           best == {i \in glob : \A j \in glob : Width[b[i].email] >= Width[b[j].email]}
           first(pool) == {j \in pool : \A m \in pool : j <= m}
           g == BestPattern(b, a)[n]
<1>1. n \in Nat /\ DOMAIN b = 1..n
  OBVIOUS
<1>2. {i \in DOMAIN b : ~IsPattern(b[i]) /\ b[i].email = a} = exact
  BY DEF IsPattern
<1>3. FindByAddress(b, a) =
        IF exact # {} THEN <<b[CHOOSE i \in exact : \A j \in exact : i <= j]>>
        ELSE IF g = 0 THEN <<>> ELSE <<b[g]>>
  <2> DEFINE plain == {i \in DOMAIN b : ~IsPattern(b[i]) /\ b[i].email = a}
             pick(S) == CHOOSE i \in S : \A j \in S : i <= j
  <2>1. FindByAddress(b, a) = IF plain # {} THEN <<b[pick(plain)]>>
                              ELSE IF g = 0 THEN <<>> ELSE <<b[g]>>
    BY DEF FindByAddress
  <2>2. plain = exact
    BY <1>2
  <2> HIDE DEF plain, pick, exact, g
  <2>3. FindByAddress(b, a) = IF exact # {} THEN <<b[pick(exact)]>>
                              ELSE IF g = 0 THEN <<>> ELSE <<b[g]>>
    BY <2>1, <2>2
  <2> QED
    BY <2>3 DEF pick
<1>4. Selected(b, a) = {b[i] : i \in first(IF exact # {} THEN exact ELSE best)}
  BY DEF Selected
<1>5. CASE exact # {}
  <2>1. exact \in SUBSET Nat
    BY <1>1
  <2>2. \E i \in exact : \A j \in exact : i <= j
    BY <1>5, <2>1, LeastNatural
  <2> DEFINE k == CHOOSE i \in exact : \A j \in exact : i <= j
  <2>3. k \in first(exact)
    BY <2>2
  <2> HIDE DEF exact, k
  <2>4. b[k] \in Selected(b, a)
    BY <1>4, <1>5, <2>3
  <2>5. FindByAddress(b, a) = <<b[k]>>
    BY <1>3, <1>5 DEF k
  <2> QED
    BY <2>4, <2>5
<1>6. CASE exact = {}
  <2>1. g # 0 /\ FindByAddress(b, a) = <<b[g]>>
    BY <1>3, <1>6
  <2>2. Leads(b, a, n, g)
    BY <1>1, LoopFinds
  <2> HIDE DEF g
  <2>3. /\ g \in glob
        /\ \A j \in glob : /\ Width[b[g].email] >= Width[b[j].email]
                           /\ Width[b[g].email] = Width[b[j].email] => g <= j
    BY <1>1, <2>1, <2>2 DEF Leads, Fits
  <2>4. \A j \in glob : Width[b[j].email] \in Nat
    BY ContactsAssumption
  <2>5. g \in best /\ \A j \in best : g <= j
    BY <2>3, <2>4
  <2> HIDE DEF exact, best
  <2>6. b[g] \in Selected(b, a)
    BY <1>4, <1>6, <2>5
  <2> QED
    BY <2>1, <2>6
<1> QED
  BY <1>5, <1>6

\* A permission text that lets the identity write.
LEMMA WriteText ==
  ASSUME NEW t \in Seq(STRING), WellFormed(t), "w" \in ParsePermission(t)
  PROVE  t \in {"r", "R", "-"} \X {"w", "W"} \X {"x", "X", "-"}
<1>1. Len(t) = 3 /\ \A i \in 1..3 : Lower(t[i]) \in {Letters[i], "-"}
  BY DEF WellFormed
<1>2. Letters[1] = "r" /\ Letters[2] = "w" /\ Letters[3] = "x"
  BY DEF Letters
<1>3. \A i \in 1..3 : i = 1 \/ i = 2 \/ i = 3
  OBVIOUS
<1>4. Lower(t[2]) # "-"
  BY <1>2, <1>3 DEF ParsePermission
<1>5. Lower(t[1]) \in {"r", "-"} /\ Lower(t[2]) = "w" /\ Lower(t[3]) \in {"x", "-"}
  <2>1. 1 \in 1..3 /\ 2 \in 1..3 /\ 3 \in 1..3
    OBVIOUS
  <2> QED
    BY <1>1, <1>2, <1>4, <2>1
<1>6. t[1] \in {"r", "R", "-"} /\ t[2] \in {"w", "W"} /\ t[3] \in {"x", "X", "-"}
  BY <1>5 DEF Lower
<1>7. t = <<t[1], t[2], t[3]>>
  <2>1. DOMAIN t = 1..3 /\ t = [i \in 1..3 |-> t[i]]
    BY <1>1
  <2> DEFINE u == <<t[1], t[2], t[3]>>
  <2>2. DOMAIN u = 1..3 /\ u = [i \in 1..3 |-> u[i]] /\ u[1] = t[1] /\ u[2] = t[2] /\ u[3] = t[3]
    OBVIOUS
  <2> HIDE DEF u
  <2>3. t = u
    BY <1>3, <2>1, <2>2
  <2> QED
    BY <2>3 DEF u
<1> QED
  BY <1>6, <1>7

\* Nobody gets mail from a tool who could not be written to under one version
\* of the contacts file that was in force during the call, for any contacts
\* and any edits (enforceWritePermission, FindByAddress).
THEOREM OnlyWritableRecipients == Spec => []RecipientsWritable
<1>1. IInv => RecipientsWritable
  <2> SUFFICES ASSUME IInv, IsTool, NEW i \in DOMAIN copies
               PROVE  \E b \in books : \A a \in copies[i].rcpts : \E c \in Selected(b, a) :
                        /\ Me \in DOMAIN c.perms
                        /\ c.perms[Me] \in {"r", "R", "-"} \X {"w", "W"} \X {"x", "X", "-"}
    BY DEF RecipientsWritable
  <2>1. copies # <<>>
    OBVIOUS
  <2>2. PastGate /\ store \in books /\ enforceWritePermission(store, Me, Recipients) = {}
    BY <2>1 DEF IInv, GateInv, PastGate, TypeInv
  <2>3. copies[i].rcpts = Range(Recipients)
    <3>1. \A v : TheCopy(v).rcpts = Range(Recipients)
      BY DEF TheCopy
    <3>2. copies[i] = TheCopy("smtp") \/ copies[i] = TheCopy("resend")
      BY CopyCases, Elements
    <3> QED
      BY <3>1, <3>2
  <2>4. store \in Books
    BY <2>2 DEF IInv, GateInv
  <2>5. ASSUME NEW a \in Range(Recipients)
        PROVE  \E c \in Selected(store, a) :
                 /\ Me \in DOMAIN c.perms
                 /\ c.perms[Me] \in {"r", "R", "-"} \X {"w", "W"} \X {"x", "X", "-"}
    <3>1. "w" \in RightsOf(store, a, Me)
      BY <2>2 DEF enforceWritePermission
    <3>2. FindByAddress(store, a) # <<>> /\ "w" \in CheckPermission(FindByAddress(store, a)[1], Me)
      BY <3>1 DEF RightsOf
    <3>3. store \in Seq(Range(store))
      BY <2>4, SendAssumption
    <3>4. PICK c \in Selected(store, a) : FindByAddress(store, a) = <<c>>
      BY <3>2, <3>3, FoundIsSelected
    <3>5. "w" \in CheckPermission(c, Me)
      BY <3>2, <3>4
    <3>6. /\ Me \in DOMAIN c.perms /\ WellFormed(c.perms[Me])
          /\ "w" \in ParsePermission(c.perms[Me])
      BY <3>5 DEF CheckPermission
    <3>7. \E j \in DOMAIN store : c = store[j]
      BY DEF Selected
    <3>8. c.perms[Me] \in Seq(STRING)
      BY <2>4, <3>6, <3>7, SendAssumption
    <3> QED
      BY <3>6, <3>8, WriteText
  <2> QED
    BY <2>2, <2>3, <2>5
<1> QED
  BY <1>1, Inductive, PTL

-----------------------------------------------------------------------------
\* The words of a subject.
Words == STRING \cup OwnTags \cup {"re"}

\* Sequences with the same elements are the same.
LEMMA SameElements ==
  ASSUME NEW W, NEW s \in Seq(W), NEW t \in Seq(W), Len(s) = Len(t),
         \A j \in 1..Len(s) : s[j] = t[j]
  PROVE  s = t
<1>1. s = [j \in 1..Len(s) |-> s[j]] /\ t = [j \in 1..Len(t) |-> t[j]]
  OBVIOUS
<1> QED
  BY <1>1

LEMMA WiderSeq ==
  ASSUME NEW A, NEW B, A \subseteq B, NEW s \in Seq(A)
  PROVE  s \in Seq(B)
<1>1. s \in [1..Len(s) -> A] /\ Len(s) \in Nat
  OBVIOUS
<1>2. s \in [1..Len(s) -> B]
  BY <1>1
<1> QED
  BY <1>1, <1>2

LEMMA HeadIsFirst ==
  ASSUME NEW W, NEW s \in Seq(W), Len(s) > 0
  PROVE  s # <<>> /\ Head(s) = s[1]
<1>1. s # <<>>
  OBVIOUS
<1> QED
  BY <1>1

\* A sequence in two parts.
LEMMA Parts ==
  ASSUME NEW W, NEW s \in Seq(W), NEW n \in 0..Len(s)
  PROVE  /\ SubSeq(s, 1, n) \in Seq(W) /\ Len(SubSeq(s, 1, n)) = n
         /\ \A j \in 1..n : SubSeq(s, 1, n)[j] = s[j]
         /\ SubSeq(s, n + 1, Len(s)) \in Seq(W)
         /\ Len(SubSeq(s, n + 1, Len(s))) = Len(s) - n
         /\ \A j \in 1..(Len(s) - n) : SubSeq(s, n + 1, Len(s))[j] = s[n + j]
<1>1. n \in Nat /\ Len(s) \in Nat /\ n <= Len(s)
  OBVIOUS
<1>2. SubSeq(s, 1, n) \in Seq(W) /\ Len(SubSeq(s, 1, n)) = n /\ \A j \in 1..n : SubSeq(s, 1, n)[j] = s[j]
  BY <1>1
<1>3. /\ SubSeq(s, n + 1, Len(s)) \in Seq(W) /\ Len(SubSeq(s, n + 1, Len(s))) = Len(s) - n
      /\ \A j \in 1..(Len(s) - n) : SubSeq(s, n + 1, Len(s))[j] = s[n + j]
  BY <1>1
<1> QED
  BY <1>2, <1>3

\* A word put in behind the first n.
PutIn(s, n, x) == SubSeq(s, 1, n) \o <<x>> \o SubSeq(s, n + 1, Len(s))

LEMMA PuttingIn ==
  ASSUME NEW s \in Seq(Words), NEW n \in 0..Len(s), NEW x \in Words
  PROVE  /\ PutIn(s, n, x) \in Seq(Words) /\ Len(PutIn(s, n, x)) = Len(s) + 1
         /\ \A j \in 1..n : PutIn(s, n, x)[j] = s[j]
         /\ PutIn(s, n, x)[n + 1] = x
         /\ \A j \in (n + 2)..(Len(s) + 1) : PutIn(s, n, x)[j] = s[j - 1]
<1> DEFINE a == SubSeq(s, 1, n)
           b == SubSeq(s, n + 1, Len(s))
           m == a \o <<x>>
<1>1. n \in Nat /\ Len(s) \in Nat /\ n <= Len(s)
  OBVIOUS
<1>2. a \in Seq(Words) /\ Len(a) = n /\ \A j \in 1..n : a[j] = s[j]
  BY <1>1
<1>3. b \in Seq(Words) /\ Len(b) = Len(s) - n /\ \A j \in 1..(Len(s) - n) : b[j] = s[n + j]
  BY <1>1
<1> HIDE DEF a, b
<1>4. m \in Seq(Words) /\ Len(m) = n + 1 /\ m[n + 1] = x /\ \A j \in 1..n : m[j] = a[j]
  BY <1>1, <1>2
<1> HIDE DEF m
<1>5. /\ m \o b \in Seq(Words) /\ Len(m \o b) = Len(s) + 1
      /\ \A j \in 1..(n + 1) : (m \o b)[j] = m[j]
      /\ \A j \in (n + 2)..(Len(s) + 1) : (m \o b)[j] = b[j - (n + 1)]
  BY <1>1, <1>3, <1>4
<1>6. PutIn(s, n, x) = m \o b
  BY DEF PutIn, a, b, m
<1>7. ASSUME NEW j \in (n + 2)..(Len(s) + 1) PROVE (m \o b)[j] = s[j - 1]
  <2>1. j - (n + 1) \in 1..(Len(s) - n) /\ n + (j - (n + 1)) = j - 1
    BY <1>1
  <2>2. b[j - (n + 1)] = s[n + (j - (n + 1))]
    BY <1>3, <2>1
  <2> QED
    BY <1>5, <2>1, <2>2
<1>8. \A j \in 1..n : (m \o b)[j] = s[j]
  BY <1>1, <1>2, <1>4, <1>5
<1>9. (m \o b)[n + 1] = x
  BY <1>1, <1>4, <1>5
<1> QED
  BY <1>5, <1>6, <1>7, <1>8, <1>9

\* The markers in front of a subject.
LEMMA LeadingMarkers ==
  ASSUME NEW W, NEW s \in Seq(W)
  PROVE  /\ Leading(s) \in 0..Len(s)
         /\ \A j \in 1..Leading(s) : s[j] \in Markers
         /\ Leading(s) < Len(s) => s[Leading(s) + 1] \notin Markers
<1> DEFINE stops == {j \in DOMAIN s : s[j] \notin Markers}
           k == CHOOSE j \in stops : \A l \in stops : j <= l
<1>1. Len(s) \in Nat /\ DOMAIN s = 1..Len(s)
  OBVIOUS
<1>2. CASE stops = {}
  <2>1. Leading(s) = Len(s)
    BY <1>2 DEF Leading
  <2> QED
    BY <1>1, <1>2, <2>1
<1>3. CASE stops # {}
  <2>1. stops \in SUBSET Nat
    BY <1>1
  <2>2. \E j \in stops : \A l \in stops : j <= l
    BY <1>3, <2>1, LeastNatural
  <2>3. k \in stops /\ \A l \in stops : k <= l
    BY <2>2
  <2>4. Leading(s) = k - 1
    BY <1>3 DEF Leading
  <2> HIDE DEF k
  <2>5. k \in 1..Len(s) /\ k - 1 \in 0..Len(s) /\ (k - 1) + 1 = k
    BY <1>1, <2>3
  <2>6. \A j \in 1..(k - 1) : s[j] \in Markers
    BY <1>1, <2>3, <2>5
  <2> QED
    BY <2>3, <2>4, <2>5, <2>6
<1> QED
  BY <1>2, <1>3

LEMMA LeadingIs ==
  ASSUME NEW W, NEW s \in Seq(W), NEW n \in 0..Len(s),
         \A j \in 1..n : s[j] \in Markers, n < Len(s) => s[n + 1] \notin Markers
  PROVE  Leading(s) = n
<1> DEFINE m == Leading(s)
<1>1. /\ m \in 0..Len(s) /\ \A j \in 1..m : s[j] \in Markers
      /\ m < Len(s) => s[m + 1] \notin Markers
  BY LeadingMarkers
<1> HIDE DEF m
<1>2. Len(s) \in Nat /\ n \in Nat /\ m \in Nat
  BY <1>1
<1>3. ~ (m < n)
  <2> SUFFICES ASSUME m < n PROVE FALSE
    OBVIOUS
  <2>1. m + 1 \in 1..n /\ m < Len(s)
    BY <1>2
  <2> QED
    BY <1>1, <2>1
<1>4. ~ (n < m)
  <2> SUFFICES ASSUME n < m PROVE FALSE
    OBVIOUS
  <2>1. n + 1 \in 1..m /\ n < Len(s)
    BY <1>1, <1>2
  <2> QED
    BY <1>1, <2>1
<1> QED
  BY <1>2, <1>3, <1>4 DEF m

\* RepoTag.subject by cases.
LEMMA SubjectCases ==
  ASSUME NEW s \in Seq(Words)
  PROVE  /\ Leading(s) \in 0..Len(s)
         /\ IF Tag = "" \/ (Leading(s) < Len(s) /\ s[Leading(s) + 1] \in OwnTags)
              THEN subject(s) = s ELSE subject(s) = PutIn(s, Leading(s), Tag)
<1> DEFINE n == Leading(s)
           rest == SubSeq(s, n + 1, Len(s))
<1>1. n \in 0..Len(s) /\ Len(s) \in Nat
  BY LeadingMarkers
<1> HIDE DEF n
<1>2. rest \in Seq(Words) /\ Len(rest) = Len(s) - n /\ (n < Len(s) => rest[1] = s[n + 1])
  BY <1>1
<1>3. bracketTagged(rest) <=> n < Len(s) /\ s[n + 1] \in OwnTags
  <2>1. CASE n < Len(s)
    <3> HIDE DEF rest
    <3>1. Len(rest) > 0
      BY <1>1, <1>2, <2>1
    <3>2. rest # <<>>
      BY <3>1
    <3>3. Head(rest) = rest[1]
      BY <1>2, <3>2
    <3> QED
      BY <1>2, <2>1, <3>2, <3>3 DEF bracketTagged
  <2>2. CASE ~ (n < Len(s))
    <3>1. rest = <<>>
      BY <1>1, <1>2, <2>2
    <3> QED
      BY <2>2, <3>1 DEF bracketTagged
  <2> QED
    BY <2>1, <2>2
<1>4. subject(s) = IF Tag = "" \/ bracketTagged(rest) THEN s ELSE PutIn(s, n, Tag)
  BY DEF subject, n, PutIn
<1> QED
  BY <1>1, <1>3, <1>4 DEF n

\* Tagging keeps the markers in front, leaves a tag behind them and changes
\* nothing the second time.
LEMMA TaggedOnce ==
  ASSUME NEW s \in Seq(Words)
  PROVE  /\ subject(s) \in Seq(Words) /\ Leading(subject(s)) = Leading(s)
         /\ Tag # "" => /\ Leading(s) < Len(subject(s))
                        /\ subject(s)[Leading(s) + 1] \in OwnTags
         /\ subject(subject(s)) = subject(s)
<1> DEFINE n == Leading(s)
           t == subject(s)
<1>1. /\ n \in 0..Len(s) /\ Len(s) \in Nat /\ \A j \in 1..n : s[j] \in Markers
  BY LeadingMarkers
<1>2. CASE Tag = "" \/ (n < Len(s) /\ s[n + 1] \in OwnTags)
  <2>1. t = s
    BY <1>2, SubjectCases
  <2> QED
    BY <1>2, <2>1
<1>3. CASE ~ (Tag = "" \/ (n < Len(s) /\ s[n + 1] \in OwnTags))
  <2>1. t = PutIn(s, n, Tag)
    BY <1>3, SubjectCases
  <2>2. Tag \in Words /\ Tag \in OwnTags /\ Tag \notin Markers
    BY <1>3, SendAssumption DEF Words, Markers
  <2> HIDE DEF n, t
  <2> DEFINE u == PutIn(s, n, Tag)
  <2>b. n \in 0..Len(s) /\ Tag \in Words
    BY <1>1, <2>2
  <2>a. /\ u \in Seq(Words) /\ Len(u) = Len(s) + 1 /\ u[n + 1] = Tag
        /\ \A j \in 1..n : u[j] = s[j]
    BY <2>b, PuttingIn
  <2>3. /\ t \in Seq(Words) /\ Len(t) = Len(s) + 1 /\ t[n + 1] = Tag
        /\ \A j \in 1..n : t[j] = s[j]
    BY <2>1, <2>a
  <2>4. n \in 0..Len(t) /\ n < Len(t)
    BY <1>1, <2>3
  <2>5. Leading(t) = n
    BY <1>1, <2>2, <2>3, <2>4, LeadingIs
  <2>6. subject(t) = t
    BY <2>2, <2>3, <2>4, <2>5, SubjectCases
  <2> QED
    BY <2>2, <2>3, <2>4, <2>5, <2>6 DEF n, t
<1> QED
  BY <1>2, <1>3

\* What a copy's subject is made from: "re" comes in front unless it is there.
Source ==
    IF IsReply
      THEN IF orig.subject # <<>> /\ Head(orig.subject) = "re"
             THEN orig.subject ELSE <<"re">> \o orig.subject
      ELSE req.subject

Asked == IF IsReply THEN orig.subject ELSE req.subject

\* What stands in front of the subject asked for.
Opening == IF IsReply /\ ~ (orig.subject # <<>> /\ Head(orig.subject) = "re") THEN <<"re">> ELSE <<>>

LEMMA SourceForm ==
  ASSUME TypeInv, OrigInv
  PROVE  /\ Asked \in Seq(Words) /\ Source \in Seq(Words) /\ Opening \in Seq(Words)
         /\ Source = Opening \o Asked /\ Subject = subject(Source)
         /\ IsReply => Len(Source) > 0 /\ Source[1] = "re"
<1> DEFINE o == orig.subject
           r == req.subject
<1>1. o \in Seq(STRING)
  <2>1. CASE orig \in Originals
    BY <2>1, SendAssumption
  <2>2. CASE orig = NoOriginal
    <3>1. o = <<>>
      BY <2>2 DEF NoOriginal
    <3> HIDE DEF o
    <3> QED
      BY <3>1
  <2> QED
    BY <2>1, <2>2 DEF OrigInv
<1>2. r \in Seq(STRING)
  BY SendAssumption DEF TypeInv
<1>3. \A q \in Seq(STRING) : q \in Seq(Words)
  BY DEF Words
<1>4. o \in Seq(Words) /\ r \in Seq(Words)
  BY <1>1, <1>2, <1>3
<1> HIDE DEF o, r
<1>5. Asked \in Seq(Words)
  BY <1>4 DEF Asked, o, r
<1>6. <<"re">> \in Seq(Words) /\ <<>> \in Seq(Words)
  BY DEF Words
<1>7. Opening \in Seq(Words)
  BY <1>6 DEF Opening
<1>8. \A q \in Seq(Words) : <<>> \o q = q
  <2> SUFFICES ASSUME NEW q \in Seq(Words) PROVE <<>> \o q = q
    OBVIOUS
  <2> DEFINE z == <<>> \o q
  <2>1. z \in Seq(Words) /\ Len(z) = Len(q) /\ \A j \in 1..Len(z) : z[j] = q[j]
    BY <1>6
  <2> HIDE DEF z
  <2>2. z = q
    BY <2>1, SameElements
  <2> QED
    BY <2>2 DEF z
<1>9. Source = Opening \o Asked
  <2>1. CASE Opening = <<>>
    <3>1. Source = Asked
      BY <2>1 DEF Source, Asked, Opening
    <3> QED
      BY <1>5, <1>8, <2>1, <3>1
  <2>2. CASE Opening # <<>>
    BY <2>2 DEF Source, Asked, Opening
  <2> QED
    BY <2>1, <2>2
<1>10. Source \in Seq(Words)
  BY <1>5, <1>7, <1>9
<1>11. Subject = subject(Source)
  <2>1. CASE IsReply
    <3>1. Subject = subject(subject(Source))
      BY <2>1 DEF Subject, ReplySubject, Source
    <3> QED
      BY <1>10, <3>1, TaggedOnce
  <2>2. CASE ~ IsReply
    BY <2>2 DEF Subject, Source
  <2> QED
    BY <2>1, <2>2
<1>12. ASSUME IsReply PROVE Len(Source) > 0 /\ Source[1] = "re"
  <2>1. CASE o # <<>> /\ Head(o) = "re"
    <3>1. Source = o
      BY <1>12, <2>1 DEF Source, o
    <3>2. Len(o) > 0 /\ o[1] = "re"
      BY <1>4, <2>1
    <3> QED
      BY <3>1, <3>2
  <2>2. CASE ~ (o # <<>> /\ Head(o) = "re")
    <3>1. Source = <<"re">> \o o
      BY <1>12, <2>2 DEF Source, o
    <3>2. Len(<<"re">> \o o) > 0 /\ (<<"re">> \o o)[1] = "re"
      BY <1>4, <1>6
    <3> QED
      BY <3>1, <3>2
  <2> QED
    BY <2>1, <2>2
<1> QED
  BY <1>5, <1>7, <1>9, <1>10, <1>11, <1>12

\* A word put in behind what stands in front is put into the rest.
LEMMA PutBehind ==
  ASSUME NEW W, NEW p \in Seq(W), NEW q \in Seq(W), NEW x \in W,
         NEW n \in Len(p)..(Len(p) + Len(q))
  PROVE  PutIn(p \o q, n, x) =
           p \o SubSeq(q, 1, n - Len(p)) \o <<x>> \o SubSeq(q, n - Len(p) + 1, Len(q))
<1> DEFINE s == p \o q
           k == Len(p)
           a == SubSeq(q, 1, n - k)
           b == SubSeq(q, n - k + 1, Len(q))
           c == SubSeq(s, 1, n)
           d == SubSeq(s, n + 1, Len(s))
           e == p \o a
<1>1. k \in Nat /\ Len(q) \in Nat /\ n \in Nat /\ k <= n /\ n - k \in 0..Len(q)
  OBVIOUS
<1>2. /\ s \in Seq(W) /\ Len(s) = k + Len(q) /\ \A j \in 1..k : s[j] = p[j]
      /\ \A j \in (k + 1)..(k + Len(q)) : s[j] = q[j - k]
  OBVIOUS
<1> HIDE DEF s, k
<1>3. a \in Seq(W) /\ Len(a) = n - k /\ \A j \in 1..(n - k) : a[j] = q[j]
  BY <1>1
<1>4. b \in Seq(W) /\ Len(b) = Len(q) - (n - k) /\ \A j \in 1..(Len(q) - (n - k)) : b[j] = q[n - k + j]
  BY <1>1
<1>5. c \in Seq(W) /\ Len(c) = n /\ \A j \in 1..n : c[j] = s[j]
  BY <1>1, <1>2
<1>6. d \in Seq(W) /\ Len(d) = Len(s) - n /\ \A j \in 1..(Len(s) - n) : d[j] = s[n + j]
  <2>1. n \in 0..Len(s)
    BY <1>1, <1>2
  <2> QED
    BY <1>2, <2>1, Parts
<1> HIDE DEF a, b, c, d
<1>7. /\ e \in Seq(W) /\ Len(e) = n /\ \A j \in 1..k : e[j] = p[j]
      /\ \A j \in (k + 1)..n : e[j] = a[j - k]
  BY <1>1, <1>3 DEF k
<1> HIDE DEF e
<1>8. e = c
  <2>1. ASSUME NEW j \in 1..Len(e) PROVE e[j] = c[j]
    <3>1. CASE j <= k
      BY <1>1, <1>2, <1>5, <1>7, <3>1
    <3>2. CASE j > k
      <4>1. j \in (k + 1)..n /\ j - k \in 1..(n - k) /\ j \in (k + 1)..(k + Len(q)) /\ j \in 1..n
        BY <1>1, <1>7, <3>2
      <4> QED
        BY <1>2, <1>3, <1>5, <1>7, <4>1
    <3> QED
      BY <1>1, <1>7, <3>1, <3>2
  <2> QED
    BY <1>5, <1>7, <2>1, SameElements
<1>9. b = d
  <2>1. ASSUME NEW j \in 1..Len(b) PROVE b[j] = d[j]
    <3>1. /\ j \in 1..(Len(q) - (n - k)) /\ j \in 1..(Len(s) - n)
          /\ n + j \in (k + 1)..(k + Len(q)) /\ (n + j) - k = n - k + j
      BY <1>1, <1>2, <1>4
    <3>2. s[n + j] = q[n - k + j]
      BY <1>2, <3>1
    <3> QED
      BY <1>4, <1>6, <3>1, <3>2
  <2>2. Len(b) = Len(d)
    BY <1>1, <1>2, <1>4, <1>6
  <2> QED
    BY <1>4, <1>6, <2>1, <2>2, SameElements
<1>10. PutIn(s, n, x) = c \o <<x>> \o d
  BY DEF PutIn, c, d
<1>11. PutIn(s, n, x) = e \o <<x>> \o b
  BY <1>8, <1>9, <1>10
<1> QED
  BY <1>11 DEF s, k, a, b, e

\* The subject of a copy: the tag stands behind the markers, the rest is what
\* was asked for, and a reply starts with "re".
LEMMA SubjectForm ==
  ASSUME TypeInv, OrigInv
  PROVE  /\ Tag # "" => /\ Leading(Subject) < Len(Subject)
                        /\ Subject[Leading(Subject) + 1] \in OwnTags
         /\ Dressed(Subject, Asked)
         /\ IsReply => /\ Head(Subject) = "re"
                       /\ Len(Subject) > 1 /\ Subject[2] = "re" => orig.subject[2] = "re"
<1> DEFINE s == Source
           n == Leading(s)
           t == Subject
           p == Opening
           q == Asked
<1>1. /\ q \in Seq(Words) /\ s \in Seq(Words) /\ p \in Seq(Words)
      /\ s = p \o q /\ t = subject(s)
      /\ IsReply => Len(s) > 0 /\ s[1] = "re"
  BY SourceForm
<1>2. /\ p \in IF IsReply THEN {<<>>, <<"re">>} ELSE {<<>>}
      /\ p = <<>> => q = s
      /\ IsReply /\ p = <<>> => q # <<>> /\ Head(q) = "re"
      /\ IsReply /\ p # <<>> => p = <<"re">> /\ (q = <<>> \/ Head(q) # "re")
  BY DEF Opening, Asked, Source
<1>3. IsReply => q = orig.subject
  BY DEF Asked
<1> HIDE DEF s, t, p, q
<1>4. t \in Seq(Words) /\ Leading(t) = n /\ (Tag # "" => n < Len(t) /\ t[n + 1] \in OwnTags)
  BY <1>1, TaggedOnce
<1>5. /\ n \in 0..Len(s) /\ \A j \in 1..n : s[j] \in Markers
      /\ n < Len(s) => s[n + 1] \notin Markers
  BY <1>1, LeadingMarkers
<1>6. \/ t = s
      \/ t = PutIn(s, n, Tag) /\ Tag # ""
  BY <1>1, SubjectCases
<1> HIDE DEF n
<1>7. /\ Len(p) \in Nat /\ Len(q) \in Nat /\ Len(s) = Len(p) + Len(q) /\ Len(s) \in Nat
      /\ \A j \in 1..Len(p) : s[j] = p[j]
      /\ \A j \in 1..Len(q) : s[Len(p) + j] = q[j]
  BY <1>1
<1>8. p = <<>> \/ (IsReply /\ p = <<"re">>)
  BY <1>2
<1>9. Len(p) <= n
  <2>1. CASE p = <<>>
    BY <1>5, <1>7, <2>1
  <2>2. CASE IsReply /\ p = <<"re">>
    <3>1. Len(p) = 1
      BY <2>2
    <3>2. s[1] \in Markers /\ Len(s) > 0
      BY <1>1, <2>2 DEF Markers
    <3>3. n # 0
      BY <1>5, <3>2
    <3> QED
      BY <1>5, <1>7, <3>1, <3>3
  <2> QED
    BY <1>8, <2>1, <2>2
<1>10. Dressed(t, q)
  <2>1. CASE t = s
    <3>1. t = p \o q
      BY <1>1, <2>1
    <3>2. 0 \in 0..Len(q)
      BY <1>7
    <3> QED
      BY <1>2, <3>1, <3>2 DEF Dressed
  <2>2. CASE t = PutIn(s, n, Tag) /\ Tag # ""
    <3>1. Tag \in Words
      BY <2>2, SendAssumption DEF Words
    <3>2. n \in Len(p)..(Len(p) + Len(q)) /\ n - Len(p) \in 0..Len(q)
      BY <1>5, <1>7, <1>9
    <3> DEFINE m == n - Len(p)
    <3>3. PutIn(p \o q, n, Tag) = p \o SubSeq(q, 1, m) \o <<Tag>> \o SubSeq(q, m + 1, Len(q))
      BY <1>1, <3>1, <3>2, PutBehind
    <3>4. m \in 0..Len(q)
      BY <3>2
    <3> HIDE DEF m
    <3>5. t = p \o SubSeq(q, 1, m) \o <<Tag>> \o SubSeq(q, m + 1, Len(q))
      BY <1>1, <2>2, <3>3
    <3> QED
      BY <1>2, <3>4, <3>5 DEF Dressed
  <2> QED
    BY <1>6, <2>1, <2>2
<1>11. ASSUME IsReply
       PROVE  /\ Head(t) = "re"
              /\ Len(t) > 1 /\ t[2] = "re" => q[2] = "re"
  <2>1. Len(s) > 0 /\ s[1] = "re"
    BY <1>1, <1>11
  <2>2. n >= 1 /\ n \in Nat
    <3>1. s[0 + 1] \in Markers
      BY <2>1 DEF Markers
    <3> QED
      BY <1>5, <1>7, <2>1, <3>1
  <2>3. ASSUME t[2] = "re", Len(t) > 1, Len(t) = Len(s) \/ n >= 2, n >= 2 \/ t = s,
               Len(s) > 1, t[2] = s[2]
        PROVE  q[2] = "re"
    <3>1. CASE p = <<>>
      BY <1>2, <2>3, <3>1
    <3>2. CASE p = <<"re">>
      <4>1. Len(p) = 1 /\ p # <<>>
        BY <3>2
      <4>2. 1 \in 1..Len(q)
        BY <1>7, <2>3, <4>1
      <4>3. s[1 + 1] = q[1]
        BY <1>7, <4>1, <4>2
      <4>4. q # <<>>
        BY <4>2
      <4>5. Head(q) = q[1]
        BY <1>1, <4>4
      <4>6. Head(q) # "re"
        BY <1>2, <1>11, <4>1, <4>4
      <4> QED
        BY <2>3, <4>3, <4>5, <4>6
    <3> QED
      BY <1>8, <3>1, <3>2
  <2>4. CASE t = s
    <3>1. Head(t) = t[1]
      <4>1. Len(t) > 0
        BY <2>1, <2>4
      <4> QED
        BY <1>4, <4>1, HeadIsFirst
    <3>2. Len(t) > 1 /\ t[2] = "re" => q[2] = "re"
      BY <2>3, <2>4
    <3> QED
      BY <2>1, <2>4, <3>1, <3>2
  <2>5. CASE t = PutIn(s, n, Tag) /\ Tag # ""
    <3>1. Tag \in Words /\ Tag # "re"
      BY <2>5, SendAssumption DEF Words
    <3> DEFINE u == PutIn(s, n, Tag)
    <3>2. Len(u) = Len(s) + 1 /\ u[n + 1] = Tag /\ \A j \in 1..n : u[j] = s[j]
      <4>1. n \in 0..Len(s) /\ s \in Seq(Words)
        BY <1>1, <1>5
      <4> QED
        BY <3>1, <4>1, PuttingIn
    <3>3. Len(t) = Len(s) + 1 /\ t[n + 1] = Tag /\ \A j \in 1..n : t[j] = s[j]
      BY <2>5, <3>2
    <3>4. t[1] = "re"
      BY <2>1, <2>2, <3>3
    <3>5. Head(t) = t[1]
      <4>1. Len(t) > 0
        BY <1>7, <3>3
      <4> QED
        BY <1>4, <4>1, HeadIsFirst
    <3>6. ASSUME Len(t) > 1, t[2] = "re" PROVE q[2] = "re"
      <4>1. n # 1
        BY <3>1, <3>3, <3>6
      <4>2. n >= 2 /\ 2 \in 1..n
        BY <2>2, <4>1
      <4>3. t[2] = s[2] /\ Len(s) > 1
        BY <1>5, <1>7, <3>3, <4>2
      <4> QED
        BY <2>3, <3>6, <4>2, <4>3
    <3> QED
      BY <3>4, <3>5, <3>6
  <2> QED
    BY <1>6, <2>4, <2>5
<1> QED
  BY <1>3, <1>4, <1>10, <1>11 DEF t, q

\* The last of a sequence is what was put at its end.
LEMMA Ending ==
  ASSUME NEW W, NEW a \in Seq(W), NEW x \in W
  PROVE  /\ a \o <<x>> # <<>> /\ Last(a \o <<x>>) = x
         /\ Len(a \o <<x>>) > Len(a) /\ Len(a \o <<x>>) > 0
<1> DEFINE t == a \o <<x>>
<1>1. t \in Seq(W) /\ Len(t) = Len(a) + 1 /\ t[Len(a) + 1] = x /\ Len(a) \in Nat
  OBVIOUS
<1> HIDE DEF t
<1>2. t # <<>>
  BY <1>1
<1>3. Last(t) = x
  BY <1>1 DEF Last
<1> QED
  BY <1>1, <1>2, <1>3 DEF t

\* What the original is when there is one.
LEMMA OriginalForm ==
  ASSUME OrigInv
  PROVE  /\ orig.refs \in Seq(STRING) /\ orig.irt \in Seq(STRING)
         /\ orig.taint \in {"", "to", "subject", "thread"}
<1>1. CASE orig \in Originals
  BY <1>1, SendAssumption
<1>2. CASE orig = NoOriginal
  <2> DEFINE r == orig.refs
             q == orig.irt
  <2>1. r = <<>> /\ q = <<>> /\ orig.taint = ""
    BY <1>2 DEF NoOriginal
  <2> HIDE DEF r, q
  <2>2. <<>> \in Seq(STRING)
    OBVIOUS
  <2>3. r \in Seq(STRING) /\ q \in Seq(STRING)
    BY <2>1, <2>2, Zenon
  <2> QED
    BY <2>1, <2>3 DEF r, q
<1> QED
  BY <1>1, <1>2 DEF OrigInv

\* The references of a reply end in the message it answers.
LEMMA ReferencesForm ==
  ASSUME OrigInv, orig.id # ""
  PROVE  Threading # <<>> /\ Last(Threading) = orig.id /\ Len(Threading) > Len(orig.refs)
<1> DEFINE r == orig.refs
           q == orig.irt
           x == orig.id
           W == STRING \cup {x}
           a == IF r # <<>> THEN r ELSE q
           t == a \o <<x>>
<1>1. r \in Seq(STRING) /\ q \in Seq(STRING)
  BY OriginalForm
<1>2. Threading = t
  BY DEF Threading, buildReferences
<1> HIDE DEF r, q, x
<1>3. r \in Seq(W) /\ q \in Seq(W) /\ x \in W
  <2>1. STRING \subseteq W /\ x \in W
    OBVIOUS
  <2> HIDE DEF W
  <2> QED
    BY <1>1, <2>1, WiderSeq
<1> HIDE DEF W
<1>4. a \in Seq(W) /\ (a = r \/ Len(r) = 0)
  <2>1. a = r \/ (a = q /\ r = <<>>)
    OBVIOUS
  <2> HIDE DEF a
  <2>2. Len(<<>>) = 0
    OBVIOUS
  <2> QED
    BY <1>3, <2>1, <2>2, Zenon
<1> HIDE DEF a
<1>5. t # <<>> /\ Last(t) = x /\ Len(t) > Len(r)
  BY <1>3, <1>4, Ending
<1> QED
  BY <1>2, <1>5 DEF r, x

\* A copy that left carries no header part with a line break over SMTP, and
\* over Resend none among the reply headers.
LEMMA TaintForm ==
  ASSUME IInv, NEW i \in DOMAIN copies
  PROVE  Taints \subseteq (IF copies[i].via = "smtp" THEN {} ELSE {"subject", "to", "file"})
<1>1. \A v : TheCopy(v).via = v
  BY DEF TheCopy
<1>2. copies # <<>> /\ pc \in PCs
  BY DEF IInv, TypeInv
<1>3. "bcc" \notin req.taint
  BY <1>2 DEF IInv, ChainInv, PCs
<1>4. Taints \subseteq {"subject", "file", "to", "bcc", "thread"}
  <2>1. orig.taint \in {"", "to", "subject", "thread"}
    BY OriginalForm DEF IInv
  <2> QED
    BY <2>1 DEF Taints
<1>5. "bcc" \notin Taints
  <2>1. orig.taint \in {"", "to", "subject", "thread"}
    BY OriginalForm DEF IInv
  <2> QED
    BY <1>3, <2>1 DEF Taints
<1>6. CASE Taints = {}
  BY <1>6
<1>7. CASE Taints # {}
  <2>1. copies = <<TheCopy("resend")>> /\ "thread" \notin Taints
    BY <1>2, <1>7 DEF IInv, ChainInv, PCs
  <2>2. copies[i] = TheCopy("resend")
    BY <2>1, Elements
  <2> QED
    BY <1>1, <1>4, <1>5, <2>1, <2>2
<1> QED
  BY <1>6, <1>7

\* Whatever was asked for and whatever was answered, a copy that leaves has
\* the subject asked for with one tag behind the markers although the tag is
\* put on twice, replies are threaded to the end of the chain, and no header
\* is broken (RepoTag.subject, ReplySubject, buildReferences, TrySendChain).
THEOREM CopiesWellFormed == Spec => []CopyWellFormed
<1>1. IInv => CopyWellFormed
  <2> SUFFICES ASSUME IInv PROVE CopyWellFormed
    OBVIOUS
  <2>1. TypeInv /\ OrigInv
    BY DEF IInv
  <2>2. ASSUME NEW i \in DOMAIN copies
        PROVE  /\ copies[i].subject = Subject /\ copies[i].refs = Threading
               /\ copies[i].irt = (IF Threading = <<>> THEN "" ELSE orig.id)
               /\ copies[i].taint = Taints
    <3>1. \A v : /\ TheCopy(v).subject = Subject /\ TheCopy(v).refs = Threading
                 /\ TheCopy(v).irt = (IF Threading = <<>> THEN "" ELSE orig.id)
                 /\ TheCopy(v).taint = Taints
      BY DEF TheCopy
    <3>2. copies[i] = TheCopy("smtp") \/ copies[i] = TheCopy("resend")
      BY CopyCases, Elements
    <3> QED
      BY <3>1, <3>2
  <2>3. orig.id = "" => Threading = <<>>
    BY DEF Threading
  <2>4. orig.id # "" => Threading # <<>> /\ Last(Threading) = orig.id /\ Len(Threading) > Len(orig.refs)
    BY <2>1, ReferencesForm
  <2>5. (IF Threading = <<>> THEN "" ELSE orig.id) = orig.id
    BY <2>3, <2>4
  <2>6. \A i \in DOMAIN copies :
          Taints \subseteq (IF copies[i].via = "smtp" THEN {} ELSE {"subject", "to", "file"})
    BY TaintForm
  <2>7. /\ Tag # "" => /\ Leading(Subject) < Len(Subject)
                       /\ Subject[Leading(Subject) + 1] \in OwnTags
        /\ Dressed(Subject, Asked)
        /\ IsReply => /\ Head(Subject) = "re"
                      /\ Len(Subject) > 1 /\ Subject[2] = "re" => orig.subject[2] = "re"
    BY <2>1, SubjectForm
  <2> QED
    BY <2>2, <2>4, <2>5, <2>6, <2>7 DEF CopyWellFormed, Asked
<1> QED
  BY <1>1, Inductive, PTL
=============================================================================
