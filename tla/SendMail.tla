------------------------------ MODULE SendMail ------------------------------
(***************************************************************************)
(* One outgoing message, from the four surfaces that send (the tools       *)
(* send_email and reply_message, the commands send and reply) through      *)
(* email.TrySendChain to Proton Bridge's SMTP server or the Resend API.    *)
(* The contacts file may be edited by others while the call runs.  Every   *)
(* exchange with a server may fail, and a server may accept the message    *)
(* and the answer be lost.  A subject is a sequence of words: reply        *)
(* markers, [owner/repo] tags and text.                                    *)
(***************************************************************************)
EXTENDS Contacts, Keys

CONSTANTS
    Me,          \* the address of the active identity
    Entries,     \* the surfaces in use
    Requests,    \* what a caller may ask for
    Originals,   \* the messages that may be replied to
    Books,       \* the contents of the contacts file
    Listings,    \* the states of the signer's key
    Tag,         \* the repository's tag word, or "" without a repository
    OwnTags,     \* the tag words of the same owner
    Cap,         \* the attachment limit, per file and in total
    MaxEdits     \* edits of the contacts file during a call

\* Tokens, words and header parts as the surfaces hand them over; a permission
\* in the contacts file is any text.
ASSUME SendAssumption ==
    /\ Tag \in OwnTags \cup {""} /\ OwnTags \cap {"re", "fwd", ""} = {}
    /\ MaxEdits \in Nat
    /\ Entries \subseteq {"send_email", "reply_message", "send", "reply"}
    /\ \A r \in Requests :
         /\ {r.to, r.cc, r.bcc} \subseteq Seq(Names \cup Exact \cup Patterns)
         /\ r.subject \in Seq(STRING) /\ r.taint \subseteq {"to", "bcc", "subject", "file"}
    /\ \A o \in Originals :
         /\ {o.refs, o.irt, o.subject} \subseteq Seq(STRING)
         /\ o.taint \in {"", "to", "subject", "thread"}
    /\ \A b \in Books :
         /\ b \in Seq(Range(b))
         /\ \A i \in DOMAIN b : \A id \in DOMAIN b[i].perms : b[i].perms[id] \in Seq(STRING)

VARIABLES
    entry, req, sign,   \* the call and the configured signing policy
    book, books, edits, \* the contacts file, its versions during the call
    step, pc,           \* where the handler is, and the chain after it
    store,              \* the contacts the call loaded
    to, cc, bcc,        \* the resolved recipients
    orig,               \* what reply fetched
    encrypt,            \* whether there is a key for every recipient
    next,               \* the next SMTP exchange
    copies, lost,       \* accepted copies; transports that hid acceptance
    answer

callVars == <<entry, req, sign>>
fileVars == <<book, books, edits>>
msgVars  == <<store, to, cc, bcc, orig, encrypt>>
vars == <<callVars, fileVars, step, pc, msgVars, next, copies, lost, answer>>

-----------------------------------------------------------------------------
\* Subjects.
Markers == {"re", "fwd"}
Leading(s) ==
    LET stops == {i \in DOMAIN s : s[i] \notin Markers}
    IN  IF stops = {} THEN Len(s) ELSE (CHOOSE i \in stops : \A j \in stops : i <= j) - 1

bracketTagged(rest) == rest # <<>> /\ Head(rest) \in OwnTags

\* Mutant: the tag is always inserted.
alwaysTag(s) ==
    LET n == Leading(s) IN SubSeq(s, 1, n) \o <<Tag>> \o SubSeq(s, n + 1, Len(s))

\* RepoTag.subject: after the markers, unless a tag of the owner is there.
subject(s) ==
    LET n == Leading(s)
        rest == SubSeq(s, n + 1, Len(s))
    IN  IF Tag = "" \/ bracketTagged(rest) THEN s
        ELSE SubSeq(s, 1, n) \o <<Tag>> \o rest

ReplySubject(s) ==
    subject(IF s # <<>> /\ Head(s) = "re" THEN s ELSE <<"re">> \o s)

buildReferences(o) ==
    (IF o.refs # <<>> THEN o.refs ELSE o.irt) \o (IF o.id = "" THEN <<>> ELSE <<o.id>>)

\* Threading is dropped as a whole when the original has no Message-ID.
Threading == IF orig.id = "" THEN <<>> ELSE buildReferences(orig)

IsReply == entry \in {"reply_message", "reply"}
IsTool  == entry \in {"send_email", "reply_message"}

NoOriginal == [id |-> "", refs |-> <<>>, irt |-> <<>>, replyTo |-> "",
               subject |-> <<>>, taint |-> ""]

\* TrySendChain tags the subject again: the second time must change nothing.
Subject == subject(IF IsReply THEN ReplySubject(orig.subject) ELSE req.subject)

Recipients == to \o cc \o bcc

-----------------------------------------------------------------------------
Init ==
    /\ entry \in Entries /\ req \in Requests /\ sign \in BOOLEAN
    /\ book \in Books /\ books = {book} /\ edits = 0
    /\ step = 1 /\ pc = "handler"
    /\ store = <<>> /\ to = <<>> /\ cc = <<>> /\ bcc = <<>>
    /\ orig = NoOriginal /\ encrypt = FALSE
    /\ next = 1 /\ copies = <<>> /\ lost = {} /\ answer = "pending"

Fail == /\ answer' = "error" /\ pc' = "done"
        /\ UNCHANGED <<callVars, fileVars, step, msgVars, next, copies, lost>>

\* The order of each handler's stages.
sendEmail    == <<"context", "resolve", "gate", "attach", "keys", "chain">>
replyMessage == <<"context", "resolve", "attach", "fetch", "gate", "keys", "chain">>
sendCmd      == <<"resolve", "context", "chain">>
replyCmd     == <<"resolve", "context", "fetch", "chain">>

Route == [send_email |-> sendEmail, reply_message |-> replyMessage,
          send |-> sendCmd, reply |-> replyCmd]

At(stage) == pc = "handler" /\ Route[entry][step] = stage
Advance == step' = step + 1
HandlerOnly == UNCHANGED <<callVars, fileVars, pc, next, copies, lost, answer>>

\* Someone edits the contacts file while the call runs.
EditBook ==
    /\ edits < MaxEdits /\ pc # "done"
    /\ edits' = edits + 1
    /\ book' \in Books \ {book} /\ books' = books \cup {book'}
    /\ UNCHANGED <<callVars, step, pc, msgVars, next, copies, lost, answer>>

\* resolveContext: identity, configuration and, for a tool, the contacts.
Context ==
    /\ At("context")
    /\ \/ Fail
       \/ /\ Advance /\ store' = IF IsTool THEN book ELSE store
          /\ UNCHANGED <<to, cc, bcc, orig, encrypt>> /\ HandlerOnly

\* ResolveField on each field.  A command loads the contacts only when a
\* token is not an address; one unresolved token fails the call.
Resolve ==
    /\ At("resolve")
    /\ LET fields == IF IsReply THEN req.cc \o req.bcc ELSE req.to \o req.cc \o req.bcc
           needed == Range(fields) \cap Names # {}
           from == IF IsTool THEN store ELSE IF needed THEN book ELSE <<>>
           t == IF IsReply THEN <<>> ELSE ResolveAddresses(from, req.to)
           c == ResolveAddresses(from, req.cc)
           b == ResolveAddresses(from, req.bcc)
       IN  \/ /\ \/ Failed \in Range(t) \cup Range(c) \cup Range(b)
                 \/ ~IsReply /\ t = <<>>
                 \/ needed /\ ~IsTool
              /\ Fail
           \/ /\ Failed \notin Range(t) \cup Range(c) \cup Range(b)
              /\ IsReply \/ t # <<>>
              /\ to' = t /\ cc' = c /\ bcc' = b
              /\ Advance /\ UNCHANGED <<store, orig, encrypt>> /\ HandlerOnly

\* FetchThread: Reply-To or From is the recipient, without one the call ends.
FetchThread ==
    /\ At("fetch")
    /\ \/ Fail
       \/ \E o \in Originals :
            /\ o.replyTo # ""
            /\ orig' = o /\ to' = <<o.replyTo>>
            /\ Advance /\ UNCHANGED <<store, cc, bcc, encrypt>> /\ HandlerOnly

\* Mutant: only the visible recipients are checked.
GateVisible ==
    /\ At("gate")
    /\ IF enforceWritePermission(store, Me, to \o cc) # {} THEN Fail
       ELSE Advance /\ UNCHANGED msgVars /\ HandlerOnly

\* The write gate of the two tools.
Gate ==
    /\ At("gate")
    /\ IF enforceWritePermission(store, Me, Recipients) # {} THEN Fail
       ELSE Advance /\ UNCHANGED msgVars /\ HandlerOnly

\* readAttachments: the limit holds for each file and for the sum.
AttachmentsFit(sizes) ==
    \A i \in DOMAIN sizes : FoldLeft(+, 0, SubSeq(sizes, 1, i)) <= Cap

Attach ==
    /\ At("attach")
    /\ \/ Fail
       \/ AttachmentsFit(req.files) /\ Advance /\ UNCHANGED msgVars /\ HandlerOnly

EncryptKeys ==
    /\ At("keys")
    /\ encrypt' = encryptKeysFor(store, Recipients)
    /\ Advance /\ UNCHANGED <<store, to, cc, bcc, orig>> /\ HandlerOnly

-----------------------------------------------------------------------------
ChainOnly == UNCHANGED <<callVars, fileVars, step, msgVars>>
Goto(l) == pc' = l /\ UNCHANGED <<next, copies, lost, answer>> /\ ChainOnly

\* The checks of TrySendChain before any transport is tried.
Chain ==
    /\ At("chain")
    /\ \E pass \in Backends :
         IF \/ "bcc" \in req.taint
            \/ encrypt /\ ~sign
            \/ sign /\ Get(pass) = "broken"
           THEN Fail ELSE Goto("probe")

\* SMTPAvailable: a connection that is opened and closed again.
Probe == pc = "probe" /\ (Goto("compose") \/ Goto("resend"))

\* The header parts of this message that hold a CR or LF.
Taints ==
    (IF IsReply THEN {} ELSE req.taint \cap {"subject"})
      \cup (IF IsTool THEN req.taint \cap {"file"} ELSE {})
      \cup (req.taint \cap {"to", "bcc"})
      \cup (IF orig.taint = "thread" /\ Threading = <<>> THEN {} ELSE {orig.taint} \ {""})

\* What must hold for each form of the message to be composed.
ComposeRaw == Taints = {}
ComposeSignedRaw(runs, l) == Taints = {} /\ DetachSignBody(runs, l) # 0
ComposeEncryptedSignedRaw(runs, l, encrypts) == ComposeSignedRaw(runs, l) /\ encrypts

\* A message that cannot be composed fails the call: no fallback from here.
Compose ==
    /\ pc = "compose"
    /\ \E runs, encrypts \in BOOLEAN, l \in Listings :
         LET composed == CASE encrypt -> ComposeEncryptedSignedRaw(runs, l, encrypts)
                           [] ~encrypt /\ sign -> ComposeSignedRaw(runs, l)
                           [] OTHER -> ComposeRaw
         IN  IF composed THEN Goto("smtp") ELSE Fail

\* The exchanges of SMTPSend; RCPT is repeated for every recipient.
Exchanges == <<"password", "dial", "tls", "auth", "mail">>
               \o [i \in 1..Len(Recipients) |-> "rcpt"] \o <<"data", "write", "dot", "close", "quit">>

TheCopy(via) ==
    [via |-> via, sign |-> via = "smtp" /\ sign, encrypt |-> via = "smtp" /\ encrypt,
     rcpts |-> Range(Recipients), subject |-> Subject, refs |-> Threading,
     irt |-> IF Threading = <<>> THEN "" ELSE orig.id, taint |-> Taints]

\* Unsigned mail falls back to Resend; signed mail must not.
SMTPFailed ==
    IF sign \/ encrypt
      THEN answer' = "error" /\ pc' = "done" /\ UNCHANGED next
      ELSE pc' = "resend" /\ UNCHANGED <<next, answer>>

\* Mutant: success does not return, the chain goes on.
FallsThrough == pc' = "resend" /\ UNCHANGED answer

Delivered == answer' = "smtp" /\ pc' = "done"

ReadPassword ==
    /\ pc = "smtp" /\ Exchanges[next] = "password"
    /\ \E smtp, imap \in Backends :
         IF SMTPPassword(smtp, imap) # "found" THEN SMTPFailed
         ELSE next' = next + 1 /\ UNCHANGED <<pc, answer>>
    /\ UNCHANGED <<copies, lost>> /\ ChainOnly

SMTPSend ==
    /\ pc = "smtp" /\ Exchanges[next] \notin {"password", "dot"}
    /\ \/ SMTPFailed /\ lost' = IF copies # <<>> THEN lost \cup {"smtp"} ELSE lost
       \/ /\ Exchanges[next] # "quit"
          /\ Exchanges[next] = "close" => copies # <<>>
          /\ next' = next + 1 /\ UNCHANGED <<pc, answer, lost>>
       \/ /\ Exchanges[next] = "quit"
          /\ Delivered /\ UNCHANGED <<next, lost>>
    /\ UNCHANGED copies /\ ChainOnly

\* The server (external) has the final dot: it takes the message or not, and
\* the client reads its reply at "close" or loses it.
ServerTakes ==
    /\ pc = "smtp" /\ Exchanges[next] = "dot"
    /\ next' = next + 1
    /\ copies' \in {copies, Append(copies, TheCopy("smtp"))}
    /\ UNCHANGED <<pc, lost, answer>> /\ ChainOnly

\* Mutant: the block on signed mail is forgotten.
ResendAnyway ==
    /\ pc = "resend"
    /\ \/ Fail
       \/ /\ copies' = Append(copies, TheCopy("resend")) /\ pc' = "response"
          /\ UNCHANGED <<next, lost, answer>> /\ ChainOnly

\* resendRequest and Send up to the request: the API key, then the service
\* (external) takes the mail or not.
Resend ==
    /\ pc = "resend"
    /\ \E key \in Backends :
         IF sign \/ "thread" \in Taints \/ Get(key) # "found" THEN Fail
         ELSE \/ Fail
              \/ /\ copies' = Append(copies, TheCopy("resend")) /\ pc' = "response"
                 /\ UNCHANGED <<next, lost, answer>> /\ ChainOnly

\* The response to a request that was taken: read, or lost or unreadable.
Response ==
    /\ pc = "response"
    /\ \/ answer' = "resend" /\ UNCHANGED lost
       \/ answer' = "error" /\ lost' = lost \cup {"resend"}
    /\ pc' = "done" /\ UNCHANGED <<next, copies>> /\ ChainOnly

Terminated == pc = "done" /\ UNCHANGED vars

Next == \/ EditBook \/ Context \/ Resolve \/ FetchThread \/ Gate \/ Attach \/ EncryptKeys
        \/ Chain \/ Probe \/ Compose \/ ReadPassword
        \/ SMTPSend \/ ServerTakes \/ Resend \/ Response \/ Terminated

Spec == Init /\ [][Next]_vars

-----------------------------------------------------------------------------
Form(c) == [via |-> c.via, sign |-> c.sign, encrypt |-> c.encrypt]

O == INSTANCE Outbox WITH copies <- [i \in DOMAIN copies |-> Form(copies[i])]

\* A signed message never leaves unsigned, nor one for which encryption was
\* decided in the clear, whichever transport fails and when; success is
\* reported for a copy that transport took (TrySendChain).
ImplementsOutbox == O!Spec

\* Whoever is told "error" while a copy is out, and whoever gets two, owes it
\* to a server that took the message and whose answer was lost (SMTP's final
\* reply or QUIT, the Resend response): no other path sends twice or lies.
CopiesExplained ==
    /\ Len(copies) > 1 => "smtp" \in lost
    /\ answer = "error" => \A i \in DOMAIN copies : copies[i].via \in lost
    /\ Len(copies) <= 2

\* The contact an address stands for, by the documented precedence: an exact
\* entry, else the longest pattern, the earliest of equals.
Selected(b, addr) ==
    LET exact == {i \in DOMAIN b : b[i].email = addr /\ addr \notin Patterns}
        glob == {i \in DOMAIN b : b[i].email \in Patterns /\ addr \in Matches[b[i].email]}
        best == {i \in glob : \A j \in glob : Width[b[i].email] >= Width[b[j].email]}
        pool == IF exact # {} THEN exact ELSE best
    IN  {b[i] : i \in {j \in pool : \A m \in pool : j <= m}}

\* A tool delivers to nobody, visible or blind, who could not be written to
\* under one and the same version of the contacts file in force during the
\* call, however the file is edited meanwhile (sendEmail, replyMessage).
RecipientsWritable ==
    IsTool => \A i \in DOMAIN copies : \E b \in books :
        \A a \in copies[i].rcpts :
            \E c \in Selected(b, a) :
                /\ Me \in DOMAIN c.perms
                /\ c.perms[Me] \in {"r", "R", "-"} \X {"w", "W"} \X {"x", "X", "-"}

\* The subject asked for, with at most one tag put in and at most one "re" in
\* front of it.
Dressed(s, asked) ==
    \E pre \in IF IsReply THEN {<<>>, <<"re">>} ELSE {<<>>}, n \in 0..Len(asked) :
        \/ s = pre \o asked
        \/ s = pre \o SubSeq(asked, 1, n) \o <<Tag>> \o SubSeq(asked, n + 1, Len(asked))

\* What arrives: the subject as asked for but for one tag of the owner behind
\* the reply markers, though it is put on twice, and "re" once in front of a
\* reply; the whole chain of references ending in the message answered; no
\* header part with CR or LF over SMTP and no such reply header over Resend
\* either.
CopyWellFormed ==
    \A i \in DOMAIN copies :
        LET c == copies[i]
            asked == IF IsReply THEN orig.subject ELSE req.subject
            n == Leading(c.subject)
        IN  /\ Tag # "" => n < Len(c.subject) /\ c.subject[n + 1] \in OwnTags
            /\ Dressed(c.subject, asked)
            /\ IsReply => /\ Head(c.subject) = "re"
                          /\ Len(c.subject) > 1 /\ c.subject[2] = "re" => orig.subject[2] = "re"
                          /\ c.irt = orig.id
                          /\ orig.id # "" => /\ Last(c.refs) = orig.id
                                             /\ Len(c.refs) > Len(orig.refs)
            /\ c.taint \subseteq (IF c.via = "smtp" THEN {} ELSE {"subject", "to", "file"})
=============================================================================
