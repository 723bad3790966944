------------------------------- MODULE Outbox -------------------------------
(***************************************************************************)
(* What a caller of the send path is promised about one message: it leaves *)
(* in the form the identity's policy asks for or not at all, success is    *)
(* reported only for a copy a transport accepted, and a second copy exists *)
(* only when the first transport hid that it had accepted one.             *)
(***************************************************************************)
EXTENDS Naturals, Sequences

VARIABLES sign,     \* the policy: outgoing mail is signed
          encrypt,  \* every recipient has a key; FALSE until decided
          copies,   \* the copies accepted so far, in order
          answer    \* "pending", "smtp", "resend" or "error"

vars == <<sign, encrypt, copies, answer>>

Copy(via, s, e) == [via |-> via, sign |-> s, encrypt |-> e]

Init == /\ sign \in BOOLEAN
        /\ encrypt = FALSE
        /\ copies = <<>>
        /\ answer = "pending"

\* Encryption is decided before anything leaves.
Decide == /\ answer = "pending" /\ copies = <<>>
          /\ encrypt' \in BOOLEAN
          /\ UNCHANGED <<sign, copies, answer>>

\* SMTP takes the first copy, in the full form.
AcceptSMTP == /\ answer = "pending" /\ copies = <<>>
              /\ encrypt => sign
              /\ copies' = <<Copy("smtp", sign, encrypt)>>
              /\ UNCHANGED <<sign, encrypt, answer>>

\* Resend cannot carry a signature: unsigned mail only, and at most once.
AcceptResend == /\ answer = "pending" /\ ~sign /\ ~encrypt
                /\ \A i \in DOMAIN copies : copies[i].via # "resend"
                /\ copies' = Append(copies, Copy("resend", FALSE, FALSE))
                /\ UNCHANGED <<sign, encrypt, answer>>

Succeed(via) == /\ answer = "pending"
                /\ \E i \in DOMAIN copies : copies[i].via = via
                /\ answer' = via
                /\ UNCHANGED <<sign, encrypt, copies>>

GiveUp == /\ answer = "pending" /\ answer' = "error"
          /\ UNCHANGED <<sign, encrypt, copies>>

Next == Decide \/ AcceptSMTP \/ AcceptResend \/ GiveUp
          \/ \E via \in {"smtp", "resend"} : Succeed(via)

Spec == Init /\ [][Next]_vars
=============================================================================
