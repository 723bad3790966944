------------------------------ MODULE Mailbox -------------------------------
(***************************************************************************)
(* What the IMAP client (internal/email/imap.go), the MIME parser and the  *)
(* OpenPGP wrappers compute for a folder: a sequence of UIDs, oldest first,*)
(* and the set of those that are marked seen.                              *)
(*                                                                         *)
(* Mail[u] says what message u is: its sender (address token, "" if it     *)
(* does not parse), whether it is tagged for this repository and matches   *)
(* the caller's words, its outer MIME entity and what that decrypts to.    *)
(* An entity is its content type, whether it bears Proton's headers, its   *)
(* signature ("good" where a gpg that has the key accepts it, "bad" where  *)
(* not, "mangled": cannot be split off, "none") and its number of parts.   *)
(***************************************************************************)
EXTENDS Filter

CONSTANTS Mail

Entity(ct, proton, sig, parts) ==
    [ct |-> ct, proton |-> proton, sig |-> sig, parts |-> parts]

-----------------------------------------------------------------------------
(* Listings *)

\* searchCriteria: an empty query has no criteria and needs no SEARCH.
HasCriteria(q) == q.repo \/ q.unread \/ q.words

Selects(q, u, seen) ==
    /\ q.repo => Mail[u].repo
    /\ q.unread => u \notin seen
    /\ q.words => Mail[u].words

\* The server's answer to UID SEARCH, oldest first.
UIDSearch(q, folder, seen) ==
    Only(folder, {u \in Range(folder) : Selects(q, u, seen)})

clampCount(count, n) == IF count > n THEN n ELSE count

\* Mutant: one message too many.
recencyOffByOne(n, width) ==
    [start |-> IF n > width THEN n - width ELSE 1, stop |-> n]

\* The last width of n messages by sequence number.
recencySet(n, width) ==
    [start |-> IF n > width THEN n - width + 1 ELSE 1, stop |-> n]

\* The page of count elements that ends offset before the last.
window(uids, count, offset) ==
    LET end == Len(uids) - offset
        start == IF end > count THEN end - count ELSE 0
    IN  IF end <= 0 \/ count <= 0 THEN <<>> ELSE SubSeq(uids, start + 1, end)

\* FETCH of a sequence range: what the range still covers.
InRange(folder, r) ==
    SubSeq(folder, r.start, IF r.stop > Len(folder) THEN Len(folder) ELSE r.stop)

-----------------------------------------------------------------------------
(* Trust *)

\* ClassifyTrust of an entity: signatures are left to the caller to verify.
ClassifyTrust(e) == IF e.proton THEN "trusted" ELSE "unverified"

\* classifyFromHeaders, HasPGPSignature: is there a signature to verify?
HasSig(e) == ~e.proton /\ e.ct = "signed"

\* Mutant: gpg's exit status is not looked at.
VerifyAnything(e, gpg) ==
    IF e.ct # "signed" \/ e.sig = "mangled" THEN "unverified" ELSE "verified"

\* Verify: the level an outer entity gets, or "unverified" on an error, one of
\* which is that it is not multipart/signed.  Valid is gpg's exit status alone
\* and no failure of gpg is an error: where it cannot be run, or has not got the
\* key since an import or the export failed (~gpg), a good signature is as
\* "untrusted" as a bad one.
Verify(e, gpg) ==
    IF e.ct # "signed" \/ e.sig = "mangled" THEN "unverified"
    ELSE IF e.sig = "good" /\ gpg THEN "verified" ELSE "untrusted"

\* parseMessage works on the plaintext when the message can be decrypted.
Plaintext(m, decrypts) ==
    IF m.top.ct = "encrypted" /\ decrypts THEN m.inner ELSE m.top

\* ExtractPart counts from 0.
HasPart(e, k) == k < e.parts

-----------------------------------------------------------------------------
(* Sets of messages named by the caller; 0 stands for an id that is not one *)

\* Mutant: repeats are kept.
ParseKeepingRepeats(ids) == IF 0 \in Range(ids) THEN <<>> ELSE ids

DedupUIDs(uids) ==
    LET out[i \in 0..Len(uids)] ==
          IF i = 0 THEN <<>>
          ELSE IF uids[i] \in Range(out[i - 1]) THEN out[i - 1]
          ELSE Append(out[i - 1], uids[i])
    IN  out[Len(uids)]

\* All or nothing; <<>> when some id is invalid.
parseUIDs(ids) == IF 0 \in Range(ids) THEN <<>> ELSE DedupUIDs(ids)
=============================================================================
