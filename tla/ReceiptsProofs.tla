--------------------------- MODULE ReceiptsProofs ---------------------------
(***************************************************************************)
(* Proofs about Receipts for every set of keys, drafts and options: the    *)
(* type invariant, and what verification guarantees about every receipt it *)
(* ever returned.  Then the stream manifests of StreamProof that receipts  *)
(* go with: that an accepted one is continuous, billed as measured, and    *)
(* reflects its nonces in time.                                            *)
(*                                                                         *)
(* FoldLeft and MapThenSumSet are recursive functions of sets, so their    *)
(* proofs go by induction over positions: a fact holds up to n when the set*)
(* of numbers it holds for has 0 and the successor of each member (UpTo).  *)
(***************************************************************************)
EXTENDS Receipts, StreamProof, FiniteSetTheorems, WellFoundedInduction, TLAPS

-----------------------------------------------------------------------------
(* The operators are closed over their types.                              *)

(* The empty records have their types.                                     *)
LEMMA EmptyTypes ==
    /\ NoAttestation \in AttestationDecision
    /\ NoKeyRelease \in KeyReleaseDecision
    /\ NoVerifierResult \in VerifierResult
    /\ NoContent \in Content
<1>1. NoAttestation \in AttestationDecision
  BY ReceiptsAssumption DEF NoAttestation, AttestationDecision
<1>2. NoKeyRelease \in KeyReleaseDecision
  BY ReceiptsAssumption, <1>1 DEF NoKeyRelease, KeyReleaseDecision
<1>3. NoVerifierResult \in VerifierResult
  BY ReceiptsAssumption, <1>1, <1>2 DEF NoVerifierResult, VerifierResult
<1>4. NoContent \in Content
  BY ReceiptsAssumption, <1>3 DEF NoContent, Content, Kinds, Executor, Route, NoRoute
<1> QED
  BY <1>1, <1>2, <1>3, <1>4

(* What a signature covers is itself a content, whatever kind of receipt.  *)
LEMMA PayloadType ==
    ASSUME NEW c \in Content
    PROVE  SignedPayload(c) \in Content
<1>1. NoVerifierResult \in VerifierResult
  BY EmptyTypes
<1>2. [c EXCEPT !.Verifier = NoVerifierResult] \in Content
  BY <1>1 DEF Content
<1>3. c.kind \in {"proof", "service", "edge"}
  BY DEF Content, Kinds
<1> QED
  BY <1>2, <1>3 DEF SignedPayload, ProofPayload, ServicePayload, EdgePayload

(* Both signing functions return signatures.                               *)
LEMMA SignatureType ==
    ASSUME NEW c \in Content, NEW key \in Keys \cup {NoKey}
    PROVE  /\ CredentialSignature(c, key) \in Signature
           /\ SoftwareSignature(c) \in Signature
<1>1. NoContent \in Content
  BY EmptyTypes
<1>2. SignedPayload(c) \in Content
  BY PayloadType
<1>3. NoSignature \in Signature
  BY <1>1 DEF NoSignature, Signature, Schemes
<1>4. CredentialSignature(c, key) \in Signature
  BY <1>2, <1>3 DEF CredentialSignature, Signature, Schemes
<1>5. SoftwareSignature(c) \in Signature
  BY <1>2 DEF SoftwareSignature, Signature, Schemes
<1> QED
  BY <1>4, <1>5

(* Stamping keeps a content a content and changes nothing of the run.      *)
LEMMA StampType ==
    ASSUME NEW c \in Content, NEW opts \in ReceiptVerificationOptions
    PROVE  /\ Stamp(c, opts) \in Content
           /\ Stamp(c, opts).kind = c.kind
           /\ Stamp(c, opts).Executor = c.Executor
           /\ SameRun(Stamp(c, opts), c)
<1>1. receiptVerifierResult(opts) \in VerifierResult
  BY EmptyTypes, ReceiptsAssumption
  DEF receiptVerifierResult, VerifierResult, ReceiptVerificationOptions
<1>2. PICK v \in VerifierResult :
          Stamp(c, opts) = c \/ Stamp(c, opts) = [c EXCEPT !.Verifier = v]
  BY <1>1 DEF Stamp
<1> QED
  BY <1>2 DEF Content, SameRun

(* A receipt returned by verification is a receipt with the same signature.*)
LEMMA ReturnedType ==
    ASSUME NEW r \in Receipt, NEW opts \in ReceiptVerificationOptions
    PROVE  /\ Returned(r, opts) \in Receipt
           /\ Returned(r, opts).sig = r.sig
           /\ Returned(r, opts).content.kind = r.content.kind
           /\ Returned(r, opts).content.Executor = r.content.Executor
           /\ SameRun(Returned(r, opts).content, r.content)
<1>1. r.content \in Content
  BY DEF Receipt
<1>2. CASE r.content.kind = "proof"
  BY <1>2 DEF Returned, SameRun
<1>3. CASE r.content.kind # "proof"
  <2>1. Returned(r, opts) = [r EXCEPT !.content = Stamp(r.content, opts)]
    BY <1>3 DEF Returned
  <2> QED
    BY <1>1, <2>1, StampType DEF Receipt
<1> QED
  BY <1>2, <1>3

(* A signature covers the run of the content it was computed over.         *)
LEMMA PayloadSameRun ==
    ASSUME NEW c \in Content
    PROVE  SameRun(SignedPayload(c), c)
<1>1. c.kind \in {"proof", "service", "edge"}
  BY DEF Content, Kinds
<1>2. SignedPayload(c) = c
      \/ SignedPayload(c) = [c EXCEPT !.Verifier = NoVerifierResult]
  BY <1>1 DEF SignedPayload, ProofPayload, ServicePayload, EdgePayload
<1> QED
  BY <1>2 DEF SameRun, Content

-----------------------------------------------------------------------------
(* Type correctness.                                                       *)

(* Every reachable state is well typed: signing with the empty key never   *)
(* enters the history, and a verified receipt is again a receipt.          *)
THEOREM TypeCorrect == Spec => []TypeOK
<1>1. Init => TypeOK
  BY DEF Init, TypeOK
<1>2. TypeOK /\ [Next]_vars => TypeOK'
  <2> SUFFICES ASSUME TypeOK, [Next]_vars
               PROVE  TypeOK'
    OBVIOUS
  <2> USE ReceiptsAssumption
  <2>1. ASSUME NEW c \in Drafts, NEW key \in Keys \cup {NoKey},
               SignWithCredential(c, key)
        PROVE  TypeOK'
    <3>1. c \in Content
      OBVIOUS
    <3>2. /\ CredentialSignature(c, key) \in Signature
          /\ SignedPayload(c) \in Content
      BY <3>1, SignatureType, PayloadType
    <3>3. [content |-> c, sig |-> CredentialSignature(c, key)] \in Receipt
      BY <3>1, <3>2 DEF Receipt
    <3>4. key # NoKey => <<key, SignedPayload(c)>> \in Keys \X Content
      BY <3>2
    <3> QED
      BY <2>1, <3>3, <3>4 DEF SignWithCredential, Send, TypeOK
  <2>2. ASSUME NEW c \in Drafts, SignWithSoftware(c)
        PROVE  TypeOK'
    <3>1. c \in Content
      OBVIOUS
    <3>2. SoftwareSignature(c) \in Signature
      BY <3>1, SignatureType
    <3>3. [content |-> c, sig |-> SoftwareSignature(c)] \in Receipt
      BY <3>1, <3>2 DEF Receipt
    <3> QED
      BY <2>2, <3>3 DEF SignWithSoftware, Send, TypeOK
  <2>3. ASSUME NEW r \in wire, NEW c \in Drafts, Alter(r, c)
        PROVE  TypeOK'
    <3>1. r \in Receipt /\ c \in Content
      BY DEF TypeOK
    <3>2. [r EXCEPT !.content = c] \in Receipt
      BY <3>1 DEF Receipt
    <3> QED
      BY <2>3, <3>2 DEF Alter, Send, TypeOK
  <2>4. ASSUME NEW r \in wire, NEW status \in Restamps, Restamp(r, status)
        PROVE  TypeOK'
    <3>1. r \in Receipt /\ status \in Strings
      BY DEF TypeOK
    <3>2. [r EXCEPT !.content.Verifier.Status = status] \in Receipt
      BY <3>1 DEF Receipt, Content, VerifierResult
    <3> QED
      BY <2>4, <3>2 DEF Restamp, Send, TypeOK
  <2>5. ASSUME NEW r \in wire, NEW opts \in Options, Verify(r, opts)
        PROVE  TypeOK'
    <3>1. r \in Receipt /\ opts \in ReceiptVerificationOptions
      BY DEF TypeOK
    <3>2. Returned(r, opts) \in Receipt
      BY <3>1, ReturnedType
    <3>3. [receipt |-> Returned(r, opts), opts |-> opts]
          \in [receipt : Receipt, opts : Options]
      BY <3>2
    <3>4. wire' \subseteq Receipt
      BY <2>5, <3>2 DEF Verify, Send, TypeOK
    <3>5. stored' \subseteq [receipt : Receipt, opts : Options]
      BY <2>5, <3>3 DEF Verify, TypeOK
    <3> QED
      BY <2>5, <3>4, <3>5 DEF Verify, TypeOK
  <2>6. CASE UNCHANGED vars
    BY <2>6 DEF vars, TypeOK
  <2> QED
    BY <2>1, <2>2, <2>3, <2>4, <2>5, <2>6 DEF Next
<1> QED
  BY <1>1, <1>2, PTL DEF Spec

-----------------------------------------------------------------------------
(* What verification guarantees.                                           *)

(* The strengthening: no credential signature is in transit that the holder*)
(* of its key did not compute.  Altering and restamping a receipt copy the *)
(* signature string, and verification returns it, so none of them makes one.*)
WireSignaturesWereMade ==
    \A r \in wire : r.sig.scheme = "credential-hmac-sha256"
                    => <<r.sig.key, r.sig.payload>> \in signed

(* A credential signature that verifies was computed with the verifier's   *)
(* key over what the receipt says.                                         *)
LEMMA VerifiedSignature ==
    ASSUME NEW c, NEW sig, NEW key,
           VerifyCredentialSignature(c, sig, key)
    PROVE  /\ key # NoKey
           /\ sig.key = key
           /\ sig.payload = SignedPayload(c)
           /\ sig.scheme = "credential-hmac-sha256"
BY DEF VerifyCredentialSignature, CredentialSignature

(* A signature that a host accepts is a verified credential signature, or  *)
(* the software signature of a service or edge receipt whose host allows it*)
LEMMA AcceptedSignature ==
    ASSUME NEW r \in Receipt, NEW opts \in ReceiptVerificationOptions,
           Accepts(r, opts)
    PROVE  \/ VerifyCredentialSignature(r.content, r.sig,
                                        opts.CredentialTokenProofKey)
           \/ /\ opts.AllowSoftwareFallback
              /\ r.content.kind # "proof"
              /\ r.sig = SoftwareSignature(r.content)
BY DEF Accepts, VerifyServiceReceipt, VerifyEdgeRequestReceipt,
       VerifyProofReceipt, SignatureValid

(* What one verification guarantees about the receipt it returns.          *)
LEMMA VerifyGuarantees ==
    ASSUME TypeOK, WireSignaturesWereMade,
           NEW r \in wire, NEW opts \in Options, Accepts(r, opts)
    PROVE  LET t == Returned(r, opts)
           IN  /\ \/ \E p \in signed :
                         /\ p[1] = opts.CredentialTokenProofKey
                         /\ SameRun(p[2], t.content)
                  \/ /\ opts.AllowSoftwareFallback
                     /\ t.content.kind # "proof"
                     /\ t.sig.scheme \in {"software-agent", "software-router"}
               /\ /\ RequiresAttestation(t.content.Executor)
                  /\ t.content.kind # "edge"
                  /\ t.sig.scheme = "credential-hmac-sha256"
                  => <<opts.CredentialTokenProofKey, t.content>> \in signed
<1> DEFINE t == Returned(r, opts)
           key == opts.CredentialTokenProofKey
<1>1. r \in Receipt /\ r.content \in Content
      /\ opts \in ReceiptVerificationOptions
  BY ReceiptsAssumption DEF TypeOK, Receipt
<1>2. /\ t.sig = r.sig
      /\ t.content.kind = r.content.kind
      /\ t.content.Executor = r.content.Executor
      /\ SameRun(t.content, r.content)
  BY <1>1, ReturnedType
<1>3. SameRun(SignedPayload(r.content), r.content)
  BY <1>1, PayloadSameRun
<1>4. SameRun(SignedPayload(r.content), t.content)
  BY <1>2, <1>3 DEF SameRun
<1>5. CASE VerifyCredentialSignature(r.content, r.sig, key)
  <2>1. /\ r.sig.scheme = "credential-hmac-sha256"
        /\ <<key, SignedPayload(r.content)>> \in signed
    BY <1>5, VerifiedSignature DEF WireSignaturesWereMade
  <2>2. ASSUME RequiresAttestation(t.content.Executor),
               t.content.kind # "edge"
        PROVE  SignedPayload(r.content) = t.content
    <3>1. r.content.kind \in {"proof", "service"}
      BY <1>1, <1>2, <2>2 DEF Content, Kinds
    <3>2. RequiresAttestation(r.content.Executor)
      BY <1>2, <2>2
    <3>3. SignedPayload(r.content) = r.content
      BY <3>1, <3>2 DEF SignedPayload, ProofPayload, ServicePayload
    <3>4. t.content = r.content
      BY <1>1, <3>1, <3>2 DEF Returned, Stamp, Receipt
    <3> QED
      BY <3>3, <3>4
  <2>3. \E p \in signed : p[1] = key /\ SameRun(p[2], t.content)
    BY <1>4, <2>1
  <2> QED
    BY <2>1, <2>2, <2>3
<1>6. CASE /\ opts.AllowSoftwareFallback
           /\ r.content.kind # "proof"
           /\ r.sig = SoftwareSignature(r.content)
  BY <1>2, <1>6 DEF SoftwareSignature
<1> QED
  BY <1>1, <1>5, <1>6, AcceptedSignature

(* Every receipt that verification ever returned says what the holder of   *)
(* the host's key signed, or is a software-signed service or edge receipt  *)
(* the host opted into; and the decision behind an attested one is under   *)
(* the signature.                                                          *)
THEOREM AcceptedReceipts ==
    Spec => []AcceptedWasSigned
<1> DEFINE IInv == /\ TypeOK
                   /\ WireSignaturesWereMade
                   /\ RunsWereSigned
                   /\ DecisionsWereSigned
<1>1. Init => IInv
  BY DEF Init, TypeOK, WireSignaturesWereMade, RunsWereSigned,
         DecisionsWereSigned
<1>2. IInv /\ TypeOK' /\ [Next]_vars => IInv'
  <2> SUFFICES ASSUME IInv, TypeOK', [Next]_vars
               PROVE  IInv'
    OBVIOUS
  <2>1. ASSUME signed \subseteq signed', stored' = stored
        PROVE  (RunsWereSigned /\ DecisionsWereSigned)'
    <3>1. RunsWereSigned'
      BY <2>1 DEF RunsWereSigned
    <3>2. DecisionsWereSigned'
      BY <2>1 DEF DecisionsWereSigned
    <3> QED
      BY <3>1, <3>2
  <2>2. ASSUME NEW c \in Drafts, NEW key \in Keys \cup {NoKey},
               SignWithCredential(c, key)
        PROVE  IInv'
    <3>1. WireSignaturesWereMade'
      BY <2>2 DEF SignWithCredential, Send, WireSignaturesWereMade,
                  CredentialSignature, NoSignature
    <3> QED
      BY <2>1, <2>2, <3>1 DEF SignWithCredential
  <2>3. ASSUME NEW c \in Drafts, SignWithSoftware(c)
        PROVE  IInv'
    <3>1. WireSignaturesWereMade'
      BY <2>3 DEF SignWithSoftware, Send, WireSignaturesWereMade,
                  SoftwareSignature
    <3> QED
      BY <2>1, <2>3, <3>1 DEF SignWithSoftware
  <2>4. ASSUME NEW r \in wire, NEW c \in Drafts, Alter(r, c)
        PROVE  IInv'
    <3>1. [r EXCEPT !.content = c].sig = r.sig
      BY DEF TypeOK, Receipt
    <3>2. WireSignaturesWereMade'
      BY <2>4, <3>1 DEF Alter, Send, WireSignaturesWereMade
    <3> QED
      BY <2>1, <2>4, <3>2 DEF Alter
  <2>5. ASSUME NEW r \in wire, NEW status \in Restamps, Restamp(r, status)
        PROVE  IInv'
    <3>1. [r EXCEPT !.content.Verifier.Status = status].sig = r.sig
      BY DEF TypeOK, Receipt
    <3>2. WireSignaturesWereMade'
      BY <2>5, <3>1 DEF Restamp, Send, WireSignaturesWereMade
    <3> QED
      BY <2>1, <2>5, <3>2 DEF Restamp
  <2>6. ASSUME NEW r \in wire, NEW opts \in Options, Verify(r, opts)
        PROVE  IInv'
    <3> DEFINE t == Returned(r, opts)
    <3>1. t.sig = r.sig
      BY ReceiptsAssumption, ReturnedType DEF TypeOK
    <3>2. /\ wire' = wire \cup {t}
          /\ signed' = signed
          /\ stored' = stored \cup {[receipt |-> t, opts |-> opts]}
          /\ Accepts(r, opts)
      BY <2>6 DEF Verify, Send
    <3>3. WireSignaturesWereMade'
      BY <3>1, <3>2 DEF WireSignaturesWereMade
    <3>4. RunsWereSigned'
      <4>1. SUFFICES ASSUME NEW s \in {[receipt |-> t, opts |-> opts]}
                     PROVE  \/ \E p \in signed :
                                   /\ p[1] = s.opts.CredentialTokenProofKey
                                   /\ SameRun(p[2], s.receipt.content)
                            \/ /\ s.opts.AllowSoftwareFallback
                               /\ s.receipt.content.kind # "proof"
                               /\ s.receipt.sig.scheme
                                    \in {"software-agent", "software-router"}
        BY <3>2 DEF RunsWereSigned
      <4>2. s.receipt = t /\ s.opts = opts
        OBVIOUS
      <4>3. \/ \E p \in signed : /\ p[1] = opts.CredentialTokenProofKey
                                /\ SameRun(p[2], t.content)
            \/ /\ opts.AllowSoftwareFallback
               /\ t.content.kind # "proof"
               /\ t.sig.scheme \in {"software-agent", "software-router"}
        BY <3>2, VerifyGuarantees, Zenon
      <4> QED
        BY <4>2, <4>3
    <3>5. DecisionsWereSigned'
      <4>1. SUFFICES ASSUME NEW s \in {[receipt |-> t, opts |-> opts]}
                     PROVE  /\ RequiresAttestation(s.receipt.content.Executor)
                            /\ s.receipt.content.kind # "edge"
                            /\ s.receipt.sig.scheme = "credential-hmac-sha256"
                            => <<s.opts.CredentialTokenProofKey,
                                 s.receipt.content>> \in signed
        BY <3>2 DEF DecisionsWereSigned
      <4> QED
        BY <3>2, VerifyGuarantees
    <3> QED
      BY <3>3, <3>4, <3>5
  <2>7. CASE UNCHANGED vars
    BY <2>1, <2>7 DEF vars, WireSignaturesWereMade
  <2> QED
    BY <2>2, <2>3, <2>4, <2>5, <2>6, <2>7 DEF Next
<1>3. IInv => AcceptedWasSigned
  BY DEF AcceptedWasSigned
<1> QED
  BY <1>1, <1>2, <1>3, TypeCorrect, PTL DEF Spec

(* Every attested proof receipt that verification returned ran inside the  *)
(* life of the attestation and of the key release, and for that task.      *)
THEOREM ProofsInsideWindows == Spec => []AttestedProofInsideWindows
<1> DEFINE Inside(c) ==
        LET a == c.Verifier.Attestation
            k == c.Verifier.KeyRelease
        IN  c.kind = "proof" /\ RequiresAttestation(c.Executor)
            => /\ 0 < a.IssuedAt /\ a.IssuedAt <= c.StartedAt
               /\ c.StartedAt <= c.FinishedAt
               /\ c.FinishedAt <= k.ExpiresAt
               /\ k.ExpiresAt <= a.ExpiresAt
               /\ k.TaskID = c.TaskID
<1>1. Init => AttestedProofInsideWindows
  BY DEF Init, AttestedProofInsideWindows
<1>2. ASSUME NEW r \in Receipt, NEW opts \in Options, Accepts(r, opts)
      PROVE  Inside(Returned(r, opts).content)
  <2>1. CASE r.content.kind = "proof"
    <3> DEFINE c == r.content
               a == c.Verifier.Attestation
               k == c.Verifier.KeyRelease
    <3>1. Returned(r, opts) = r
      BY <2>1 DEF Returned
    <3>2. ValidateProofReceipt(c, r.sig)
      BY <1>2, <2>1 DEF Accepts, VerifyServiceReceipt,
                        VerifyEdgeRequestReceipt, VerifyProofReceipt
    <3>3. ASSUME RequiresAttestation(c.Executor)
          PROVE  /\ 0 # a.IssuedAt /\ a.IssuedAt <= c.StartedAt
                 /\ c.StartedAt <= c.FinishedAt
                 /\ c.FinishedAt <= k.ExpiresAt
                 /\ k.ExpiresAt <= a.ExpiresAt
                 /\ k.TaskID = c.TaskID
      BY <3>2, <3>3 DEF ValidateProofReceipt, ValidateAttestedProofBinding,
                        ValidTimes, WindowsNested
    <3>4. a.IssuedAt \in Nat
      BY DEF Receipt, Content, VerifierResult, AttestationDecision
    <3> QED
      BY <3>1, <3>3, <3>4
  <2>2. CASE r.content.kind # "proof"
    <3>1. Returned(r, opts).content.kind # "proof"
      BY <2>2, ReceiptsAssumption, ReturnedType
    <3> QED
      BY <3>1
  <2> QED
    BY <2>1, <2>2
<1>3. TypeOK /\ AttestedProofInsideWindows /\ [Next]_vars
      => AttestedProofInsideWindows'
  <2> SUFFICES ASSUME TypeOK, AttestedProofInsideWindows, [Next]_vars
               PROVE  AttestedProofInsideWindows'
    OBVIOUS
  <2>1. ASSUME NEW r \in wire, NEW opts \in Options, Verify(r, opts)
        PROVE  AttestedProofInsideWindows'
    <3>1. stored' = stored \cup {[receipt |-> Returned(r, opts),
                                  opts |-> opts]}
      BY <2>1 DEF Verify
    <3>2. Inside(Returned(r, opts).content)
      BY <1>2, <2>1 DEF Verify, TypeOK
    <3> QED
      BY <3>1, <3>2 DEF AttestedProofInsideWindows
  <2>2. CASE UNCHANGED stored
    BY <2>2 DEF AttestedProofInsideWindows
  <2> QED
    BY <2>1, <2>2 DEF Next, SignWithCredential, SignWithSoftware, Alter,
                      Restamp, vars
<1> QED
  BY <1>1, <1>3, TypeCorrect, PTL DEF Spec

-----------------------------------------------------------------------------
(* Verifying again.                                                        *)

(* Stamping a content that was stamped changes nothing, and leaves what a  *)
(* signature of a service or an edge receipt covers alone.                 *)
LEMMA StampAgain ==
    ASSUME NEW c \in Content, NEW opts \in ReceiptVerificationOptions,
           NEW d, d = Stamp(c, opts)
    PROVE  /\ Stamp(d, opts) = d
           /\ d.kind = c.kind /\ d.Executor = c.Executor
           /\ c.kind # "proof" => SignedPayload(d) = SignedPayload(c)
           /\ ~(c.kind = "service" /\ RequiresAttestation(c.Executor))
                 => d.Verifier = receiptVerifierResult(opts)
<1>1. d.kind = c.kind /\ d.Executor = c.Executor
  BY StampType
<1>2. CASE c.kind = "service" /\ RequiresAttestation(c.Executor)
  BY <1>2 DEF Stamp
<1>3. CASE ~(c.kind = "service" /\ RequiresAttestation(c.Executor))
  <2>1. PICK v : v = receiptVerifierResult(opts)
    OBVIOUS
  <2>2. d = [c EXCEPT !.Verifier = v]
    BY <1>3, <2>1 DEF Stamp
  <2>3. d.Verifier = v
    BY <2>2 DEF Content
  <2>4. Stamp(d, opts) = [d EXCEPT !.Verifier = v]
    BY <1>1, <1>3, <2>1 DEF Stamp
  <2>5. [d EXCEPT !.Verifier = v] = d
    BY <2>2 DEF Content
  <2>6. ASSUME c.kind # "proof" PROVE SignedPayload(d) = SignedPayload(c)
    <3>1. c.kind \in {"service", "edge"}
      BY <2>6 DEF Content, Kinds
    <3>2. [d EXCEPT !.Verifier = NoVerifierResult]
            = [c EXCEPT !.Verifier = NoVerifierResult]
      BY <2>2 DEF Content
    <3>3. CASE c.kind = "service"
      BY <1>1, <1>3, <3>2, <3>3 DEF SignedPayload, ServicePayload
    <3>4. CASE c.kind = "edge"
      BY <1>1, <3>2, <3>4 DEF SignedPayload, EdgePayload
    <3> QED
      BY <3>1, <3>3, <3>4
  <2> QED
    BY <1>1, <2>1, <2>3, <2>4, <2>5, <2>6
<1> QED
  BY <1>2, <1>3

(* What a host verified, it would verify again and return unchanged; and a *)
(* receipt whose result the host writes has the result of this host.       *)
LEMMA VerifyAgain ==
    ASSUME NEW r \in Receipt, NEW opts \in ReceiptVerificationOptions,
           Accepts(r, opts), NEW t, t = Returned(r, opts)
    PROVE  /\ Accepts(t, opts)
           /\ Returned(t, opts) = t
           /\ \/ t.content.kind = "edge"
              \/ t.content.kind = "service" /\ ~RequiresAttestation(t.content.Executor)
              => t.content.Verifier = receiptVerifierResult(opts)
<1>1. r.content \in Content
  BY DEF Receipt
<1>2. CASE r.content.kind = "proof"
  <2>1. t = r
    BY <1>2 DEF Returned
  <2> QED
    BY <1>2, <2>1
<1>3. CASE r.content.kind # "proof"
  <2>1. PICK c, d : c = r.content /\ d = Stamp(c, opts)
    OBVIOUS
  <2>2. t.content = d /\ t.sig = r.sig /\ t = [r EXCEPT !.content = d]
    BY <1>3, <2>1 DEF Returned, Receipt
  <2>3. /\ Stamp(d, opts) = d
        /\ d.kind = c.kind /\ d.Executor = c.Executor
        /\ SignedPayload(d) = SignedPayload(c)
        /\ ~(c.kind = "service" /\ RequiresAttestation(c.Executor))
              => d.Verifier = receiptVerifierResult(opts)
    BY <1>1, <1>3, <2>1, StampAgain
  <2>4. SignatureValid(d, r.sig, opts) <=> SignatureValid(c, r.sig, opts)
    <3>1. SoftwareSignature(d) = SoftwareSignature(c)
      BY <2>3 DEF SoftwareSignature
    <3>2. CredentialSignature(d, opts.CredentialTokenProofKey)
            = CredentialSignature(c, opts.CredentialTokenProofKey)
      BY <2>3 DEF CredentialSignature
    <3> QED
      BY <3>1, <3>2, Zenon DEF SignatureValid, VerifyCredentialSignature
  <2>5. VerifyServiceReceipt(c, r.sig, opts) \/ VerifyEdgeRequestReceipt(c, r.sig, opts)
    BY <1>3, <2>1 DEF Accepts, VerifyProofReceipt
  <2>6. VerifyServiceReceipt(d, r.sig, opts) \/ VerifyEdgeRequestReceipt(d, r.sig, opts)
    BY <2>1, <2>3, <2>4, <2>5, Zenon DEF VerifyServiceReceipt, VerifyEdgeRequestReceipt
  <2>7. Accepts(t, opts)
    BY <2>2, <2>6, Zenon DEF Accepts
  <2>8. Returned(t, opts) = t
    <3>1. t.content.kind # "proof"
      BY <1>3, <2>1, <2>2, <2>3
    <3>2. Returned(t, opts) = [t EXCEPT !.content = d]
      BY <2>2, <2>3, <3>1 DEF Returned
    <3> QED
      BY <2>2, <3>2 DEF Receipt
  <2>9. \/ d.kind = "edge"
        \/ d.kind = "service" /\ ~RequiresAttestation(d.Executor)
        => d.Verifier = receiptVerifierResult(opts)
    BY <2>3
  <2> QED
    BY <2>2, <2>7, <2>8, <2>9
<1> QED
  BY <1>2, <1>3

(* A host that verifies what it kept gets the same receipt again, however  *)
(* it was stamped, altered or passed on before.                            *)
THEOREM ReverifyIsStable == Spec => []ReverifyStable
<1>1. Init => ReverifyStable
  BY DEF Init, ReverifyStable
<1>2. TypeOK /\ ReverifyStable /\ [Next]_vars => ReverifyStable'
  <2> SUFFICES ASSUME TypeOK, ReverifyStable, [Next]_vars
               PROVE  ReverifyStable'
    OBVIOUS
  <2>1. ASSUME NEW r \in wire, NEW opts \in Options, Verify(r, opts)
        PROVE  ReverifyStable'
    <3>1. PICK t : t = Returned(r, opts)
      OBVIOUS
    <3>2. stored' = stored \cup {[receipt |-> t, opts |-> opts]} /\ Accepts(r, opts)
      BY <2>1, <3>1 DEF Verify
    <3>3. r \in Receipt /\ opts \in ReceiptVerificationOptions
      BY ReceiptsAssumption DEF TypeOK
    <3>4. /\ Accepts(t, opts)
          /\ Returned(t, opts) = t
          /\ \/ t.content.kind = "edge"
             \/ t.content.kind = "service" /\ ~RequiresAttestation(t.content.Executor)
             => t.content.Verifier = receiptVerifierResult(opts)
      BY <3>1, <3>2, <3>3, VerifyAgain
    <3> QED
      BY <3>2, <3>4 DEF ReverifyStable
  <2>2. CASE UNCHANGED stored
    BY <2>2 DEF ReverifyStable
  <2> QED
    BY <2>1, <2>2 DEF Next, SignWithCredential, SignWithSoftware, Alter,
                      Restamp, vars
<1> QED
  BY <1>1, <1>2, TypeCorrect, PTL DEF Spec

-----------------------------------------------------------------------------
(* Induction up to a bound, and the arithmetic of 64 bits.                 *)

(* A nonempty set of natural numbers has a least element.                  *)
LEMMA LeastNat ==
    ASSUME NEW S \in SUBSET Nat, S # {}
    PROVE  \E m \in S : \A k \in S : m <= k
<1> DEFINE R == OpToRel(<, Nat)
<1>1. IsWellFoundedOn(R, Nat)
  BY NatLessThanWellFounded
<1>2. \A x, y \in Nat : <<x, y>> \in R <=> x < y
  BY DEF OpToRel
<1> HIDE DEF R
<1>3. \E x \in S : \A y \in S : ~ (<<y, x>> \in R)
  BY <1>1, WFMin
<1>4. PICK m \in S : \A y \in S : ~ (<<y, m>> \in R)
  BY <1>3
<1>5. \A k \in S : m <= k
  <2> SUFFICES ASSUME NEW k \in S
               PROVE  m <= k
    OBVIOUS
  <2>1. m \in Nat /\ k \in Nat
    OBVIOUS
  <2>2. ~ (k < m)
    BY <1>2, <1>4, <2>1
  <2> QED
    BY <2>1, <2>2
<1> QED
  BY <1>5

(* Induction up to a bound, over the set of numbers a fact holds for.      *)
LEMMA UpTo ==
    ASSUME NEW n \in Nat, NEW S, 0 \in S,
           \A k \in 1 .. n : k - 1 \in S => k \in S
    PROVE  \A k \in 0 .. n : k \in S
<1> DEFINE Bad == {k \in 0 .. n : k \notin S}
<1> SUFFICES ASSUME Bad # {}
             PROVE  FALSE
  OBVIOUS
<1>1. PICK m \in Bad : \A k \in Bad : m <= k
  <2>1. Bad \in SUBSET Nat
    OBVIOUS
  <2> HIDE DEF Bad
  <2> QED
    BY <2>1, LeastNat
<1>2. m \in 1 .. n /\ m - 1 \in 0 .. n /\ m - 1 \notin Bad
  BY <1>1
<1> QED
  BY <1>1, <1>2

(* A wrapped value is a signed integer of the machine's width.             *)
LEMMA WrapRange ==
    ASSUME NEW n \in Int
    PROVE  Wrap(n) \in -Half .. Half - 1 /\ Wrap(n) \in Int
<1>1. Half \in Nat \ {0}
  BY StreamAssumption DEF StreamAssumption
<1> DEFINE q == 2 * Half
           x == n + Half
<1>2. q \in Nat /\ q > 0 /\ x \in Int /\ q = 2 * Half
  BY <1>1
<1>3. x % q \in 0 .. q - 1
  <2> HIDE DEF q, x
  <2> QED BY <1>2
<1> QED
  <2> HIDE DEF q
  <2> QED BY <1>1, <1>2, <1>3 DEF Wrap

(* Wrapping leaves alone what the machine's width can hold.                *)
LEMMA WrapSmall ==
    ASSUME NEW n \in -Half .. Half - 1
    PROVE  Wrap(n) = n
<1>1. Half \in Nat \ {0}
  BY StreamAssumption DEF StreamAssumption
<1> DEFINE q == 2 * Half
           x == n + Half
<1>2. q \in Nat /\ q > 0 /\ x \in Int /\ 0 <= x /\ x < q
  BY <1>1
<1>3. x % q = x
  <2> HIDE DEF q, x
  <2> QED BY <1>2
<1> QED
   BY <1>1, <1>2, <1>3 DEF Wrap

(* Quotient and remainder.                                                 *)
LEMMA Remainder ==
    ASSUME NEW q \in Nat \ {0}, NEW x \in Int
    PROVE  (x % q) \in 0 .. q - 1 /\ x \div q \in Int /\ x = q * (x \div q) + (x % q)
  OBVIOUS

(* There is one remainder.                                                 *)
LEMMA RemainderIs ==
    ASSUME NEW q \in Nat \ {0}, NEW x \in Int, NEW k \in Int, NEW r \in 0 .. q - 1,
           x = q * k + r
    PROVE  (x % q) = r
  OBVIOUS

(* A remainder may be taken before a sum or after it.                      *)
LEMMA RemainderAdds ==
    ASSUME NEW q \in Nat \ {0}, NEW x \in Int, NEW y \in Int
    PROVE  ((x % q) + y) % q = (x + y) % q
<1> DEFINE a == x \div q
           r == x % q
           b == (r + y) \div q
           s == (r + y) % q
<1>1. r \in 0 .. q - 1 /\ a \in Int /\ x = q * a + r
  BY Remainder
<1>2. r + y \in Int
  BY <1>1
<1>3. s \in 0 .. q - 1 /\ b \in Int /\ r + y = q * b + s
  BY <1>2, Remainder
<1> HIDE DEF a, r, b, s
<1>4. x + y = q * (a + b) + s
  <2>1. q * (a + b) = q * a + q * b
    BY <1>1, <1>3
  <2> QED
    BY <1>1, <1>3, <2>1
<1>5. x + y \in Int /\ a + b \in Int
  BY <1>1, <1>3
<1>6. ((x + y) % q) = s
  BY <1>3, <1>4, <1>5, RemainderIs
<1> QED
  BY <1>6 DEF s, r

(* Wrapping at every addition is wrapping once.                            *)
LEMMA WrapAdds ==
    ASSUME NEW x \in Int, NEW y \in Int
    PROVE  /\ Wrap(Wrap(x) + y) = Wrap(x + y)
           /\ Wrap(y + Wrap(x)) = Wrap(x + y)
<1> DEFINE q == 2 * Half
           r == (x + Half) % q
<1>1. q \in Nat \ {0} /\ Half \in Int /\ x + Half \in Int
  BY StreamAssumption DEF StreamAssumption
<1>2. r \in Int
  <2> HIDE DEF q
  <2>1. r \in 0 .. q - 1
    BY <1>1, Remainder
  <2> QED
    BY <1>1, <2>1
<1>3. ((r + y) % q) = (((x + Half) + y) % q)
  <2> HIDE DEF q
  <2> QED
    BY <1>1, RemainderAdds
<1>4. (r - Half + y) + Half = r + y /\ (x + y) + Half = (x + Half) + y
      /\ y + (r - Half) = r - Half + y
  <2> HIDE DEF r, q
  <2> QED
    BY <1>1, <1>2
<1>5. Wrap(x) = r - Half
  BY DEF Wrap
<1>6. Wrap(Wrap(x) + y) = ((r + y) % q) - Half
  <2>1. Wrap(r - Half + y) = (((r - Half + y) + Half) % q) - Half
    BY DEF Wrap
  <2> HIDE DEF r, q
  <2> QED
    BY <1>4, <1>5, <2>1
<1>7. Wrap(x + y) = (((x + Half) + y) % q) - Half
  <2>1. Wrap(x + y) = (((x + y) + Half) % q) - Half
    BY DEF Wrap
  <2> HIDE DEF r, q
  <2> QED
    BY <1>4, <2>1
<1> HIDE DEF r, q
<1>8. y + Wrap(x) = Wrap(x) + y
  BY <1>4, <1>5
<1> QED
  BY <1>3, <1>6, <1>7, <1>8

-----------------------------------------------------------------------------
(* The manifest a stream's receipt goes with: StreamProof for every bound  *)
(* and every segment, receipt and nonce.                                   *)

(* The segments a manifest can hold.                                       *)
Segment == {[Index |-> index, DurationMS |-> s.DurationMS, Bytes |-> s.Bytes,
             SHA256 |-> s.SHA256, Provenance |-> s.Provenance] :
                index \in 1 .. MaxIndex, s \in SegmentDrafts}

(* Durations and byte counts are integers, indices those the worker        *)
(* numbers.                                                                *)
LEMMA DraftTypes ==
    /\ Milli \in Nat \ {0}
    /\ \A s \in Segment : s.DurationMS \in Int /\ s.Bytes \in Int /\ s.Index \in 1 .. MaxIndex
  BY StreamAssumption DEF StreamAssumption, Segment

(* What the worker's own steps let a manifest hold.                        *)
Collected(m) ==
    /\ m.StartedAt \in StartTimes
    /\ m.Segments \in Seq(Segment) /\ Len(m.Segments) <= MaxSegments
    /\ m.DeliveryReceipts \in Seq(ReceiptDrafts) /\ Len(m.DeliveryReceipts) <= MaxReceipts

(* The strengthening: a manifest holds what was streamed and acknowledged, *)
(* one that was accepted passed verification then and does not change, and *)
(* the registry's instants are the clock's.                                *)
StreamIInv ==
    /\ next \in 1 .. MaxIndex + 1
    /\ {"StartedAt", "Segments", "LivenessNonces", "DeliveryReceipts",
         "Discontinuities"} \subseteq DOMAIN manifest
    /\ Collected(manifest)
    /\ clock \in Int
    /\ \A i \in issued : i.IssuedAt \in Int
    /\ \A i, j \in issued : i.Nonce = j.Nonce => i = j
    /\ \A a \in accepted :
          /\ \A i \in a.registry : i.IssuedAt \in Int
          /\ Collected(a.manifest)
          /\ VerifyManifest(a.manifest, a.registry)
          /\ a.billed = VerifiedDeliveredBytes(a.manifest)

(* Every step keeps the strengthening: Stream adds a segment with the      *)
(* index it was given, Deliver a receipt, and VerifyStream accepts what it *)
(* has just verified.                                                      *)
LEMMA StreamStep ==
    ASSUME StreamIInv, [StreamNext]_streamVars
    PROVE  StreamIInv'
<1> USE DEF StreamIInv, Collected
<1>1. ASSUME UNCHANGED streamVars PROVE StreamIInv'
  BY <1>1 DEF streamVars
<1>a. MaxIndex \in Nat /\ MaxSegments \in Nat /\ MaxReceipts \in Nat
  BY StreamAssumption DEF StreamAssumption
<1>2. ASSUME NEW s \in SegmentDrafts, Stream(s) PROVE StreamIInv'
  <2> DEFINE entry == [Index |-> next, DurationMS |-> s.DurationMS, Bytes |-> s.Bytes,
                       SHA256 |-> s.SHA256, Provenance |-> s.Provenance]
  <2>1. /\ next \in 1 .. MaxIndex /\ next' = next + 1
        /\ Len(manifest.Segments) < MaxSegments /\ UNCHANGED <<issued, accepted>>
        /\ clock' \in Int
    BY <1>2, <1>a, StreamAssumption DEF Stream, StreamAssumption
  <2>2. entry \in Segment
    BY <2>1 DEF Segment
  <2>3. manifest' = [manifest EXCEPT !.Segments = Append(@, entry)]
    BY <1>2 DEF Stream
  <2>4. /\ DOMAIN manifest' = DOMAIN manifest
        /\ manifest'.Segments = Append(manifest.Segments, entry)
        /\ manifest'.StartedAt = manifest.StartedAt
        /\ manifest'.DeliveryReceipts = manifest.DeliveryReceipts
    BY <2>3
  <2>5. /\ Append(manifest.Segments, entry) \in Seq(Segment)
        /\ Len(Append(manifest.Segments, entry)) <= MaxSegments
    BY <1>a, <2>1, <2>2
  <2> QED
    BY <1>a, <2>1, <2>4, <2>5
<1>3. ASSUME Drop \/ Restart PROVE StreamIInv'
  BY <1>3, <1>a DEF Drop, Restart
<1>4. ASSUME NEW prev, NEW resume, MarkGap(prev, resume) PROVE StreamIInv'
  BY <1>4 DEF MarkGap
<1>5. ASSUME NEW n, IssueNonce(n) PROVE StreamIInv'
  BY <1>5 DEF IssueNonce
<1>6. ASSUME NEW n, NEW index, Reflect(n, index) PROVE StreamIInv'
  BY <1>6 DEF Reflect
<1>7. ASSUME NEW r \in ReceiptDrafts, Deliver(r) PROVE StreamIInv'
  <2>1. /\ manifest' = [manifest EXCEPT !.DeliveryReceipts = Append(@, r)]
        /\ Len(manifest.DeliveryReceipts) < MaxReceipts
        /\ UNCHANGED <<clock, next, issued, accepted>>
    BY <1>7 DEF Deliver
  <2>2. /\ Append(manifest.DeliveryReceipts, r) \in Seq(ReceiptDrafts)
        /\ Len(Append(manifest.DeliveryReceipts, r)) <= MaxReceipts
    BY <1>a, <2>1
  <2> QED
    BY <2>1, <2>2
<1>8. ASSUME VerifyStream PROVE StreamIInv'
  BY <1>8 DEF VerifyStream
<1> QED
  BY <1>1, <1>2, <1>3, <1>4, <1>5, <1>6, <1>7, <1>8 DEF StreamNext

(* An empty manifest satisfies the strengthening.                          *)
LEMMA StreamStarts == StreamInit => StreamIInv
<1> SUFFICES ASSUME StreamInit PROVE StreamIInv
  OBVIOUS
<1>1. /\ MaxIndex \in Nat /\ MaxSegments \in Nat /\ MaxReceipts \in Nat /\ Now \in Nat
  BY StreamAssumption DEF StreamAssumption
<1>2. /\ <<>> \in Seq(Segment) /\ Len(<<>>) = 0 /\ <<>> \in Seq(ReceiptDrafts)
  OBVIOUS
<1> QED
  BY <1>1, <1>2 DEF StreamInit, StreamIInv, Collected

(* In every reachable state what the host accepted is what it verified     *)
(* against the registry of that moment, with the bill it computed then.    *)
THEOREM StreamInvariant == StreamSpec => []StreamIInv
<1>1. StreamInit => StreamIInv
  BY StreamStarts
<1>2. StreamIInv /\ [StreamNext]_streamVars => StreamIInv'
  BY StreamStep
<1> QED
  BY <1>1, <1>2, PTL DEF StreamSpec

-----------------------------------------------------------------------------
(* Continuity.                                                             *)

(* Values that increase from one position to the next increase throughout. *)
LEMMA IncreasesAll ==
    ASSUME NEW n \in Nat, NEW f, \A k \in 1 .. n : f[k] \in Int,
           \A k \in 2 .. n : f[k - 1] < f[k],
           NEW p \in 1 .. n, NEW q \in 1 .. n, p < q
    PROVE  f[p] < f[q]
<1> DEFINE Bad == {k \in 1 .. n : p < k /\ ~ (f[p] < f[k])}
<1> SUFFICES ASSUME Bad # {}
             PROVE  FALSE
  OBVIOUS
<1>1. Bad \in SUBSET Nat
  OBVIOUS
<1>2. PICK m \in Bad : \A k \in Bad : m <= k
  <2> HIDE DEF Bad
  <2> QED
    BY <1>1, LeastNat
<1>3. m \in 2 .. n /\ m - 1 \in 1 .. n /\ p <= m - 1
  BY <1>2
<1>4. p = m - 1 \/ f[p] < f[m - 1]
  BY <1>2, <1>3
<1>5. f[m - 1] < f[m] /\ f[p] \in Int /\ f[m - 1] \in Int /\ f[m] \in Int
  BY <1>3
<1>6. f[p] < f[m]
  BY <1>4, <1>5
<1> QED
  BY <1>2, <1>6

(* Indices are numbers and increase from the first segment to the last.    *)
LEMMA IndexType ==
    ASSUME NEW m, Collected(m)
    PROVE  \A k \in 1 .. Len(m.Segments) : m.Segments[k].Index \in Int
<1> TAKE k \in 1 .. Len(m.Segments)
<1>1. m.Segments[k] \in Segment
  BY DEF Collected
<1> QED
  BY <1>1, DraftTypes, StreamAssumption DEF StreamAssumption

(* The index of every position.                                            *)
Indexed(m) == [k \in 1 .. Len(m.Segments) |-> m.Segments[k].Index]

(* In a continuous manifest a later segment has a greater index, neighbour *)
(* or not.                                                                 *)
LEMMA IndicesIncrease ==
    ASSUME NEW m, Collected(m), Continuous(m)
    PROVE  \A k, l \in 1 .. Len(m.Segments) : k < l => Indexed(m)[k] < Indexed(m)[l]
<1> DEFINE n == Len(m.Segments)
           f == Indexed(m)
<1>1. n \in Nat
  BY DEF Collected
<1>2. \A k \in 1 .. n : f[k] = m.Segments[k].Index /\ f[k] \in Int
  BY IndexType DEF Indexed
<1>3. \A k \in 2 .. n : f[k - 1] < f[k]
  <2> SUFFICES ASSUME NEW k \in 2 .. n
               PROVE  f[k - 1] < f[k]
    OBVIOUS
  <2>1. k \in 1 .. n /\ k - 1 \in 1 .. n
    BY <1>1
  <2>2. m.Segments[k - 1].Index < m.Segments[k].Index
    BY DEF Continuous
  <2> HIDE DEF f, n
  <2> QED
    BY <1>2, <2>1, <2>2
<1> HIDE DEF n, f
<1>4. \A k, l \in 1 .. n : k < l => f[k] < f[l]
  <2> SUFFICES ASSUME NEW k \in 1 .. n, NEW l \in 1 .. n, k < l
               PROVE  f[k] < f[l]
    OBVIOUS
  <2> QED
    BY <1>1, <1>2, <1>3, IncreasesAll
<1> QED
  BY <1>4 DEF n, f

(* A value between the first and the last, and none of them, lies between  *)
(* two neighbours.                                                         *)
LEMMA InBetween ==
    ASSUME NEW n \in Nat, NEW f, \A k \in 1 .. n : f[k] \in Int,
           n # 0, NEW i \in Int, f[1] < i, i < f[n],
           \A k \in 1 .. n : f[k] # i
    PROVE  \E k \in 2 .. n : f[k - 1] < i /\ i < f[k]
<1> DEFINE Above == {k \in 1 .. n : i < f[k]}
<1>1. Above \in SUBSET Nat /\ n \in Above
  OBVIOUS
<1>2. PICK m \in Above : \A k \in Above : m <= k
  <2> HIDE DEF Above
  <2> QED
    BY <1>1, LeastNat
<1>3. f[1] \in Int
  OBVIOUS
<1>4. m # 1
  BY <1>2, <1>3
<1>5. m \in 2 .. n /\ m - 1 \in 1 .. n /\ m - 1 \notin Above
  BY <1>2, <1>4
<1>6. f[m - 1] < i
  BY <1>5
<1> QED
  BY <1>2, <1>5, <1>6

(* The least and the greatest member of a set of integers.                 *)
LEMMA Extremes ==
    ASSUME NEW S \in SUBSET Int, NEW lo \in S, NEW hi \in S,
           \A x \in S : lo <= x /\ x <= hi
    PROVE  Min(S) = lo /\ Max(S) = hi
<1>1. \A x \in S : (\A y \in S : x <= y) <=> x = lo
  OBVIOUS
<1>2. \A x \in S : (\A y \in S : x >= y) <=> x = hi
  OBVIOUS
<1>3. Min(S) = lo
  BY <1>1 DEF Min
<1>4. Max(S) = hi
  BY <1>2 DEF Max
<1> QED
  BY <1>3, <1>4

(* Where the indices increase, the neighbours of a missing index are the   *)
(* ends of the marker that Continuous found for them.                      *)
LEMMA Accounted ==
    ASSUME StreamIInv
    PROVE  ContinuityAccounted
<1> SUFFICES ASSUME NEW a \in accepted
             PROVE  LET m == a.manifest
                        Indices == {m.Segments[pos].Index : pos \in Positions(m)}
                    IN  /\ Cardinality(Indices) = Len(m.Segments)
                        /\ \A i \in (Min(Indices) .. Max(Indices)) \ Indices :
                              \E d \in m.Discontinuities :
                                  /\ d.PrevSeq < i /\ i < d.ResumeSeq
                                  /\ (d.PrevSeq .. d.ResumeSeq) \cap Indices
                                     = {d.PrevSeq, d.ResumeSeq}
  BY DEF ContinuityAccounted
<1> DEFINE m == a.manifest
           n == Len(m.Segments)
           f == [k \in 1 .. n |-> m.Segments[k].Index]
           Indices == {m.Segments[pos].Index : pos \in Positions(m)}
<1>1. /\ n \in Nat /\ n # 0 /\ DOMAIN m.Segments = 1 .. n
      /\ \A k \in 1 .. n : m.Segments[k] \in Segment
  <2>1. m.Segments \in Seq(Segment) /\ m.Segments # <<>>
    BY DEF StreamIInv, Collected, VerifyManifest
  <2> HIDE DEF m
  <2> QED
    BY <2>1
<1>2. \A k \in 1 .. n : f[k] \in Nat
  BY <1>1, StreamAssumption DEF Segment, StreamAssumption
<1>3. Indices = {f[k] : k \in 1 .. n}
  BY <1>1 DEF Positions
<1>4. \A k \in 2 .. n :
          /\ f[k - 1] < f[k]
          /\ f[k] = f[k - 1] + 1
             \/ \E d \in m.Discontinuities : d.PrevSeq = f[k - 1] /\ d.ResumeSeq = f[k]
  <2> SUFFICES ASSUME NEW k \in 2 .. n
               PROVE  /\ f[k - 1] < f[k]
                      /\ f[k] = f[k - 1] + 1
                         \/ \E d \in m.Discontinuities :
                               d.PrevSeq = f[k - 1] /\ d.ResumeSeq = f[k]
    OBVIOUS
  <2>1. k - 1 \in 1 .. n /\ k \in 1 .. n
    BY <1>1
  <2>2. f[k - 1] = m.Segments[k - 1].Index /\ f[k] = m.Segments[k].Index
    BY <2>1
  <2>3. Continuous(m)
    BY DEF StreamIInv, VerifyManifest
  <2> QED
    BY <2>2, <2>3 DEF Continuous, gapCovered
<1> HIDE DEF f
<1>5. \A p, q \in 1 .. n : p < q => f[p] < f[q]
  <2>1. /\ \A k \in 1 .. n : f[k] \in Int
        /\ \A k \in 2 .. n : f[k - 1] < f[k]
    BY <1>2, <1>4
  <2> HIDE DEF n
  <2> QED
    BY <1>1, <2>1, IncreasesAll
<1> HIDE DEF n, Indices, m
<1>6. Cardinality(Indices) = n
  <2>1. f \in Bijection(1 .. n, Indices)
    <3>1. \A p, q \in 1 .. n : f[p] = f[q] => p = q
      BY <1>1, <1>2, <1>5
    <3>2. f \in [1 .. n -> Indices] /\ \A x \in Indices : \E k \in 1 .. n : f[k] = x
      BY <1>3 DEF f
    <3> QED
      BY <3>1, <3>2 DEF Bijection, Injection, Surjection, IsInjective
  <2>2. ExistsBijection(1 .. n, Indices)
    BY <2>1 DEF ExistsBijection
  <2>3. IsFiniteSet(1 .. n) /\ Cardinality(1 .. n) = n
    BY <1>1, FS_Interval
  <2> QED
    BY <2>2, <2>3, FS_Bijection
<1>7. Min(Indices) = f[1] /\ Max(Indices) = f[n]
  <2>1. 1 \in 1 .. n /\ n \in 1 .. n
    BY <1>1
  <2>2. f[1] \in Indices /\ f[n] \in Indices /\ Indices \in SUBSET Int
    BY <1>2, <1>3, <2>1
  <2>3. \A k \in 1 .. n : f[1] <= f[k] /\ f[k] <= f[n]
    BY <1>1, <1>2, <1>5, <2>1
  <2>4. \A x \in Indices : f[1] <= x /\ x <= f[n]
    BY <1>3, <2>3
  <2> QED
    BY <2>2, <2>4, Extremes
<1>8. ASSUME NEW i \in (f[1] .. f[n]) \ Indices
      PROVE  \E d \in m.Discontinuities :
                /\ d.PrevSeq < i /\ i < d.ResumeSeq
                /\ (d.PrevSeq .. d.ResumeSeq) \cap Indices = {d.PrevSeq, d.ResumeSeq}
  <2>1. /\ 1 \in 1 .. n /\ n \in 1 .. n
        /\ \A k \in 1 .. n : f[k] \in Int /\ f[k] # i
    BY <1>1, <1>2, <1>3
  <2>2. i \in Int /\ f[1] < i /\ i < f[n]
    BY <2>1
  <2>3. PICK k \in 2 .. n : f[k - 1] < i /\ i < f[k]
    BY <1>1, <2>1, <2>2, InBetween
  <2>4. k - 1 \in 1 .. n /\ k \in 1 .. n
    BY <1>1
  <2>5. PICK d \in m.Discontinuities : d.PrevSeq = f[k - 1] /\ d.ResumeSeq = f[k]
    BY <1>4, <2>1, <2>2, <2>3, <2>4
  <2>6. \A p \in 1 .. n : f[k - 1] <= f[p] /\ f[p] <= f[k] => f[p] \in {f[k - 1], f[k]}
    <3> SUFFICES ASSUME NEW p \in 1 .. n, f[k - 1] <= f[p], f[p] <= f[k]
                 PROVE  f[p] \in {f[k - 1], f[k]}
      OBVIOUS
    <3>1. ~ (p < k - 1) /\ ~ (k < p)
      BY <1>5, <2>1, <2>4
    <3>2. p = k - 1 \/ p = k
      BY <1>1, <3>1
    <3> QED
      BY <3>2
  <2>7. (f[k - 1] .. f[k]) \cap Indices = {f[k - 1], f[k]}
    <3>1. f[k - 1] \in Indices /\ f[k] \in Indices
      BY <1>3, <2>4
    <3>2. f[k - 1] \in f[k - 1] .. f[k] /\ f[k] \in f[k - 1] .. f[k]
      BY <1>4, <2>1, <2>4
    <3>3. \A x \in (f[k - 1] .. f[k]) \cap Indices : x \in {f[k - 1], f[k]}
      BY <1>3, <2>1, <2>6
    <3> QED
      BY <3>1, <3>2, <3>3
  <2> QED
    BY <2>3, <2>5, <2>7
<1> QED
  BY <1>6, <1>7, <1>8 DEF m, n, Indices

(* In every manifest a host accepted, each index from the first to the     *)
(* last is that of one segment or lies in a marked gap with nothing        *)
(* streamed in it, whatever was dropped, replayed or marked wrongly:       *)
(* VerifyManifest compares neighbours only, and that is enough.            *)
THEOREM StreamContinuous == StreamSpec => []ContinuityAccounted
<1>1. StreamIInv => ContinuityAccounted
  BY Accounted
<1> QED
  BY <1>1, StreamInvariant, PTL

-----------------------------------------------------------------------------
(* The folds of cumDuration and VerifiedDeliveredBytes as running totals.  *)

(* The greatest of the positions up to k is k.                             *)
LEMMA MaxOf ==
    ASSUME NEW k \in Nat, NEW s \in SUBSET (1 .. k), k \in s
    PROVE  Max(s) = k
<1>1. \A x \in s : (\A y \in s : x >= y) <=> x = k
  OBVIOUS
<1> QED
  BY <1>1 DEF Max

(* A function of sets of positions that takes in the greatest one last.    *)
FoldedTo(g, k, G) ==
    /\ g[{}] = 0
    /\ \A j \in 1 .. k : \A s \in SUBSET (1 .. j) :
          j \in s => g[s] = G[<<j, g[s \ {j}]>>]

(* There is one: that of the positions up to k extends to those up to k + 1. *)
LEMMA FoldExists ==
    ASSUME NEW n \in Nat, NEW G \in [(1 .. n) \X Int -> Int]
    PROVE  \E g \in [SUBSET (1 .. n) -> Int] : FoldedTo(g, n, G)
<1> DEFINE Exists(k) == \E g \in [SUBSET (1 .. k) -> Int] : FoldedTo(g, k, G)
<1>1. Exists(0)
  <2>1. [s \in SUBSET (1 .. 0) |-> 0] \in [SUBSET (1 .. 0) -> Int]
    OBVIOUS
  <2>2. FoldedTo([s \in SUBSET (1 .. 0) |-> 0], 0, G)
    BY DEF FoldedTo
  <2> QED
    BY <2>1, <2>2
<1>2. ASSUME NEW m \in 1 .. n, Exists(m - 1)
      PROVE  Exists(m)
  <2>1. PICK g \in [SUBSET (1 .. m - 1) -> Int] : FoldedTo(g, m - 1, G)
    BY <1>2
  <2> DEFINE e == [s \in SUBSET (1 .. m) |->
                      IF m \in s THEN G[<<m, g[s \ {m}]>>] ELSE g[s]]
  <2>2. \A s \in SUBSET (1 .. m) :
            /\ s \ {m} \in SUBSET (1 .. m - 1)
            /\ m \notin s => s \in SUBSET (1 .. m - 1)
    OBVIOUS
  <2>3. \A s \in SUBSET (1 .. m) :
            e[s] = IF m \in s THEN G[<<m, g[s \ {m}]>>] ELSE g[s]
    OBVIOUS
  <2>4. e \in [SUBSET (1 .. m) -> Int]
    <3>1. \A t \in Int : <<m, t>> \in (1 .. n) \X Int
      OBVIOUS
    <3> QED
      BY <2>2, <3>1
  <2>5. e[{}] = 0
    BY <2>1 DEF FoldedTo
  <2> HIDE DEF e
  <2>6. ASSUME NEW j \in 1 .. m, NEW s \in SUBSET (1 .. j), j \in s
        PROVE  e[s] = G[<<j, e[s \ {j}]>>]
    <3>1. CASE j = m
      <4>1. s \in SUBSET (1 .. m) /\ s \ {m} \in SUBSET (1 .. m) /\ m \notin s \ {m}
        BY <3>1
      <4>2. e[s] = G[<<m, g[s \ {m}]>>] /\ e[s \ {m}] = g[s \ {m}]
        BY <2>3, <2>6, <3>1, <4>1, Zenon
      <4> QED
        BY <3>1, <4>2
    <3>2. CASE j # m
      <4>1. /\ j \in 1 .. m - 1 /\ m \notin s
            /\ s \in SUBSET (1 .. m) /\ s \ {j} \in SUBSET (1 .. m)
        BY <3>2
      <4>2. g[s] = G[<<j, g[s \ {j}]>>]
        BY <2>1, <2>6, <4>1, Zenon DEF FoldedTo
      <4> QED
        BY <2>3, <4>1, <4>2
    <3> QED
      BY <3>1, <3>2
  <2>7. FoldedTo(e, m, G)
    BY <2>5, <2>6 DEF FoldedTo
  <2> QED
    BY <2>4, <2>7
<1> DEFINE S == {k \in 0 .. n : Exists(k)}
<1>3. 0 \in S /\ \A k \in 1 .. n : k - 1 \in S => k \in S
  <2> HIDE DEF Exists
  <2> QED
    BY <1>1, <1>2
<1>4. n \in S
  <2> HIDE DEF S
  <2> QED
    BY <1>3, UpTo
<1> QED
  <2> HIDE DEF Exists
  <2>1. Exists(n)
    BY <1>4
  <2> QED
    BY <2>1 DEF Exists

(* The same with the fold's own choice of the next position.               *)
LEMMA FoldChooses ==
    ASSUME NEW n \in Nat, NEW G \in [(1 .. n) \X Int -> Int]
    PROVE  \E g \in [SUBSET (1 .. n) -> Int] :
              /\ g[{}] = 0
              /\ \A s \in SUBSET (1 .. n) : s # {} =>
                    /\ Max(s) \in s
                    /\ g[s] = G[<<Max(s), g[s \ {Max(s)}]>>]
<1>1. PICK g \in [SUBSET (1 .. n) -> Int] : FoldedTo(g, n, G)
  BY FoldExists
<1>2. ASSUME NEW s \in SUBSET (1 .. n), s # {}
      PROVE  Max(s) \in s /\ g[s] = G[<<Max(s), g[s \ {Max(s)}]>>]
  <2> DEFINE Above == {j \in 0 .. n : s \subseteq 1 .. j}
  <2>1. Above \in SUBSET Nat /\ n \in Above
    OBVIOUS
  <2>2. PICK j \in Above : \A k \in Above : j <= k
    <3> HIDE DEF Above
    <3> QED
      BY <2>1, LeastNat
  <2>3. PICK x \in s : x \in 1 .. j
    BY <1>2, <2>2
  <2>4. j - 1 \in 0 .. n /\ j - 1 \notin Above /\ j \in 1 .. n
    BY <2>2, <2>3
  <2>5. j \in s
    BY <2>2, <2>4
  <2>6. Max(s) = j
    BY <2>2, <2>5, MaxOf
  <2> QED
    BY <1>1, <2>2, <2>4, <2>5, <2>6 DEF FoldedTo
<1> QED
  BY <1>1, <1>2 DEF FoldedTo

(* The greatest of a list's positions is one of them.                      *)
LEMMA MaxIn ==
    ASSUME NEW n \in Nat, NEW s \in SUBSET (1 .. n), s # {}
    PROVE  Max(s) \in s
<1>1. [p \in (1 .. n) \X Int |-> 0] \in [(1 .. n) \X Int -> Int]
  OBVIOUS
<1> QED
  BY <1>1, FoldChooses

(* What a fold over n positions computes, whatever the sets it is not at.  *)
Folds(iter, n, G) ==
    /\ iter[{}] = 0
    /\ \A s \in SUBSET (1 .. n) : s # {} /\ iter[s \ {Max(s)}] \in Int =>
          iter[s] = G[<<Max(s), iter[s \ {Max(s)}]>>]

(* h holds the running totals of G over n positions, and iter ends where h *)
(* does.                                                                   *)
Runs(h, n, G, iter) ==
    /\ h[0] = 0
    /\ \A k \in 1 .. n : h[k] = G[<<k, h[k - 1]>>]
    /\ iter[1 .. n] = h[n]

(* Running totals of a fold over n positions, as the fold forms them.      *)
LEMMA FoldRuns ==
    ASSUME NEW n \in Nat, NEW G \in [(1 .. n) \X Int -> Int],
           NEW iter, Folds(iter, n, G)
    PROVE  \E h \in [0 .. n -> Int] : Runs(h, n, G, iter)
<1> DEFINE h == [k \in 0 .. n |-> iter[1 .. k]]
<1>3. h[0] = 0
  <2>1. 1 .. 0 = {} /\ h[0] = iter[1 .. 0]
    OBVIOUS
  <2> HIDE DEF h
  <2> QED
    BY <2>1 DEF Folds
<1>4. ASSUME NEW k \in 1 .. n, h[k - 1] \in Int
      PROVE  h[k] = G[<<k, h[k - 1]>>]
  <2>1. h[k] = iter[1 .. k] /\ h[k - 1] = iter[1 .. k - 1]
    OBVIOUS
  <2>2. 1 .. k \in SUBSET (1 .. n) /\ k \in 1 .. k /\ (1 .. k) \ {k} = 1 .. k - 1
    OBVIOUS
  <2>3. Max(1 .. k) = k
    BY <2>2, MaxOf
  <2>4. (1 .. k) \ {Max(1 .. k)} = 1 .. k - 1 /\ 1 .. k # {}
    BY <2>2, <2>3
  <2>5. iter[(1 .. k) \ {Max(1 .. k)}] = h[k - 1]
    BY <2>1, <2>4
  <2> HIDE DEF h
  <2>6. iter[1 .. k] = G[<<Max(1 .. k), iter[(1 .. k) \ {Max(1 .. k)}]>>]
    BY <1>4, <2>2, <2>4, <2>5, Zenon DEF Folds
  <2> QED
    BY <2>1, <2>3, <2>5, <2>6
<1>5. \A k \in 0 .. n : h[k] \in Int
  <2> DEFINE S == {k \in 0 .. n : h[k] \in Int}
  <2> HIDE DEF h
  <2>0. \A k \in 1 .. n, t \in Int : G[<<k, t>>] \in Int
    OBVIOUS
  <2>1. 0 \in S
    BY <1>3
  <2>2. ASSUME NEW k \in 1 .. n, h[k - 1] \in Int
        PROVE  h[k] \in Int
    BY <1>4, <2>0, <2>2
  <2>3. \A k \in 1 .. n : k - 1 \in S => k \in S
    BY <2>2
  <2> HIDE DEF S
  <2>4. \A k \in 0 .. n : k \in S
    BY <2>1, <2>3, UpTo
  <2> QED
    BY <2>4 DEF S
<1>6. iter[1 .. n] = h[n] /\ h \in [0 .. n -> Int]
  BY <1>5
<1>7. \A k \in 1 .. n : k - 1 \in 0 .. n
  OBVIOUS
<1> HIDE DEF h
<1>8. Runs(h, n, G, iter)
  BY <1>3, <1>4, <1>5, <1>6, <1>7 DEF Runs
<1> QED
  BY <1>6, <1>8

(* cumDuration adds the durations one by one, wrapping at each.            *)
LEMMA DurationSteps ==
    ASSUME NEW m, m.Segments \in Seq(Segment), NEW pos \in 0 .. Len(m.Segments)
    PROVE  \E h \in [0 .. pos -> Int] :
              /\ h[0] = 0
              /\ \A k \in 1 .. pos :
                    h[k] = Wrap(h[k - 1] + Wrap(m.Segments[k].DurationMS * Milli))
              /\ cumDuration(m, pos) = h[pos]
<1> DEFINE seq == SubSeq(m.Segments, 1, pos)
           Added(g) == [s \in SUBSET DOMAIN seq |->
                    IF s = {} THEN 0
                    ELSE LET x == Max(s)
                         IN  Wrap(g[s \ {x}] + Wrap(seq[x].DurationMS * Milli))]
           iter == CHOOSE g : g = Added(g)
           G == [p \in (1 .. pos) \X Int |->
                    Wrap(p[2] + Wrap(m.Segments[p[1]].DurationMS * Milli))]
<1>1. cumDuration(m, pos) = iter[DOMAIN seq]
  BY DEF cumDuration, FoldLeft, MapThenFoldSet
<1>2. DOMAIN seq = 1 .. pos /\ \A x \in 1 .. pos : seq[x] = m.Segments[x]
  OBVIOUS
<1>3. \A x \in 1 .. pos : m.Segments[x].DurationMS * Milli \in Int
  BY DraftTypes
<1>4. ASSUME NEW x \in 1 .. pos, NEW t \in Int
      PROVE  Wrap(t + Wrap(m.Segments[x].DurationMS * Milli)) \in Int
  <2>1. Wrap(m.Segments[x].DurationMS * Milli) \in Int
    BY <1>3, WrapRange
  <2> QED
    BY <2>1, WrapRange
<1>5. /\ G \in [(1 .. pos) \X Int -> Int]
      /\ \A x \in 1 .. pos, t \in Int :
            G[<<x, t>>] = Wrap(t + Wrap(m.Segments[x].DurationMS * Milli))
  BY <1>4
<1> HIDE DEF G, seq
<1>6. pos \in Nat
  OBVIOUS
<1>7. PICK g \in [SUBSET (1 .. pos) -> Int] :
          /\ g[{}] = 0
          /\ \A s \in SUBSET (1 .. pos) : s # {} =>
                /\ Max(s) \in s
                /\ g[s] = G[<<Max(s), g[s \ {Max(s)}]>>]
  BY <1>5, <1>6, FoldChooses, Zenon
<1>8. g = Added(g)
  BY <1>2, <1>5, <1>7
<1>9. iter = Added(iter)
  BY <1>8
<1>10. iter[{}] = 0
  BY <1>9
<1>11. Folds(iter, pos, G)
  <2> SUFFICES ASSUME NEW s \in SUBSET (1 .. pos), s # {}, iter[s \ {Max(s)}] \in Int
               PROVE  iter[s] = G[<<Max(s), iter[s \ {Max(s)}]>>]
    BY <1>10, Zenon DEF Folds
  <2>1. Max(s) \in 1 .. pos
    BY <1>7
  <2>2. iter[s] = Wrap(iter[s \ {Max(s)}] + Wrap(seq[Max(s)].DurationMS * Milli))
    BY <1>2, <1>9
  <2> HIDE DEF iter
  <2> QED
    BY <1>2, <1>5, <2>1, <2>2
<1> HIDE DEF iter
<1>12. PICK h \in [0 .. pos -> Int] : Runs(h, pos, G, iter)
  BY <1>5, <1>6, <1>11, FoldRuns, Zenon
<1>13. \A k \in 1 .. pos : h[k - 1] \in Int
  OBVIOUS
<1>14. cumDuration(m, pos) = h[pos]
  BY <1>1, <1>2, <1>12 DEF Runs
<1>15. \A k \in 1 .. pos : h[k] = Wrap(h[k - 1] + Wrap(m.Segments[k].DurationMS * Milli))
  BY <1>5, <1>12, <1>13 DEF Runs
<1> QED
  BY <1>12, <1>14, <1>15 DEF Runs

(* The segment a receipt matches is one of the manifest.                   *)
LEMMA MatchedSegment ==
    ASSUME NEW m, m.Segments \in Seq(Segment), NEW i, HasIndex(m, i)
    PROVE  /\ segPosition(m, i) \in 1 .. Len(m.Segments)
           /\ m.Segments[segPosition(m, i)].Index = i
           /\ segByIndex(m, i) \in Segment
<1> DEFINE at == {pos \in Positions(m) : m.Segments[pos].Index = i}
           n == Len(m.Segments)
<1>1. n \in Nat /\ Positions(m) = 1 .. n /\ at \in SUBSET (1 .. n) /\ at # {}
  BY DEF HasIndex, Positions
<1>2. Max(at) \in at
  <2> HIDE DEF at, n
  <2> QED
    BY <1>1, MaxIn
<1>3. segPosition(m, i) = Max(at) /\ segByIndex(m, i) = m.Segments[Max(at)]
  BY DEF segPosition, segByIndex
<1>4. Max(at) \in 1 .. n /\ m.Segments[Max(at)].Index = i
  BY <1>1, <1>2
<1> HIDE DEF at
<1>5. m.Segments[Max(at)] \in Segment
  BY <1>4
<1> QED
  BY <1>3, <1>4, <1>5

(* The receipts VerifiedDeliveredBytes credits: those of a segment the     *)
(* host measured.                                                          *)
Credited(m, r) ==
    /\ ReceiptMatches(m, r)
    /\ segByIndex(m, r.SeqStart).Provenance = "host-verified"

(* Each receipt credits the bytes of the segment it matches, or nothing.   *)
BillSteps(m, h) ==
    /\ h[0] = 0
    /\ \A k \in DOMAIN m.DeliveryReceipts :
          LET r == m.DeliveryReceipts[k]
          IN  h[k] = IF Credited(m, r)
                     THEN Wrap(h[k - 1] + segByIndex(m, r.SeqStart).Bytes)
                     ELSE h[k - 1]
    /\ VerifiedDeliveredBytes(m) = h[Len(m.DeliveryReceipts)]

(* VerifiedDeliveredBytes adds receipt by receipt, wrapping at each.       *)
LEMMA BilledSteps ==
    ASSUME NEW m, m.Segments \in Seq(Segment),
           m.DeliveryReceipts \in Seq(ReceiptDrafts)
    PROVE  \E h \in [0 .. Len(m.DeliveryReceipts) -> Int] : BillSteps(m, h)
<1> DEFINE seq == m.DeliveryReceipts
           n == Len(seq)
           Added(g) == [s \in SUBSET DOMAIN seq |->
                    IF s = {} THEN 0
                    ELSE LET x == Max(s)
                         IN  IF /\ ReceiptMatches(m, seq[x])
                                /\ segByIndex(m, seq[x].SeqStart).Provenance = "host-verified"
                             THEN Wrap(g[s \ {x}] + segByIndex(m, seq[x].SeqStart).Bytes)
                             ELSE g[s \ {x}]]
           iter == CHOOSE g : g = Added(g)
           G == [p \in (1 .. n) \X Int |->
                    IF Credited(m, seq[p[1]])
                    THEN Wrap(p[2] + segByIndex(m, seq[p[1]].SeqStart).Bytes)
                    ELSE p[2]]
<1>1. VerifiedDeliveredBytes(m) = iter[DOMAIN seq]
  BY DEF VerifiedDeliveredBytes, FoldLeft, MapThenFoldSet
<1>2. n \in Nat /\ DOMAIN seq = 1 .. n
  OBVIOUS
<1> HIDE DEF seq, n
<1>3. ASSUME NEW x \in 1 .. n, Credited(m, seq[x])
      PROVE  segByIndex(m, seq[x].SeqStart).Bytes \in Int
  BY <1>3, MatchedSegment, DraftTypes DEF Credited, ReceiptMatches
<1>4. ASSUME NEW x \in 1 .. n, NEW t \in Int, Credited(m, seq[x])
      PROVE  Wrap(t + segByIndex(m, seq[x].SeqStart).Bytes) \in Int
  BY <1>3, <1>4, WrapRange
<1>5. /\ G \in [(1 .. n) \X Int -> Int]
      /\ \A x \in 1 .. n, t \in Int :
            G[<<x, t>>] = IF Credited(m, seq[x])
                          THEN Wrap(t + segByIndex(m, seq[x].SeqStart).Bytes)
                          ELSE t
  BY <1>4
<1> HIDE DEF G
<1>7. PICK g \in [SUBSET (1 .. n) -> Int] :
          /\ g[{}] = 0
          /\ \A s \in SUBSET (1 .. n) : s # {} =>
                /\ Max(s) \in s
                /\ g[s] = G[<<Max(s), g[s \ {Max(s)}]>>]
  BY <1>2, <1>5, FoldChooses, Zenon
<1>8. g = Added(g)
  <2>1. ASSUME NEW s \in SUBSET (1 .. n), s # {}
        PROVE  g[s] = IF Credited(m, seq[Max(s)])
                      THEN Wrap(g[s \ {Max(s)}] + segByIndex(m, seq[Max(s)].SeqStart).Bytes)
                      ELSE g[s \ {Max(s)}]
    <3>1. Max(s) \in 1 .. n /\ g[s \ {Max(s)}] \in Int
      BY <1>7, <2>1
    <3> QED
      BY <1>5, <1>7, <2>1, <3>1
  <2> QED
    BY <1>2, <1>7, <2>1 DEF Credited
<1>9. iter = Added(iter)
  BY <1>8
<1>10. iter[{}] = 0
  BY <1>9
<1>11. Folds(iter, n, G)
  <2> SUFFICES ASSUME NEW s \in SUBSET (1 .. n), s # {}, iter[s \ {Max(s)}] \in Int
               PROVE  iter[s] = G[<<Max(s), iter[s \ {Max(s)}]>>]
    BY <1>10, Zenon DEF Folds
  <2>1. Max(s) \in 1 .. n
    BY <1>7
  <2>2. iter[s] = IF Credited(m, seq[Max(s)])
                  THEN Wrap(iter[s \ {Max(s)}] + segByIndex(m, seq[Max(s)].SeqStart).Bytes)
                  ELSE iter[s \ {Max(s)}]
    BY <1>2, <1>9 DEF Credited
  <2> HIDE DEF iter
  <2> QED
    BY <1>5, <2>1, <2>2
<1> HIDE DEF iter
<1>12. PICK h \in [0 .. n -> Int] : Runs(h, n, G, iter)
  BY <1>2, <1>5, <1>11, FoldRuns, Zenon
<1>13. \A k \in 1 .. n : h[k - 1] \in Int
  BY <1>2
<1>14. VerifiedDeliveredBytes(m) = h[n]
  BY <1>1, <1>2, <1>12 DEF Runs
<1>15. \A k \in 1 .. n :
           h[k] = IF Credited(m, seq[k])
                  THEN Wrap(h[k - 1] + segByIndex(m, seq[k].SeqStart).Bytes)
                  ELSE h[k - 1]
  BY <1>5, <1>12, <1>13 DEF Runs
<1>16. BillSteps(m, h)
  BY <1>2, <1>12, <1>14, <1>15 DEF Runs, BillSteps, seq, n
<1> QED
  BY <1>2, <1>16 DEF n, seq

(* What is billed is a 64-bit number, whatever was claimed, and accepted   *)
(* manifests have segments.                                                *)
LEMMA StreamTyped ==
    ASSUME StreamIInv
    PROVE  StreamTypeOK
<1>1. ASSUME NEW pos \in Positions(manifest)
      PROVE  manifest.Segments[pos].Index \in 1 .. MaxIndex
  <2>1. manifest.Segments[pos] \in Segment
    BY <1>1 DEF StreamIInv, Collected, Positions
  <2> QED
    BY <2>1 DEF Segment
<1>2. ASSUME NEW a \in accepted
      PROVE  a.manifest.Segments # <<>> /\ a.billed \in -Half .. Half - 1
  <2> DEFINE m == a.manifest
             K == Len(m.DeliveryReceipts)
  <2>1. /\ Collected(m) /\ m.Segments # <<>> /\ a.billed = VerifiedDeliveredBytes(m)
    BY DEF StreamIInv, VerifyManifest
  <2>2. PICK h \in [0 .. K -> Int] : BillSteps(m, h)
    BY <2>1, BilledSteps DEF Collected
  <2> HIDE DEF m
  <2>3. K \in Nat /\ DOMAIN m.DeliveryReceipts = 1 .. K /\ Half \in Nat \ {0}
    BY <2>1, StreamAssumption DEF Collected, StreamAssumption
  <2> DEFINE S == {k \in 0 .. K : h[k] \in -Half .. Half - 1}
  <2>4. 0 \in S
    BY <2>2, <2>3 DEF BillSteps
  <2>5. ASSUME NEW k \in 1 .. K, k - 1 \in S
        PROVE  k \in S
    <3> DEFINE r == m.DeliveryReceipts[k]
    <3>1. h[k] = IF Credited(m, r)
                 THEN Wrap(h[k - 1] + segByIndex(m, r.SeqStart).Bytes)
                 ELSE h[k - 1]
      BY <2>2, <2>3 DEF BillSteps
    <3>2. h[k - 1] \in Int /\ h[k - 1] \in -Half .. Half - 1
      BY <2>3, <2>5
    <3>3. ASSUME Credited(m, r)
          PROVE  Wrap(h[k - 1] + segByIndex(m, r.SeqStart).Bytes) \in -Half .. Half - 1
      <4>1. segByIndex(m, r.SeqStart) \in Segment
        BY <2>1, <3>3, MatchedSegment DEF Credited, ReceiptMatches, Collected
      <4>2. segByIndex(m, r.SeqStart).Bytes \in Int
        BY <4>1, DraftTypes
      <4>3. h[k - 1] + segByIndex(m, r.SeqStart).Bytes \in Int
        BY <3>2, <4>2
      <4> QED
        BY <4>3, WrapRange
    <3> QED
      BY <2>3, <3>1, <3>2, <3>3
  <2>6. K \in S
    <3>1. K \in 0 .. K
      BY <2>3
    <3> HIDE DEF S, K
    <3> QED
      BY <2>3, <2>4, <2>5, <3>1, UpTo
  <2>7. a.billed = h[K]
    BY <2>1, <2>2 DEF BillSteps
  <2> QED
    BY <2>1, <2>6, <2>7 DEF m
<1> QED
  BY <1>1, <1>2 DEF StreamTypeOK, StreamIInv

(* The types of StreamProof: segments keep their indices in bound, an      *)
(* accepted manifest has segments and a bill of 64 bits, and the registry  *)
(* holds a nonce once, because IssueNonce refuses one it holds.            *)
THEOREM StreamTypeCorrect == StreamSpec => []StreamTypeOK
<1>1. StreamIInv => StreamTypeOK
  BY StreamTyped
<1> QED
  BY <1>1, StreamInvariant, PTL

-----------------------------------------------------------------------------
(* Sums over sets of segments, in whatever order they are taken.           *)

(* Sums of f over sets of positions: any member may be taken out first.    *)
Sums(g, n, f) ==
    /\ g[{}] = 0
    /\ \A s \in SUBSET (1 .. n) : \A x \in s : g[s] = f[x] + g[s \ {x}]

(* There are such sums, for those of positions up to k extend to k + 1.    *)
LEMMA SumsExist ==
    ASSUME NEW n \in Nat, NEW f \in [1 .. n -> Int]
    PROVE  \E g \in [SUBSET (1 .. n) -> Int] : Sums(g, n, f)
<1> DEFINE Exists(k) == \E g \in [SUBSET (1 .. k) -> Int] : Sums(g, k, f)
<1>1. Exists(0)
  <2>1. [s \in SUBSET (1 .. 0) |-> 0] \in [SUBSET (1 .. 0) -> Int]
    OBVIOUS
  <2>2. Sums([s \in SUBSET (1 .. 0) |-> 0], 0, f)
    BY DEF Sums
  <2> QED
    BY <2>1, <2>2
<1>2. ASSUME NEW m \in 1 .. n, Exists(m - 1)
      PROVE  Exists(m)
  <2>1. PICK g \in [SUBSET (1 .. m - 1) -> Int] : Sums(g, m - 1, f)
    BY <1>2
  <2> DEFINE e == [s \in SUBSET (1 .. m) |->
                      IF m \in s THEN f[m] + g[s \ {m}] ELSE g[s]]
  <2>2. \A s \in SUBSET (1 .. m) :
            /\ s \ {m} \in SUBSET (1 .. m - 1)
            /\ m \notin s => s \in SUBSET (1 .. m - 1)
    OBVIOUS
  <2>3. \A s \in SUBSET (1 .. m) :
            e[s] = IF m \in s THEN f[m] + g[s \ {m}] ELSE g[s]
    OBVIOUS
  <2>4. e \in [SUBSET (1 .. m) -> Int]
    BY <2>2
  <2>5. e[{}] = 0
    BY <2>1 DEF Sums
  <2> HIDE DEF e
  <2>6. ASSUME NEW s \in SUBSET (1 .. m), NEW x \in s
        PROVE  e[s] = f[x] + e[s \ {x}]
    <3>1. s \ {x} \in SUBSET (1 .. m) /\ x \in 1 .. m
      OBVIOUS
    <3>2. CASE m \notin s
      <4>1. s \in SUBSET (1 .. m - 1) /\ m \notin s \ {x}
        BY <2>2, <3>2
      <4>2. g[s] = f[x] + g[s \ {x}]
        BY <2>1, <2>6, <4>1, Zenon DEF Sums
      <4>3. e[s] = g[s] /\ e[s \ {x}] = g[s \ {x}]
        BY <2>3, <2>6, <3>1, <3>2, <4>1, Zenon
      <4> QED
        BY <4>2, <4>3
    <3>3. CASE m \in s /\ x = m
      <4>1. m \notin s \ {m}
        OBVIOUS
      <4>2. e[s] = f[m] + g[s \ {m}] /\ e[s \ {m}] = g[s \ {m}]
        BY <2>3, <2>6, <3>1, <3>3, <4>1, Zenon
      <4> QED
        BY <3>3, <4>2
    <3>4. CASE m \in s /\ x # m
      <4> DEFINE rest == s \ {m}
                 both == rest \ {x}
      <4>1. /\ rest \in SUBSET (1 .. m - 1) /\ x \in rest
            /\ both \in SUBSET (1 .. m - 1)
            /\ (s \ {x}) \ {m} = both /\ m \in s \ {x}
        BY <3>4
      <4>2. e[s] = f[m] + g[rest]
        BY <2>3, <2>6, <3>4, Zenon
      <4>3. e[s \ {x}] = f[m] + g[both]
        <5>1. e[s \ {x}] = f[m] + g[(s \ {x}) \ {m}]
          BY <2>3, <3>1, <4>1, Zenon
        <5> QED
          BY <4>1, <5>1
      <4> HIDE DEF both
      <4>4. g[rest] = f[x] + g[both]
        BY <2>1, <4>1, Zenon DEF Sums, both
      <4> HIDE DEF rest
      <4>5. f[m] \in Int /\ f[x] \in Int /\ g[both] \in Int
        BY <2>1, <3>1, <4>1
      <4> QED
        BY <4>2, <4>3, <4>4, <4>5
    <3> QED
      BY <3>2, <3>3, <3>4
  <2>7. Sums(e, m, f)
    BY <2>5, <2>6 DEF Sums
  <2> QED
    BY <2>4, <2>7
<1> DEFINE S == {k \in 0 .. n : Exists(k)}
<1>3. 0 \in S /\ \A k \in 1 .. n : k - 1 \in S => k \in S
  <2> HIDE DEF Exists
  <2> QED
    BY <1>1, <1>2
<1>4. n \in S
  <2>1. n \in 0 .. n
    OBVIOUS
  <2> HIDE DEF S
  <2> QED
    BY <1>3, <2>1, UpTo, Zenon
<1> QED
  <2> HIDE DEF Exists
  <2>1. Exists(n)
    BY <1>4
  <2> QED
    BY <2>1 DEF Exists

(* What MapThenSumSet computes on the subsets of S.                        *)
Adds(iter, S, f) ==
    /\ iter[{}] = 0
    /\ \A s \in SUBSET S : s # {} =>
          \E x \in s : iter[s \ {x}] \in Int => iter[s] = f[x] + iter[s \ {x}]

(* Whichever member is taken out first, the sum is the same.               *)
LEMMA SumIsUnique ==
    ASSUME NEW n \in Nat, NEW f, NEW S \in SUBSET (1 .. n),
           NEW g \in [SUBSET (1 .. n) -> Int], Sums(g, n, f),
           NEW iter, Adds(iter, S, f)
    PROVE  iter[S] = g[S]
<1> DEFINE Same(k) == \A s \in SUBSET S : Cardinality(s) = k => iter[s] = g[s]
<1>1. IsFiniteSet(1 .. n) /\ Cardinality(1 .. n) = n
  BY FS_Interval
<1>2. \A s \in SUBSET S : IsFiniteSet(s) /\ Cardinality(s) \in 0 .. n
  <2> TAKE s \in SUBSET S
  <2>1. s \in SUBSET (1 .. n)
    OBVIOUS
  <2>2. IsFiniteSet(s) /\ Cardinality(s) <= n
    <3>1. IsFiniteSet(s) /\ Cardinality(s) <= Cardinality(1 .. n)
      BY <1>1, <2>1, FS_Subset, Zenon
    <3> QED
      BY <1>1, <3>1
  <2> QED
    BY <2>2, FS_CardinalityType
<1>3. Same(0)
  <2> SUFFICES ASSUME NEW s \in SUBSET S, Cardinality(s) = 0
               PROVE  iter[s] = g[s]
    OBVIOUS
  <2>1. s = {}
    BY <1>2, FS_EmptySet
  <2> QED
    BY <2>1 DEF Sums, Adds
<1>4. ASSUME NEW k \in 1 .. n, Same(k - 1)
      PROVE  Same(k)
  <2> SUFFICES ASSUME NEW s \in SUBSET S, Cardinality(s) = k
               PROVE  iter[s] = g[s]
    OBVIOUS
  <2>0. Cardinality({}) = 0 /\ k # 0
    BY FS_EmptySet
  <2>1. s # {}
    BY <2>0
  <2>2. PICK x \in s : iter[s \ {x}] \in Int => iter[s] = f[x] + iter[s \ {x}]
    BY <2>1 DEF Adds
  <2> DEFINE rest == s \ {x}
  <2>3. rest \in SUBSET S /\ rest \in SUBSET (1 .. n) /\ s \in SUBSET (1 .. n)
    OBVIOUS
  <2>4. Cardinality(rest) = k - 1
    BY <1>2, FS_RemoveElement
  <2>5. iter[rest] = g[rest] /\ g[rest] \in Int
    BY <1>4, <2>3, <2>4
  <2>6. g[s] = f[x] + g[rest]
    BY <2>3, Zenon DEF Sums
  <2> QED
    BY <2>2, <2>5, <2>6
<1> DEFINE R == {k \in 0 .. n : Same(k)}
<1>5. 0 \in R /\ \A k \in 1 .. n : k - 1 \in R => k \in R
  <2> HIDE DEF Same
  <2> QED
    BY <1>3, <1>4
<1>6. Cardinality(S) \in R
  <2> HIDE DEF R
  <2> QED
    BY <1>2, <1>5, UpTo
<1>7. Same(Cardinality(S))
  <2> HIDE DEF Same
  <2> QED
    BY <1>6
<1> QED
  BY <1>7

(* Terms that are equal on S.                                              *)
Agree(f1, f2, S) == \A x \in S : f1[x] = f2[x]

(* Sums of terms that agree on S are equal.                                *)
LEMMA SumsAgree ==
    ASSUME NEW n \in Nat, NEW f1, NEW f2, NEW S \in SUBSET (1 .. n),
           NEW g1 \in [SUBSET (1 .. n) -> Int], Sums(g1, n, f1),
           NEW g2 \in [SUBSET (1 .. n) -> Int], Sums(g2, n, f2),
           Agree(f1, f2, S)
    PROVE  g1[S] = g2[S]
<1>1. ASSUME NEW s \in SUBSET S, s # {}
      PROVE  \E x \in s : g1[s] = f2[x] + g1[s \ {x}]
  <2>1. PICK x \in s : TRUE
    BY <1>1
  <2>2. s \in SUBSET (1 .. n) /\ x \in S
    OBVIOUS
  <2>3. g1[s] = f1[x] + g1[s \ {x}]
    BY <2>2, Zenon DEF Sums
  <2> QED
    BY <2>2, <2>3 DEF Agree
<1>2. Adds(g1, S, f2)
  BY <1>1, Zenon DEF Adds, Sums
<1> QED
  BY <1>2, SumIsUnique, Zenon

(* A change of one term changes the sum as much.                           *)
LEMMA SumChanges ==
    ASSUME NEW n \in Nat, NEW f1 \in [1 .. n -> Int], NEW f2 \in [1 .. n -> Int],
           NEW S \in SUBSET (1 .. n), NEW x \in S, NEW d \in Int,
           NEW g1 \in [SUBSET (1 .. n) -> Int], Sums(g1, n, f1),
           NEW g2 \in [SUBSET (1 .. n) -> Int], Sums(g2, n, f2)
    PROVE  f2[x] = f1[x] + d /\ (\A y \in S : y # x => f1[y] = f2[y])
           => g2[S] = g1[S] + d
<1>a. \A R \in SUBSET (1 .. n) : Agree(f1, f2, R) => g1[R] = g2[R]
  BY SumsAgree, Zenon
<1> HAVE f2[x] = f1[x] + d /\ (\A y \in S : y # x => f1[y] = f2[y])
<1> DEFINE rest == S \ {x}
<1>1. rest \in SUBSET (1 .. n) /\ Agree(f1, f2, rest)
  BY DEF Agree
<1>2. g1[S] = f1[x] + g1[rest] /\ g2[S] = f2[x] + g2[rest]
  BY Zenon DEF Sums
<1> HIDE DEF rest
<1>3. g1[rest] = g2[rest]
  BY <1>1, <1>a
<1>4. f1[x] \in Int /\ g1[rest] \in Int
  BY <1>1
<1> QED
  BY <1>2, <1>3, <1>4

(* A sum of zeros is zero.                                                 *)
LEMMA ZeroSum ==
    ASSUME NEW n \in Nat, NEW f, NEW S \in SUBSET (1 .. n),
           NEW g \in [SUBSET (1 .. n) -> Int], Sums(g, n, f)
    PROVE  (\A x \in S : f[x] = 0) => g[S] = 0
<1>a. \A f2, z2 : /\ z2 \in [SUBSET (1 .. n) -> Int] /\ Sums(z2, n, f2)
                  /\ Agree(f, f2, S)
                  => g[S] = z2[S]
  BY SumsAgree, Zenon
<1> HAVE \A x \in S : f[x] = 0
<1> DEFINE zero == [x \in 1 .. n |-> 0]
           z == [s \in SUBSET (1 .. n) |-> 0]
<1>1. z \in [SUBSET (1 .. n) -> Int] /\ z[S] = 0 /\ Agree(f, zero, S)
  BY DEF Agree
<1>2. Sums(z, n, zero)
  <2>1. \A s \in SUBSET (1 .. n) : z[s] = 0
    OBVIOUS
  <2>2. \A x \in 1 .. n : zero[x] = 0
    OBVIOUS
  <2> HIDE DEF z, zero
  <2>3. ASSUME NEW s \in SUBSET (1 .. n), NEW x \in s
        PROVE  z[s] = zero[x] + z[s \ {x}]
    <3>1. x \in 1 .. n /\ s \ {x} \in SUBSET (1 .. n)
      OBVIOUS
    <3>2. z[s] = 0 /\ zero[x] = 0 /\ z[s \ {x}] = 0
      BY <2>1, <2>2, <3>1
    <3> QED
      BY <3>2
  <2> QED
    BY <2>1, <2>3 DEF Sums
<1> HIDE DEF z, zero
<1> QED
  BY <1>1, <1>2, <1>a

(* The sums of the first positions, one term after the other.              *)
GrowsBy(g, n, f) == \A k \in 1 .. n : g[1 .. k] = f[k] + g[1 .. k - 1]

(* The sum up to k is that up to k - 1 and one term.                       *)
LEMMA PrefixSum ==
    ASSUME NEW n \in Nat, NEW f, NEW g, Sums(g, n, f)
    PROVE  GrowsBy(g, n, f)
<1> SUFFICES ASSUME NEW k \in 1 .. n
             PROVE  g[1 .. k] = f[k] + g[1 .. k - 1]
  BY DEF GrowsBy
<1>1. 1 .. k \in SUBSET (1 .. n) /\ k \in 1 .. k /\ (1 .. k) \ {k} = 1 .. k - 1
  OBVIOUS
<1>2. g[1 .. k] = f[k] + g[(1 .. k) \ {k}]
  BY <1>1, Zenon DEF Sums
<1> QED
  BY <1>1, <1>2

(* The duration claimed for a set of segments, counted without overflow.   *)
Elapsed(m, S) == MapThenSumSet(LAMBDA pos : m.Segments[pos].DurationMS * Milli, S)

(* The duration of every position, in nanoseconds.                         *)
DurationOf(m) == [pos \in 1 .. Len(m.Segments) |-> m.Segments[pos].DurationMS * Milli]

(* The duration claimed for S is any sum of the durations of S.            *)
LEMMA DurationSum ==
    ASSUME NEW m, Len(m.Segments) \in Nat, NEW S \in SUBSET (1 .. Len(m.Segments)),
           NEW g \in [SUBSET (1 .. Len(m.Segments)) -> Int],
           Sums(g, Len(m.Segments), DurationOf(m))
    PROVE  Elapsed(m, S) = g[S]
<1> DEFINE n == Len(m.Segments)
           f == DurationOf(m)
           Added(e) == [s \in SUBSET S |->
                    IF s = {} THEN 0
                    ELSE LET x == CHOOSE x \in s : TRUE
                         IN  m.Segments[x].DurationMS * Milli + e[s \ {x}]]
           iter == CHOOSE e : e = Added(e)
           own == [s \in SUBSET S |-> g[s]]
<1>1. Elapsed(m, S) = iter[S]
  BY DEF Elapsed, MapThenSumSet, MapThenFoldSet
<1>2. \A s \in SUBSET S : s # {} => (CHOOSE x \in s : TRUE) \in s
  OBVIOUS
<1>a. \A e : Adds(e, S, f) => e[S] = g[S]
  BY SumIsUnique, Zenon
<1>b. \A x \in S : f[x] = m.Segments[x].DurationMS * Milli
  BY DEF DurationOf
<1> HIDE DEF f, n
<1>3. own = Added(own)
  <2>1. ASSUME NEW s \in SUBSET S, s # {}
        PROVE  LET x == CHOOSE x \in s : TRUE
               IN  own[s] = m.Segments[x].DurationMS * Milli + own[s \ {x}]
    <3> DEFINE x == CHOOSE x \in s : TRUE
    <3>1. x \in s
      BY <1>2, <2>1
    <3> HIDE DEF x
    <3>2. s \in SUBSET (1 .. n) /\ x \in S /\ s \ {x} \in SUBSET S
      BY <3>1 DEF n
    <3>3. g[s] = f[x] + g[s \ {x}]
      BY <3>1, <3>2, Zenon DEF Sums, n, f
    <3>4. own[s] = m.Segments[x].DurationMS * Milli + own[s \ {x}]
      BY <1>b, <3>2, <3>3
    <3> QED
      BY <3>4 DEF x
  <2>2. own[{}] = 0
    BY DEF Sums
  <2> QED
    BY <2>1, <2>2
<1>4. iter = Added(iter)
  BY <1>3
<1>5. Adds(iter, S, f)
  <2>1. iter[{}] = 0
    BY <1>4
  <2>2. ASSUME NEW s \in SUBSET S, s # {}
        PROVE  \E x \in s : iter[s] = f[x] + iter[s \ {x}]
    <3> DEFINE x == CHOOSE x \in s : TRUE
    <3>1. iter[s] = m.Segments[x].DurationMS * Milli + iter[s \ {x}]
      BY <1>4, <2>2
    <3>2. x \in s
      BY <1>2, <2>2
    <3> HIDE DEF iter, x
    <3> QED
      BY <1>b, <3>1, <3>2
  <2> HIDE DEF iter
  <2> QED
    BY <2>1, <2>2, Zenon DEF Adds
<1> HIDE DEF iter
<1> QED
  BY <1>1, <1>a, <1>5

-----------------------------------------------------------------------------
(* When the nonces were reflected.                                         *)

(* cumDuration is the sum of the durations up to q, in 64 bits.            *)
LEMMA CumulativeSum ==
    ASSUME NEW m, m.Segments \in Seq(Segment),
           NEW q \in 0 .. Len(m.Segments),
           NEW g \in [SUBSET (1 .. Len(m.Segments)) -> Int],
           Sums(g, Len(m.Segments), DurationOf(m))
    PROVE  cumDuration(m, q) = Wrap(g[1 .. q])
<1> DEFINE n == Len(m.Segments)
           f == [pos \in 1 .. n |-> m.Segments[pos].DurationMS * Milli]
<1>1. PICK h \in [0 .. q -> Int] :
          /\ h[0] = 0
          /\ \A k \in 1 .. q :
                h[k] = Wrap(h[k - 1] + Wrap(m.Segments[k].DurationMS * Milli))
          /\ cumDuration(m, q) = h[q]
  BY DurationSteps
<1>2. Half \in Nat \ {0} /\ n \in Nat /\ q \in Nat /\ q <= n
  BY StreamAssumption DEF StreamAssumption
<1>3. \A k \in 1 .. q : f[k] \in Int /\ k \in 1 .. n
  <2> SUFFICES ASSUME NEW k \in 1 .. q
               PROVE  f[k] \in Int /\ k \in 1 .. n
    OBVIOUS
  <2>1. k \in 1 .. n
    BY <1>2
  <2>2. m.Segments[k] \in Segment
    BY <2>1
  <2>3. m.Segments[k].DurationMS \in Int /\ Milli \in Int
    BY <2>2, DraftTypes
  <2> QED
    BY <2>1, <2>3
<1>4. \A k \in 1 .. q :
          /\ h[k] = Wrap(h[k - 1] + Wrap(f[k]))
          /\ g[1 .. k] = f[k] + g[1 .. k - 1]
          /\ g[1 .. k - 1] \in Int
  <2>1. Sums(g, n, f)
    BY DEF DurationOf
  <2>2. \A k \in 1 .. q : f[k] = m.Segments[k].DurationMS * Milli
    BY <1>3
  <2>3. \A k \in 1 .. q : 1 .. k - 1 \in SUBSET (1 .. n)
    BY <1>2, <1>3
  <2> HIDE DEF f, n
  <2>4. GrowsBy(g, n, f)
    BY <1>2, <2>1, PrefixSum, Zenon
  <2>5. \A k \in 1 .. q : g[1 .. k - 1] \in Int
    BY <2>3 DEF n
  <2> QED
    BY <1>1, <1>3, <2>2, <2>4, <2>5 DEF GrowsBy
<1>5. g[{}] = 0
  BY DEF Sums
<1> DEFINE S == {k \in 0 .. q : h[k] = Wrap(g[1 .. k])}
<1> HIDE DEF f, n
<1>6. 0 \in S
  <2>1. 1 .. 0 = {} /\ 0 \in -Half .. Half - 1
    BY <1>2
  <2>2. Wrap(0) = 0
    BY <2>1, WrapSmall
  <2> QED
    BY <1>1, <1>2, <1>5, <2>1, <2>2
<1>7. ASSUME NEW k \in 1 .. q, k - 1 \in S
      PROVE  k \in S
  <2> DEFINE s == g[1 .. k - 1]
             d == f[k]
  <2>1. h[k - 1] = Wrap(s) /\ s \in Int /\ d \in Int
    BY <1>3, <1>4, <1>7
  <2>2. h[k] = Wrap(Wrap(s) + Wrap(d)) /\ g[1 .. k] = d + s
    BY <1>4, <2>1
  <2> HIDE DEF s, d
  <2>3. Wrap(s) \in Int /\ Wrap(d) \in Int
    BY <2>1, WrapRange
  <2>4. Wrap(Wrap(s) + Wrap(d)) = Wrap(d + Wrap(s))
    BY <2>1, <2>3, WrapAdds
  <2>5. Wrap(d + Wrap(s)) = Wrap(s + d) /\ s + d = d + s
    BY <2>1, WrapAdds
  <2>6. h[k] = Wrap(g[1 .. k])
    BY <2>2, <2>4, <2>5
  <2> QED
    BY <1>2, <2>6
<1>8. q \in S
  <2>1. q \in 0 .. q
    BY <1>2
  <2> HIDE DEF S
  <2>2. \A k \in 1 .. q : k - 1 \in S => k \in S
    BY <1>7
  <2> QED
    BY <1>2, <1>6, <2>1, <2>2, UpTo
<1> QED
  BY <1>1, <1>8

(* The segment of an index, and the segments up to it.                     *)
LEMMA SegmentsUpTo ==
    ASSUME NEW m, Collected(m), Continuous(m), NEW r, HasIndex(m, r)
    PROVE  /\ segPosition(m, r) \in 1 .. Len(m.Segments)
           /\ m.Segments[segPosition(m, r)].Index = r
           /\ \A pos \in 1 .. Len(m.Segments) :
                 m.Segments[pos].Index = r => pos = segPosition(m, r)
           /\ {pos \in Positions(m) : m.Segments[pos].Index <= r}
              = 1 .. segPosition(m, r)
<1> DEFINE n == Len(m.Segments)
           f == Indexed(m)
           q == segPosition(m, r)
<1>1. n \in Nat /\ Positions(m) = 1 .. n /\ m.Segments \in Seq(Segment)
  BY DEF Collected, Positions
<1>2. q \in 1 .. n /\ m.Segments[q].Index = r
  BY <1>1, MatchedSegment
<1>3. \A k \in 1 .. n : f[k] = m.Segments[k].Index /\ f[k] \in Int
  BY IndexType DEF Indexed
<1>5. \A k, l \in 1 .. n : k < l => f[k] < f[l]
  BY IndicesIncrease
<1> HIDE DEF n, f, q
<1>6. ASSUME NEW k \in 1 .. n
      PROVE  /\ m.Segments[k].Index <= r <=> k \in 1 .. q
             /\ m.Segments[k].Index = r => k = q
  <2>1. f[k] = m.Segments[k].Index /\ f[q] = r /\ f[k] \in Int /\ f[q] \in Int
    BY <1>2, <1>3
  <2>2. (k < q => f[k] < f[q]) /\ (q < k => f[q] < f[k])
    BY <1>2, <1>5
  <2>3. k \in Int /\ q \in Int /\ (k < q \/ k = q \/ q < k)
    BY <1>1, <1>2
  <2> QED
    BY <2>1, <2>2, <2>3
<1>7. {pos \in Positions(m) : m.Segments[pos].Index <= r} = 1 .. q
  BY <1>1, <1>2, <1>6
<1> QED
  BY <1>2, <1>6, <1>7 DEF n, q

(* What VerifyManifest compared is the distance itself, unless Sub         *)
(* saturates or the least duration is negated.                             *)
LEMMA Distance ==
    ASSUME NEW x \in Int, NEW u \in Int, AbsDuration(TimeSub(x, u)) <= reflectWindow
    PROVE  \/ x - u \in -reflectWindow .. reflectWindow
           \/ x - u <= -Half
           \/ reflectWindow = Half - 1 /\ x - u >= Half
<1>1. Half \in Nat \ {0} /\ reflectWindow \in 0 .. Half - 1
  BY StreamAssumption DEF StreamAssumption
<1>2. CASE x - u > Half - 1
  <2>1. TimeSub(x, u) = Half - 1
    BY <1>1, <1>2 DEF TimeSub
  <2>2. AbsDuration(TimeSub(x, u)) = Half - 1
    BY <1>1, <2>1 DEF AbsDuration
  <2> QED
    BY <1>1, <1>2, <2>2
<1>3. CASE x - u <= Half - 1 /\ x - u > -Half
  <2>1. TimeSub(x, u) = x - u
    BY <1>1, <1>3 DEF TimeSub
  <2>2. CASE x - u < 0
    <3>1. -(x - u) \in -Half .. Half - 1
      BY <1>1, <1>3, <2>2
    <3>2. AbsDuration(TimeSub(x, u)) = -(x - u)
      BY <2>1, <2>2, <3>1, WrapSmall DEF AbsDuration
    <3> QED
      BY <1>1, <2>2, <3>2
  <2>3. CASE x - u >= 0
    <3>1. AbsDuration(TimeSub(x, u)) = x - u
      BY <2>1, <2>3 DEF AbsDuration
    <3> QED
      BY <1>1, <2>3, <3>1
  <2> QED
    BY <2>2, <2>3
<1> QED
  BY <1>1, <1>2, <1>3

(* An accepted manifest's nonces were each found in the registry within    *)
(* the window; the indices increase, so the segments up to the one that    *)
(* reflects it are those cumDuration added.                                *)
LEMMA WithinWindow ==
    ASSUME StreamIInv
    PROVE  ReflectedUnlessOverflow
<1> SUFFICES ASSUME NEW a \in accepted, NEW r \in a.manifest.LivenessNonces
             PROVE  \E i \in a.registry :
                      LET e == elapsed(a.manifest, r.ReflectedInSeq)
                          diff == a.manifest.StartedAt + e - i.IssuedAt
                      IN  /\ i.Nonce = r.Nonce
                          /\ \/ diff \in -reflectWindow .. reflectWindow
                             \/ e \notin -Half .. Half - 1
                             \/ diff <= -Half
                             \/ reflectWindow = Half - 1 /\ diff >= Half
  BY DEF ReflectedUnlessOverflow
<1> DEFINE m == a.manifest
           n == Len(m.Segments)
           f == DurationOf(m)
           q == segPosition(m, r.ReflectedInSeq)
           upto == {pos \in Positions(m) : m.Segments[pos].Index <= r.ReflectedInSeq}
<1>1. Collected(m) /\ Continuous(m) /\ NonceReflected(m, r, a.registry)
  BY DEF StreamIInv, VerifyManifest
<1>2. PICK i \in a.registry :
          /\ i.Nonce = r.Nonce
          /\ HasIndex(m, r.ReflectedInSeq)
          /\ AbsDuration(TimeSub(m.StartedAt + cumDuration(m, q), i.IssuedAt))
             <= reflectWindow
  BY <1>1 DEF NonceReflected
<1>a. i.IssuedAt \in Int
  BY DEF StreamIInv
<1>b. elapsed(m, r.ReflectedInSeq) = Elapsed(m, upto)
  BY DEF elapsed, Elapsed
<1> HIDE DEF m
<1>3. n \in Nat /\ m.Segments \in Seq(Segment) /\ m.StartedAt \in Int
  <2>1. m.Segments \in Seq(Segment) /\ m.StartedAt \in StartTimes
    BY <1>1 DEF Collected
  <2>2. StartTimes \subseteq Int
    BY StreamAssumption DEF StreamAssumption
  <2>3. n \in Nat
    BY <2>1
  <2>4. m.StartedAt \in Int
    BY <2>1, <2>2, Zenon
  <2> QED
    BY <2>1, <2>3, <2>4
<1>4. q \in 1 .. n /\ upto = 1 .. q
  BY <1>1, <1>2, SegmentsUpTo
<1>5. f \in [1 .. n -> Int]
  <2>1. \A k \in 1 .. n : m.Segments[k] \in Segment
    BY <1>3
  <2>2. \A k \in 1 .. n : m.Segments[k].DurationMS \in Int /\ Milli \in Int
    BY <2>1, DraftTypes
  <2> QED
    BY <2>2 DEF DurationOf
<1>6. PICK g \in [SUBSET (1 .. n) -> Int] : Sums(g, n, f)
  BY <1>3, <1>5, SumsExist, Zenon
<1>7. cumDuration(m, q) = Wrap(g[1 .. q])
  <2>1. q \in 0 .. n
    BY <1>3, <1>4
  <2> QED
    BY <1>3, <1>6, <2>1, CumulativeSum, Zenon
<1>8. Elapsed(m, upto) = g[1 .. q] /\ g[1 .. q] \in Int
  <2>2. 1 .. q \in SUBSET (1 .. n)
    BY <1>3, <1>4
  <2> HIDE DEF upto, q
  <2>3. Elapsed(m, 1 .. q) = g[1 .. q]
    BY <1>3, <1>6, <2>2, DurationSum, Zenon
  <2> QED
    BY <1>4, <2>2, <2>3
<1> DEFINE e == g[1 .. q]
           t == m.StartedAt
           u == i.IssuedAt
<1>9. elapsed(m, r.ReflectedInSeq) = e /\ e \in Int /\ t \in Int /\ u \in Int
      /\ AbsDuration(TimeSub(t + Wrap(e), u)) <= reflectWindow
  BY <1>a, <1>b, <1>2, <1>3, <1>7, <1>8
<1> HIDE DEF e, upto, q
<1>10. \/ t + e - u \in -reflectWindow .. reflectWindow
       \/ e \notin -Half .. Half - 1
       \/ t + e - u <= -Half
       \/ reflectWindow = Half - 1 /\ t + e - u >= Half
  <2> SUFFICES ASSUME e \in -Half .. Half - 1
               PROVE  \/ t + e - u \in -reflectWindow .. reflectWindow
                      \/ t + e - u <= -Half
                      \/ reflectWindow = Half - 1 /\ t + e - u >= Half
    OBVIOUS
  <2> HIDE DEF t, u
  <2>1. Wrap(e) = e
    BY WrapSmall
  <2>2. AbsDuration(TimeSub(t + e, u)) <= reflectWindow
    BY <1>9, <2>1
  <2>3. t + e \in Int /\ t + (e - u) = (t + e) - u
    BY <1>9
  <2> QED
    BY <1>9, <2>2, <2>3, Distance
<1> WITNESS i \in a.registry
<1> QED
  BY <1>2, <1>9, <1>10 DEF m

(* A nonce of an accepted manifest was issued within reflectWindow of when *)
(* the manifest says it was reflected, counted without overflow, for every *)
(* start and every duration, claimed or true, unless the durations up to   *)
(* its segment overflow or it is so early that time.Time.Sub saturates     *)
(* (VerifyManifest): these are the only ways in from outside the window,   *)
(* and runs show that both are open.                                       *)
THEOREM ReflectedInTime == StreamSpec => []ReflectedUnlessOverflow
<1>1. StreamIInv => ReflectedUnlessOverflow
  BY WithinWindow
<1> QED
  BY <1>1, StreamInvariant, PTL

-----------------------------------------------------------------------------
(* What is billed.                                                         *)

(* The deliveries of index i among the first k receipts.                   *)
Deliveries(m, i, k) == Cardinality({j \in 1 .. k : m.DeliveryReceipts[j].SeqStart = i})

(* The bytes of every segment that the first k receipts deliver.           *)
BytesDelivered(m, k) ==
    [pos \in 1 .. Len(m.Segments) |->
        m.Segments[pos].Bytes * Deliveries(m, m.Segments[pos].Index, k)]

(* The segments the host measured.                                         *)
Measured(m) == {pos \in Positions(m) : m.Segments[pos].Provenance = "host-verified"}

(* The bytes delivered in S, counted without overflow, as BilledAsMeasured *)
(* counts them.                                                            *)
Delivered(m, S) ==
    MapThenSumSet(LAMBDA pos : m.Segments[pos].Bytes
                      * Cardinality({k \in DOMAIN m.DeliveryReceipts :
                            m.DeliveryReceipts[k].SeqStart = m.Segments[pos].Index}),
                  S)

(* The bytes delivered in S are any sum of the bytes delivered of its      *)
(* segments.                                                               *)
LEMMA DeliveredSum ==
    ASSUME NEW m, Len(m.Segments) \in Nat,
           DOMAIN m.DeliveryReceipts = 1 .. Len(m.DeliveryReceipts),
           NEW S \in SUBSET (1 .. Len(m.Segments)),
           NEW g \in [SUBSET (1 .. Len(m.Segments)) -> Int],
           Sums(g, Len(m.Segments), BytesDelivered(m, Len(m.DeliveryReceipts)))
    PROVE  Delivered(m, S) = g[S]
<1> DEFINE n == Len(m.Segments)
           Term(x) == m.Segments[x].Bytes
                      * Cardinality({k \in DOMAIN m.DeliveryReceipts :
                            m.DeliveryReceipts[k].SeqStart = m.Segments[x].Index})
           f == BytesDelivered(m, Len(m.DeliveryReceipts))
           Added(e) == [s \in SUBSET S |->
                    IF s = {} THEN 0
                    ELSE LET x == CHOOSE x \in s : TRUE
                         IN  Term(x) + e[s \ {x}]]
           iter == CHOOSE e : e = Added(e)
           own == [s \in SUBSET S |-> g[s]]
<1>1. Delivered(m, S) = iter[S]
  BY DEF Delivered, MapThenSumSet, MapThenFoldSet
<1>2. \A s \in SUBSET S : s # {} => (CHOOSE x \in s : TRUE) \in s
  OBVIOUS
<1>a. \A e : Adds(e, S, f) => e[S] = g[S]
  BY SumIsUnique, Zenon
<1>b. \A x \in S : f[x] = Term(x)
  BY DEF BytesDelivered, Deliveries
<1> HIDE DEF f, n
<1>3. own = Added(own)
  <2>1. ASSUME NEW s \in SUBSET S, s # {}
        PROVE  LET x == CHOOSE x \in s : TRUE
               IN  own[s] = Term(x) + own[s \ {x}]
    <3> DEFINE x == CHOOSE x \in s : TRUE
    <3>1. x \in s
      BY <1>2, <2>1
    <3> HIDE DEF x
    <3>2. s \in SUBSET (1 .. n) /\ x \in S /\ s \ {x} \in SUBSET S
      BY <3>1 DEF n
    <3>3. g[s] = f[x] + g[s \ {x}]
      BY <3>1, <3>2, Zenon DEF Sums, n, f
    <3>4. own[s] = Term(x) + own[s \ {x}]
      BY <1>b, <3>2, <3>3
    <3> QED
      BY <3>4 DEF x
  <2>2. own[{}] = 0
    BY DEF Sums
  <2> QED
    BY <2>1, <2>2
<1>4. iter = Added(iter)
  BY <1>3
<1>5. Adds(iter, S, f)
  <2>1. iter[{}] = 0
    BY <1>4
  <2>2. ASSUME NEW s \in SUBSET S, s # {}
        PROVE  \E x \in s : iter[s] = f[x] + iter[s \ {x}]
    <3> DEFINE x == CHOOSE x \in s : TRUE
    <3>1. iter[s] = Term(x) + iter[s \ {x}]
      BY <1>4, <2>2
    <3>2. x \in s
      BY <1>2, <2>2
    <3> HIDE DEF iter, x
    <3> QED
      BY <1>b, <3>1, <3>2
  <2> HIDE DEF iter
  <2> QED
    BY <2>1, <2>2, Zenon DEF Adds
<1> HIDE DEF iter
<1> QED
  BY <1>1, <1>a, <1>5

(* One more receipt is one more delivery of the index it names.            *)
LEMMA OneDelivery ==
    ASSUME NEW m, NEW k \in Nat \ {0}, NEW i
    PROVE  /\ Deliveries(m, i, k) \in Nat /\ Deliveries(m, i, k - 1) \in Nat
           /\ Deliveries(m, i, 0) = 0
           /\ Deliveries(m, i, k) = IF m.DeliveryReceipts[k].SeqStart = i
                                    THEN Deliveries(m, i, k - 1) + 1
                                    ELSE Deliveries(m, i, k - 1)
<1> DEFINE Of(l) == {j \in 1 .. l : m.DeliveryReceipts[j].SeqStart = i}
<1>1. \A l \in Nat : IsFiniteSet(Of(l)) /\ Cardinality(Of(l)) \in Nat
  <2> TAKE l \in Nat
  <2>1. Of(l) \in SUBSET (1 .. l)
    OBVIOUS
  <2>2. IsFiniteSet(1 .. l)
    BY FS_Interval
  <2> HIDE DEF Of
  <2>3. IsFiniteSet(Of(l))
    BY <2>1, <2>2, FS_Subset, Zenon
  <2> QED
    BY <2>3, FS_CardinalityType
<1>2. Of(0) = {}
  OBVIOUS
<1>3. Cardinality(Of(0)) = 0
  <2> HIDE DEF Of
  <2> QED
    BY <1>2, FS_EmptySet
<1>4. k - 1 \in Nat /\ k \in Nat
  OBVIOUS
<1>5. CASE m.DeliveryReceipts[k].SeqStart = i
  <2>1. Of(k) = Of(k - 1) \cup {k} /\ k \notin Of(k - 1)
    BY <1>5
  <2> HIDE DEF Of
  <2>2. Cardinality(Of(k)) = Cardinality(Of(k - 1)) + 1
    BY <1>1, <1>4, <2>1, FS_AddElement
  <2> QED
    BY <1>1, <1>3, <1>4, <1>5, <2>2 DEF Deliveries, Of
<1>6. CASE m.DeliveryReceipts[k].SeqStart # i
  <2>1. Of(k) = Of(k - 1)
    BY <1>6
  <2> HIDE DEF Of
  <2>2. Cardinality(Of(k)) = Cardinality(Of(k - 1))
    BY <2>1
  <2> QED
    BY <1>1, <1>3, <1>4, <1>6, <2>2 DEF Deliveries, Of
<1> QED
  BY <1>5, <1>6

(* The bytes delivered of a segment are a number.                          *)
LEMMA DeliveredType ==
    ASSUME NEW m, Collected(m), NEW k \in Nat
    PROVE  BytesDelivered(m, k) \in [1 .. Len(m.Segments) -> Int]
<1> SUFFICES ASSUME NEW pos \in 1 .. Len(m.Segments)
             PROVE  m.Segments[pos].Bytes * Deliveries(m, m.Segments[pos].Index, k) \in Int
  BY DEF BytesDelivered
<1>1. m.Segments[pos] \in Segment
  BY DEF Collected
<1>2. m.Segments[pos].Bytes \in Int
  BY <1>1, DraftTypes
<1>3. Deliveries(m, m.Segments[pos].Index, k) \in Nat
  <2>1. k + 1 \in Nat \ {0} /\ (k + 1) - 1 = k
    OBVIOUS
  <2> QED
    BY <2>1, OneDelivery
<1> QED
  BY <1>2, <1>3

(* The bytes delivered by the first k receipts, summed over the measured   *)
(* segments, are what the first k receipts credit, in 64 bits.             *)
BilledTo(m, h, k) ==
    \E g \in [SUBSET (1 .. Len(m.Segments)) -> Int] :
        /\ Sums(g, Len(m.Segments), BytesDelivered(m, k))
        /\ h[k] = Wrap(g[Measured(m)])

(* One more receipt adds one delivery to the one segment of its index,     *)
(* which is what it credits if the host measured that segment.             *)
LEMMA BilledNext ==
    ASSUME NEW m, Collected(m), Continuous(m),
           NEW h, NEW k \in 1 .. Len(m.DeliveryReceipts),
           ReceiptMatches(m, m.DeliveryReceipts[k]),
           h[k] = IF Credited(m, m.DeliveryReceipts[k])
                  THEN Wrap(h[k - 1]
                            + segByIndex(m, m.DeliveryReceipts[k].SeqStart).Bytes)
                  ELSE h[k - 1],
           BilledTo(m, h, k - 1)
    PROVE  BilledTo(m, h, k)
<1> DEFINE n == Len(m.Segments)
           r == m.DeliveryReceipts[k]
           p == segPosition(m, r.SeqStart)
           bytes == m.Segments[p].Bytes
           f1 == BytesDelivered(m, k - 1)
           f2 == BytesDelivered(m, k)
           V == Measured(m)
           c(pos) == Deliveries(m, m.Segments[pos].Index, k - 1)
<1>1. n \in Nat /\ Positions(m) = 1 .. n /\ V \in SUBSET (1 .. n)
      /\ Len(m.DeliveryReceipts) \in Nat /\ Len(m.DeliveryReceipts) <= MaxReceipts
  BY DEF Collected, Positions, Measured
<1>2. k \in Nat \ {0} /\ k - 1 \in Nat
  BY <1>1
<1>3. /\ p \in 1 .. n /\ m.Segments[p].Index = r.SeqStart
      /\ \A pos \in 1 .. n : m.Segments[pos].Index = r.SeqStart => pos = p
  BY SegmentsUpTo DEF ReceiptMatches
<1>4. bytes \in Int
  <2>1. m.Segments[p] \in Segment
    BY <1>3 DEF Collected
  <2> QED
    BY <2>1, DraftTypes
<1>5. f1 \in [1 .. n -> Int] /\ f2 \in [1 .. n -> Int]
  BY <1>2, DeliveredType
<1>6. PICK g1 \in [SUBSET (1 .. n) -> Int] : Sums(g1, n, f1) /\ h[k - 1] = Wrap(g1[V])
  BY DEF BilledTo
<1>7. PICK g2 \in [SUBSET (1 .. n) -> Int] : Sums(g2, n, f2)
  BY <1>1, <1>5, SumsExist, Zenon
<1>8. ASSUME NEW pos \in 1 .. n
      PROVE  /\ f1[pos] = m.Segments[pos].Bytes * c(pos) /\ c(pos) \in Nat
             /\ f2[pos] = m.Segments[pos].Bytes
                          * (IF pos = p THEN c(pos) + 1 ELSE c(pos))
  <2>1. Deliveries(m, m.Segments[pos].Index, k)
        = IF r.SeqStart = m.Segments[pos].Index THEN c(pos) + 1 ELSE c(pos)
    BY <1>2, OneDelivery
  <2>2. c(pos) \in Nat
    BY <1>2, OneDelivery
  <2>3. r.SeqStart = m.Segments[pos].Index <=> pos = p
    BY <1>3
  <2> QED
    BY <2>1, <2>2, <2>3 DEF BytesDelivered
<1>9. \A pos \in 1 .. n : pos # p => f1[pos] = f2[pos]
  BY <1>8
<1>10. f2[p] = f1[p] + bytes
  <2>1. f1[p] = bytes * c(p) /\ f2[p] = bytes * (c(p) + 1) /\ c(p) \in Nat
    BY <1>3, <1>8
  <2> HIDE DEF c, bytes, p, f1, f2
  <2>2. bytes \in Int
    BY <1>4
  <2> DEFINE cc == c(p)
  <2>3. cc \in Nat /\ f1[p] = bytes * cc /\ f2[p] = bytes * (cc + 1)
    BY <2>1
  <2> HIDE DEF cc
  <2>4. bytes * (cc + 1) = bytes * cc + bytes
    BY <2>2, <2>3
  <2> QED
    BY <2>3, <2>4
<1>13. h[k] = IF p \in V THEN Wrap(h[k - 1] + bytes) ELSE h[k - 1]
  <2>1. Credited(m, r) <=> p \in V
    BY <1>1, <1>3 DEF Credited, Measured, segByIndex
  <2> QED
    BY <2>1 DEF segByIndex
<1> HIDE DEF V, p, bytes, f1, f2, n
<1>14. CASE p \in V
  <2>1. g1[V] \in Int
    BY <1>1
  <2>2. h[k] = Wrap(g1[V] + bytes)
    BY <1>4, <1>6, <1>13, <1>14, <2>1, WrapAdds
  <2>3. g2[V] = g1[V] + bytes
    <3>1. bytes \in Int /\ \A y \in V : y # p => f1[y] = f2[y]
      BY <1>1, <1>4, <1>9
    <3> QED
      BY <1>1, <1>5, <1>6, <1>7, <1>10, <1>14, <3>1, SumChanges
  <2>4. h[k] = Wrap(g2[V])
    BY <2>2, <2>3
  <2> QED
    BY <1>7, <2>4 DEF BilledTo, V, f2, n
<1>15. CASE p \notin V
  <2>1. Agree(f1, f2, V)
    BY <1>1, <1>9, <1>15 DEF Agree
  <2>2. g1[V] = g2[V]
    BY <1>1, <1>6, <1>7, <2>1, SumsAgree, Zenon
  <2>3. h[k] = Wrap(g2[V])
    BY <1>6, <1>13, <1>15, <2>2
  <2> QED
    BY <1>7, <2>3 DEF BilledTo, V, f2, n
<1> QED
  BY <1>14, <1>15

(* By induction over the receipts, what is billed is what was delivered of *)
(* the segments the host measured.                                         *)
LEMMA Billed ==
    ASSUME StreamIInv
    PROVE  BilledAsMeasured
<1> SUFFICES ASSUME NEW a \in accepted
             PROVE  a.billed = Wrap(Delivered(a.manifest, Measured(a.manifest)))
  BY DEF BilledAsMeasured, Delivered, Measured
<1> DEFINE m == a.manifest
           n == Len(m.Segments)
           K == Len(m.DeliveryReceipts)
           V == Measured(m)
<1>1. /\ Collected(m) /\ Continuous(m) /\ a.billed = VerifiedDeliveredBytes(m)
      /\ \A k \in DOMAIN m.DeliveryReceipts : ReceiptMatches(m, m.DeliveryReceipts[k])
  BY DEF StreamIInv, VerifyManifest
<1> HIDE DEF m
<1>2. /\ n \in Nat /\ K \in Nat /\ DOMAIN m.DeliveryReceipts = 1 .. K
      /\ V \in SUBSET (1 .. n)
  BY <1>1 DEF Collected, Measured, Positions
<1>3. PICK h \in [0 .. K -> Int] : BillSteps(m, h)
  BY <1>1, BilledSteps DEF Collected
<1>4. BilledTo(m, h, 0)
  <2> DEFINE f == BytesDelivered(m, 0)
  <2>1. \A x \in V : f[x] = 0
    <3> SUFFICES ASSUME NEW x \in V
                 PROVE  f[x] = 0
      OBVIOUS
    <3>1. m.Segments[x] \in Segment /\ x \in 1 .. n
      BY <1>1, <1>2 DEF Collected
    <3>2. m.Segments[x].Bytes \in Int
      BY <3>1, DraftTypes
    <3>3. Deliveries(m, m.Segments[x].Index, 0) = 0
      BY OneDelivery
    <3>4. f[x] = m.Segments[x].Bytes * 0
      BY <3>1, <3>3 DEF BytesDelivered
    <3> QED
      BY <3>2, <3>4
  <2>2. f \in [1 .. n -> Int]
    BY <1>1, DeliveredType
  <2>3. PICK g \in [SUBSET (1 .. n) -> Int] : Sums(g, n, f)
    BY <1>2, <2>2, SumsExist, Zenon
  <2> HIDE DEF f, V, n
  <2>4. g[V] = 0
    BY <1>2, <2>1, <2>3, ZeroSum
  <2>5. h[0] = 0 /\ Wrap(0) = 0
    <3>1. 0 \in -Half .. Half - 1
      BY StreamAssumption DEF StreamAssumption
    <3> QED
      BY <1>3, <3>1, WrapSmall DEF BillSteps
  <2> QED
    BY <2>3, <2>4, <2>5 DEF BilledTo, f, V, n
<1> DEFINE S == {k \in 0 .. K : BilledTo(m, h, k)}
<1> HIDE DEF K, V
<1>5. ASSUME NEW k \in 1 .. K, k - 1 \in S
      PROVE  k \in S
  <2>1. BilledTo(m, h, k)
    BY <1>1, <1>2, <1>3, <1>5, BilledNext DEF BillSteps, K
  <2> QED
    BY <1>2, <2>1
<1>6. K \in S
  <2>1. 0 \in S /\ K \in 0 .. K
    BY <1>2, <1>4
  <2> HIDE DEF S
  <2> QED
    BY <1>2, <1>5, <2>1, UpTo
<1>7. PICK g \in [SUBSET (1 .. n) -> Int] :
          Sums(g, n, BytesDelivered(m, K)) /\ h[K] = Wrap(g[V])
  BY <1>6 DEF BilledTo, V
<1>8. Delivered(m, V) = g[V]
  BY <1>2, <1>7, DeliveredSum DEF K
<1>9. a.billed = h[K]
  BY <1>1, <1>3 DEF BillSteps, K
<1> QED
  BY <1>7, <1>8, <1>9 DEF m, V

(* What is billed for an accepted manifest is, in 64 bits, the sum over    *)
(* the segments the host measured of their bytes times the deliveries      *)
(* acknowledged: no claim of the worker or of a consumer enters it, and a  *)
(* segment's index names one segment only, since VerifyManifest demanded   *)
(* that indices increase (VerifiedDeliveredBytes).                         *)
THEOREM BilledForDeliveries == StreamSpec => []BilledAsMeasured
<1>1. StreamIInv => BilledAsMeasured
  BY Billed
<1> QED
  BY <1>1, StreamInvariant, PTL
=============================================================================
