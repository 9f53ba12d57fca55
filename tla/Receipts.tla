------------------------------ MODULE Receipts ------------------------------
(***************************************************************************)
(* Proof, service and edge-request receipts of protocol/receipt_signature.go*)
(* and the attested bindings of protocol/types.go: how a worker or a router *)
(* signs a receipt, what the signature covers, and what a host that        *)
(* verifies it accepts, stamps and passes on.                              *)
(*                                                                         *)
(* A receipt is a pair of its content (every JSON field but the signature) *)
(* and its signature.  CanonicalHash and the HMAC are symbolic: a signature*)
(* is the scheme, the key and the content it was computed over, so two     *)
(* signatures are equal exactly when the hashed JSON is equal.  The host,  *)
(* the transport and the store around the library are external: a receipt  *)
(* on the wire may be delivered late, repeatedly, altered or never.        *)
(***************************************************************************)
EXTENDS Naturals, FiniteSets

CONSTANTS
    Strings,   \* the values of the string fields, "" for an absent one
    Keys,      \* non-empty token proof keys (TokenProofKey of a token)
    NoKey,     \* the empty token proof key, TokenProofKey("")
    Drafts,    \* the contents that workers and routers produce
    Options,   \* ReceiptVerificationOptions of the verifying hosts
    Restamps,  \* statuses a host may write on a copy it holds
    MaxWire    \* bound on the number of receipts in transit

VARIABLES
    wire,      \* receipts in transit; never removed, so delivery may repeat
    signed,    \* history: <<key, content>> of every keyed signing
    stored     \* what verification returned, with the options it ran under

vars == <<wire, signed, stored>>

-----------------------------------------------------------------------------
(* Contents.  0 is the zero time.Time; "" an absent string field.          *)

Kinds == {"proof", "service", "edge"}

Executor == [ExecutionSecurityTier : Strings, ProofTier : Strings,
             ImageDigest : Strings]

AttestationDecision ==
    [DecisionID : Strings, HardwareClass : Strings, ExecutorImageDigest : Strings,
     PolicyID : Strings, Nonce : Strings, IssuedAt : Nat, ExpiresAt : Nat,
     ConfidentialGPU : BOOLEAN, SignatureVerified : BOOLEAN, KeyID : Strings]

NoAttestation ==
    [DecisionID |-> "", HardwareClass |-> "", ExecutorImageDigest |-> "",
     PolicyID |-> "", Nonce |-> "", IssuedAt |-> 0, ExpiresAt |-> 0,
     ConfidentialGPU |-> FALSE, SignatureVerified |-> FALSE, KeyID |-> ""]

(* The digest is symbolic: the decision with its signature cleared.        *)
BindingDigest(a) ==
    [a EXCEPT !.SignatureVerified = FALSE, !.KeyID = ""]

KeyReleaseDecision ==
    [DecisionID : Strings, AttestationDigest : AttestationDecision,
     AttestationKeyID : Strings, PolicyID : Strings, TaskID : Strings,
     Released : BOOLEAN, ExpiresAt : Nat, SignatureVerified : BOOLEAN]

NoKeyRelease ==
    [DecisionID |-> "", AttestationDigest |-> NoAttestation,
     AttestationKeyID |-> "", PolicyID |-> "", TaskID |-> "",
     Released |-> FALSE, ExpiresAt |-> 0, SignatureVerified |-> FALSE]

VerifierResult ==
    [Provider : Strings, Status : Strings,
     Attestation : AttestationDecision, KeyRelease : KeyReleaseDecision]

NoVerifierResult ==
    [Provider |-> "", Status |-> "",
     Attestation |-> NoAttestation, KeyRelease |-> NoKeyRelease]

(* What an edge receipt says about its route; other kinds carry NoRoute.   *)
Route == [Target : Strings, ContentRef : BOOLEAN, IngressEvidence : BOOLEAN]
NoRoute == [Target |-> "", ContentRef |-> FALSE, IngressEvidence |-> FALSE]

(* TaskID stands for everything the receipt says was run, by whom and with *)
(* which inputs (task, input, closure or deployment hash, worker, pool).   *)
(* wellFormed says that the remaining identifiers, digests and evidence    *)
(* records have the syntax their validators demand.                        *)
Content ==
    [kind : Kinds, TaskID : Strings, PolicyID : Strings, Executor : Executor,
     Route : Route, StartedAt : Nat, FinishedAt : Nat,
     wellFormed : BOOLEAN, Verifier : VerifierResult]

NoContent ==
    [kind |-> "proof", TaskID |-> "", PolicyID |-> "",
     Executor |-> [ExecutionSecurityTier |-> "", ProofTier |-> "",
                   ImageDigest |-> ""],
     Route |-> NoRoute, StartedAt |-> 0, FinishedAt |-> 0,
     wellFormed |-> FALSE, Verifier |-> NoVerifierResult]

Schemes == {"none", "credential-hmac-sha256", "software-agent",
            "software-router"}

Signature == [scheme : Schemes, key : Keys \cup {NoKey}, payload : Content]

Receipt == [content : Content, sig : Signature]

ReceiptVerificationOptions ==
    [CredentialTokenProofKey : Keys \cup {NoKey},
     AllowSoftwareFallback : BOOLEAN, VerifierProvider : Strings]

ASSUME ReceiptsAssumption ==
    /\ {"", "accepted", "signed_receipt"} \subseteq Strings
    /\ NoKey \notin Keys
    /\ Drafts \subseteq Content
    /\ Options \subseteq ReceiptVerificationOptions
    /\ Restamps \subseteq Strings
    /\ MaxWire \in Nat

-----------------------------------------------------------------------------
(* Executors and attested bindings.                                        *)

RequiresAttestation(e) ==
    \/ e.ExecutionSecurityTier \in {"confidential-cpu", "confidential-gpu"}
    \/ e.ProofTier \in {"attested-receipt", "attested-quorum"}

ValidateForProof(e) ==
    /\ e.ExecutionSecurityTier # ""
    /\ e.ProofTier # ""
    /\ e.ExecutionSecurityTier \notin {"trusted-native", "wasm-capability"}
          => e.ImageDigest # ""

(* The checks both attested bindings make on the attestation.              *)
AttestationMatches(c, a) ==
    /\ a.DecisionID # ""
    /\ a.PolicyID # "" /\ a.PolicyID = c.PolicyID
    /\ a.HardwareClass # "" /\ a.HardwareClass = c.Executor.ExecutionSecurityTier
    /\ a.ExecutorImageDigest # "" /\ a.ExecutorImageDigest = c.Executor.ImageDigest
    /\ a.SignatureVerified /\ a.KeyID # ""
    /\ c.Executor.ExecutionSecurityTier = "confidential-gpu" => a.ConfidentialGPU

(* The checks both make on the key release and on its link to a.           *)
KeyReleaseMatches(a, k) ==
    /\ k.DecisionID # ""
    /\ k.AttestationDigest = BindingDigest(a)
    /\ k.SignatureVerified
    /\ k.Released

(* A slip in WindowsNested: the key release may outlive the attestation and*)
(* the run may outlive the key release.                                    *)
WindowsNested_NoKeyExpiry(c, a, k) ==
    /\ c.StartedAt # 0 /\ a.IssuedAt # 0 => a.IssuedAt <= c.StartedAt
    /\ c.FinishedAt # 0 /\ a.ExpiresAt # 0 => c.FinishedAt <= a.ExpiresAt

(* A time bound is only compared when both instants are present.           *)
WindowsNested(c, a, k) ==
    /\ k.ExpiresAt # 0 /\ a.ExpiresAt # 0 => k.ExpiresAt <= a.ExpiresAt
    /\ c.StartedAt # 0 /\ a.IssuedAt # 0 => a.IssuedAt <= c.StartedAt
    /\ c.FinishedAt # 0 /\ a.ExpiresAt # 0 => c.FinishedAt <= a.ExpiresAt
    /\ c.FinishedAt # 0 /\ k.ExpiresAt # 0 => c.FinishedAt <= k.ExpiresAt

ValidateAttestedProofBinding(c) ==
    LET a == c.Verifier.Attestation
        k == c.Verifier.KeyRelease
    IN  /\ ValidateForProof(c.Executor)
        /\ c.Verifier.Provider # "" /\ c.Verifier.Status = "accepted"
        /\ AttestationMatches(c, a)
        /\ a.Nonce # ""
        /\ a.IssuedAt # 0 /\ a.ExpiresAt # 0 /\ a.ExpiresAt > a.IssuedAt
        /\ KeyReleaseMatches(a, k)
        /\ k.AttestationKeyID = a.KeyID
        /\ k.PolicyID = c.PolicyID /\ k.TaskID # "" /\ k.TaskID = c.TaskID
        /\ k.ExpiresAt # 0
        /\ WindowsNested(c, a, k)

(* The service binding requires neither the nonce, nor the instants, nor   *)
(* the names in the key release: what is absent is not compared.           *)
ValidateAttestedServiceBinding(c) ==
    LET a == c.Verifier.Attestation
        k == c.Verifier.KeyRelease
    IN  /\ ValidateForProof(c.Executor)
        /\ c.Verifier.Provider # "" /\ c.Verifier.Status = "accepted"
        /\ AttestationMatches(c, a)
        /\ KeyReleaseMatches(a, k)
        /\ k.PolicyID \in {"", c.PolicyID} /\ k.TaskID \in {"", c.TaskID}
        /\ WindowsNested(c, a, k)

-----------------------------------------------------------------------------
(* The validators of the three receipts.                                   *)

ValidTimes(c) ==
    /\ c.StartedAt # 0 /\ c.FinishedAt # 0
    /\ c.StartedAt <= c.FinishedAt

validStoredProofStatus(s) == s \in {"pending", "accepted", "rejected", "conflicted"}

ValidateProofReceipt(c, sig) ==
    /\ c.wellFormed
    /\ ValidateForProof(c.Executor)
    /\ sig.scheme # "none"
    /\ c.Verifier.Provider # "" /\ c.Verifier.Status = "accepted"
    /\ RequiresAttestation(c.Executor) => ValidateAttestedProofBinding(c)
    /\ ValidTimes(c)

ValidateServiceReceipt(c, sig) ==
    /\ c.wellFormed
    /\ ValidateForProof(c.Executor)
    /\ sig.scheme # "none"
    /\ c.Verifier.Provider # "" /\ validStoredProofStatus(c.Verifier.Status)
    /\ RequiresAttestation(c.Executor) => ValidateAttestedServiceBinding(c)
    /\ ValidTimes(c)

(* A service route needs ingress evidence and no content reference, a      *)
(* content route needs the reference; any other target is refused.         *)
ValidRoute(r) ==
    \/ r.Target = "service-route" /\ ~r.ContentRef /\ r.IngressEvidence
    \/ r.Target = "content-route" /\ r.ContentRef

ValidateEdgeRequestReceipt(c, sig) ==
    /\ c.wellFormed
    /\ sig.scheme # "none"
    /\ ValidRoute(c.Route)
    /\ c.Verifier.Provider # "" /\ validStoredProofStatus(c.Verifier.Status)
    /\ ValidTimes(c)

-----------------------------------------------------------------------------
(* Signing.  Each function clears the signature field; the service one also*)
(* clears the verifier result unless the executor requires attestation, the*)
(* edge one always, the proof one never.                                   *)

ProofPayload(c) == c

(* Slips in what the signature covers: the verifier result of a plain      *)
(* service receipt included, and the one of an attested receipt left out.  *)
ServicePayload_KeepsVerifier(c) == c
ServicePayload_DropsVerifier(c) == [c EXCEPT !.Verifier = NoVerifierResult]

ServicePayload(c) ==
    IF RequiresAttestation(c.Executor) THEN c
    ELSE [c EXCEPT !.Verifier = NoVerifierResult]

EdgePayload(c) == [c EXCEPT !.Verifier = NoVerifierResult]

SignedPayload(c) ==
    CASE c.kind = "proof"   -> ProofPayload(c)
      [] c.kind = "service" -> ServicePayload(c)
      [] c.kind = "edge"    -> EdgePayload(c)

NoSignature == [scheme |-> "none", key |-> NoKey, payload |-> NoContent]

(* CredentialProofSignature, CredentialServiceSignature and                *)
(* CredentialEdgeSignature return "" for the empty key.                    *)
CredentialSignature(c, key) ==
    IF key = NoKey THEN NoSignature
    ELSE [scheme |-> "credential-hmac-sha256", key |-> key,
          payload |-> SignedPayload(c)]

SoftwareSignature(c) ==
    [scheme |-> IF c.kind = "edge" THEN "software-router" ELSE "software-agent",
     key |-> NoKey, payload |-> SignedPayload(c)]

-----------------------------------------------------------------------------
(* Verification.                                                           *)

(* A slip: the signature is trusted for its prefix and its key.            *)
VerifyCredentialSignature_PrefixOnly(c, sig, key) ==
    /\ key # NoKey
    /\ sig.scheme = "credential-hmac-sha256"
    /\ sig.key = key

VerifyCredentialSignature(c, sig, key) ==
    /\ key # NoKey
    /\ sig.scheme = "credential-hmac-sha256"
    /\ sig = CredentialSignature(c, key)

(* A slip: the software fallback is taken whether or not it is allowed.    *)
SignatureValid_AlwaysFallback(c, sig, opts) ==
    IF sig.scheme = "credential-hmac-sha256"
    THEN VerifyCredentialSignature(c, sig, opts.CredentialTokenProofKey)
    ELSE sig = SoftwareSignature(c)

(* serviceReceiptSignatureValid and edgeRequestReceiptSignatureValid.      *)
SignatureValid(c, sig, opts) ==
    IF sig.scheme = "credential-hmac-sha256"
    THEN VerifyCredentialSignature(c, sig, opts.CredentialTokenProofKey)
    ELSE opts.AllowSoftwareFallback /\ sig = SoftwareSignature(c)

receiptVerifierResult(opts) ==
    [NoVerifierResult EXCEPT
        !.Provider = IF opts.VerifierProvider = "" THEN "signed_receipt"
                     ELSE opts.VerifierProvider,
        !.Status = "accepted"]

(* A slip: a result that is already there is kept.                         *)
Stamp_KeepsExisting(c, opts) ==
    IF c.kind = "service" /\ RequiresAttestation(c.Executor) THEN c
    ELSE IF c.Verifier.Status # "" THEN c
    ELSE [c EXCEPT !.Verifier = receiptVerifierResult(opts)]

(* What a verifier writes: it replaces the result of an edge receipt and of*)
(* a plain service receipt, and keeps the one of an attested receipt.      *)
Stamp(c, opts) ==
    IF c.kind = "service" /\ RequiresAttestation(c.Executor) THEN c
    ELSE [c EXCEPT !.Verifier = receiptVerifierResult(opts)]

VerifyServiceReceipt(c, sig, opts) ==
    /\ c.kind = "service"
    /\ SignatureValid(c, sig, opts)
    /\ ValidateServiceReceipt(Stamp(c, opts), sig)

VerifyEdgeRequestReceipt(c, sig, opts) ==
    /\ c.kind = "edge"
    /\ SignatureValid(c, sig, opts)
    /\ ValidateEdgeRequestReceipt(Stamp(c, opts), sig)

(* The library has no VerifyProofReceipt: a host checks the credential     *)
(* signature and then validates, and the receipt is kept as it was signed. *)
VerifyProofReceipt(c, sig, opts) ==
    /\ c.kind = "proof"
    /\ VerifyCredentialSignature(c, sig, opts.CredentialTokenProofKey)
    /\ ValidateProofReceipt(c, sig)

Accepts(r, opts) ==
    \/ VerifyServiceReceipt(r.content, r.sig, opts)
    \/ VerifyEdgeRequestReceipt(r.content, r.sig, opts)
    \/ VerifyProofReceipt(r.content, r.sig, opts)

Returned(r, opts) ==
    IF r.content.kind = "proof" THEN r
    ELSE [r EXCEPT !.content = Stamp(r.content, opts)]

-----------------------------------------------------------------------------
(* The system.                                                             *)

Send(r) ==
    /\ r \in wire \/ Cardinality(wire) < MaxWire
    /\ wire' = wire \cup {r}

Init ==
    /\ wire = {}
    /\ signed = {}
    /\ stored = {}

(* A slip: the empty key signs like any other.                             *)
SignWithCredential_EmptyKeySigns(c, key) ==
    /\ Send([content |-> c, sig |-> CredentialSignature(c, key)])
    /\ signed' = signed \cup {<<key, SignedPayload(c)>>}
    /\ UNCHANGED stored

SignWithCredential(c, key) ==
    /\ Send([content |-> c, sig |-> CredentialSignature(c, key)])
    /\ signed' = IF key = NoKey THEN signed
                 ELSE signed \cup {<<key, SignedPayload(c)>>}
    /\ UNCHANGED stored

SignWithSoftware(c) ==
    /\ Send([content |-> c, sig |-> SoftwareSignature(c)])
    /\ UNCHANGED <<signed, stored>>

(* The content is damaged, or mixed up with another one, and the signature *)
(* string travels on.                                                      *)
Alter(r, c) ==
    /\ Send([r EXCEPT !.content = c])
    /\ UNCHANGED <<signed, stored>>

(* A host records its own verdict on a copy before it passes it on.        *)
Restamp(r, status) ==
    /\ Send([r EXCEPT !.content.Verifier.Status = status])
    /\ UNCHANGED <<signed, stored>>

Verify(r, opts) ==
    /\ Accepts(r, opts)
    /\ stored' = stored \cup {[receipt |-> Returned(r, opts), opts |-> opts]}
    /\ Send(Returned(r, opts))
    /\ UNCHANGED signed

Next ==
    \/ \E c \in Drafts, key \in Keys \cup {NoKey} : SignWithCredential(c, key)
    \/ \E c \in Drafts : SignWithSoftware(c)
    \/ \E r \in wire, c \in Drafts : Alter(r, c)
    \/ \E r \in wire, status \in Restamps : Restamp(r, status)
    \/ \E r \in wire, opts \in Options : Verify(r, opts)

Spec == Init /\ [][Next]_vars

-----------------------------------------------------------------------------
(* Properties.                                                             *)

(* Type invariant: receipts in transit are well-typed pairs of a content   *)
(* and a signature, the signing history pairs keys with contents, and the  *)
(* store holds receipts with the options they were verified under.         *)
TypeOK ==
    /\ wire \subseteq Receipt
    /\ signed \subseteq Keys \X Content
    /\ stored \subseteq [receipt : Receipt, opts : Options]

SameRun(c, d) == [c EXCEPT !.Verifier = NoVerifierResult]
                 = [d EXCEPT !.Verifier = NoVerifierResult]

(* Whatever happened on the way, a receipt that a host verified with its   *)
(* credential key and keeps says what the holder of that key signed: the   *)
(* same run, times, route and executor.  Only an edge or service receipt   *)
(* whose host opted into software signatures is exempt                     *)
(* (VerifyServiceReceipt, VerifyEdgeRequestReceipt,                        *)
(* VerifyCredentialProofSignature).                                        *)
RunsWereSigned ==
    \A s \in stored :
        \/ \E p \in signed : /\ p[1] = s.opts.CredentialTokenProofKey
                             /\ SameRun(p[2], s.receipt.content)
        \/ /\ s.opts.AllowSoftwareFallback
           /\ s.receipt.content.kind # "proof"
           /\ s.receipt.sig.scheme \in {"software-agent", "software-router"}

(* The decision that allowed an attested receipt is the one its worker     *)
(* signed over: no later copy with another verdict or another decision is  *)
(* ever kept (ServiceReceipt signatures cover the Verifier exactly when    *)
(* RequiresAttestation, ProofReceipt signatures always).                   *)
DecisionsWereSigned ==
    \A s \in stored :
        /\ RequiresAttestation(s.receipt.content.Executor)
        /\ s.receipt.content.kind # "edge"
        /\ s.receipt.sig.scheme = "credential-hmac-sha256"
        => <<s.opts.CredentialTokenProofKey, s.receipt.content>> \in signed

(* What a host keeps was signed by the holder of its key, the run as well  *)
(* as the decision that allowed it.                                        *)
AcceptedWasSigned == RunsWereSigned /\ DecisionsWereSigned

(* A verified receipt verifies again, unchanged, under the same options: a *)
(* host may store what VerifyServiceReceipt or VerifyEdgeRequestReceipt    *)
(* returned and re-check it later, although the stamp changed the content. *)
(* And the verdict on a kept plain receipt is the verifier's own, whatever *)
(* verdict the worker or an earlier host had written (receiptVerifierResult*)
(* replaces the field).                                                    *)
ReverifyStable ==
    \A s \in stored :
        LET c == s.receipt.content
        IN  /\ Accepts(s.receipt, s.opts)
            /\ Returned(s.receipt, s.opts) = s.receipt
            /\ c.kind = "edge" \/ (c.kind = "service" /\ ~RequiresAttestation(c.Executor))
                   => c.Verifier = receiptVerifierResult(s.opts)

(* A kept attested proof receipt ran inside the life of both decisions: it *)
(* started no earlier than the attestation, finished before the key release*)
(* lapsed, and the key release did not outlive the attestation             *)
(* (ValidateAttestedProofBinding).                                         *)
AttestedProofInsideWindows ==
    \A s \in stored :
        LET c == s.receipt.content
            a == c.Verifier.Attestation
            k == c.Verifier.KeyRelease
        IN  c.kind = "proof" /\ RequiresAttestation(c.Executor)
            => /\ 0 < a.IssuedAt /\ a.IssuedAt <= c.StartedAt
               /\ c.StartedAt <= c.FinishedAt
               /\ c.FinishedAt <= k.ExpiresAt
               /\ k.ExpiresAt <= a.ExpiresAt
               /\ k.TaskID = c.TaskID

=============================================================================
