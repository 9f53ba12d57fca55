----------------------------- MODULE MCReceipts -----------------------------
(* Instances of Receipts for TLC.                                          *)
EXTENDS Receipts

AllStrings == STRING

Native == [ExecutionSecurityTier |-> "trusted-native",
           ProofTier |-> "artifact-hash", ImageDigest |-> ""]
Confidential == [ExecutionSecurityTier |-> "confidential-cpu",
                 ProofTier |-> "attested-receipt", ImageDigest |-> "img"]

Claimed == [NoVerifierResult EXCEPT !.Provider = "worker", !.Status = "accepted"]

Attested(task, issued, expires, keyExpires) ==
    LET a == [DecisionID |-> "d1", HardwareClass |-> "confidential-cpu",
              ExecutorImageDigest |-> "img", PolicyID |-> "p1", Nonce |-> "n1",
              IssuedAt |-> issued, ExpiresAt |-> expires,
              ConfidentialGPU |-> FALSE, SignatureVerified |-> TRUE,
              KeyID |-> "att-key"]
    IN  [Provider |-> "tee", Status |-> "accepted", Attestation |-> a,
         KeyRelease |->
            [DecisionID |-> "k1", AttestationDigest |-> BindingDigest(a),
             AttestationKeyID |-> "att-key", PolicyID |-> "p1",
             TaskID |-> task, Released |-> TRUE, ExpiresAt |-> keyExpires,
             SignatureVerified |-> TRUE]]

Draft(kind, task, executor, verifier) ==
    [kind |-> kind, TaskID |-> task, PolicyID |-> "p1", Executor |-> executor,
     Route |-> IF kind = "edge"
               THEN [Target |-> "service-route", ContentRef |-> FALSE,
                     IngressEvidence |-> TRUE]
               ELSE NoRoute,
     StartedAt |-> 2, FinishedAt |-> 3, wellFormed |-> TRUE,
     Verifier |-> verifier]

(* Receipts in circulation: plain and attested service receipts, an edge   *)
(* receipt on each kind of route and one without ingress evidence, a proof *)
(* receipt, and a service receipt whose worker claims a verdict.           *)
CirculatingDrafts ==
    { Draft("service", "t1", Native, NoVerifierResult),
      Draft("service", "t2", Native, Claimed),
      Draft("service", "t1", Confidential, Attested("t1", 1, 4, 4)),
      Draft("service", "t1", Confidential, Attested("t1", 1, 4, 3)),
      Draft("edge", "t1", Native, NoVerifierResult),
      [Draft("edge", "t1", Native, NoVerifierResult)
          EXCEPT !.Route.IngressEvidence = FALSE],
      Draft("proof", "t1", Native, Claimed) }

CirculatingRuns == {[c EXCEPT !.Verifier = NoVerifierResult] : c \in CirculatingDrafts}

BothOptions ==
    { [CredentialTokenProofKey |-> "k1", AllowSoftwareFallback |-> FALSE,
       VerifierProvider |-> ""],
      [CredentialTokenProofKey |-> NoKey, AllowSoftwareFallback |-> TRUE,
       VerifierProvider |-> "edge-host"] }

(* Every placement of the five instants of an attested run over 0 .. 2, for*)
(* a proof and for a service receipt, released for this task or another.   *)
Instants == 0 .. 2
WindowDrafts ==
    { [Draft(kind, "t1", Confidential, Attested(task, issued, expires, key))
          EXCEPT !.StartedAt = started, !.FinishedAt = finished] :
        kind \in {"proof", "service"}, task \in {"t1", "t2"},
        issued \in Instants, expires \in Instants, key \in Instants,
        started \in 1 .. 2, finished \in 1 .. 2 }

MCDrafts == CirculatingDrafts \cup WindowDrafts

(* The window drafts are explored with one receipt on the wire, the others *)
(* with as many as MaxWire allows.                                         *)
OneScenario ==
    \/ Cardinality(wire) <= 1
    \/ \A r \in wire : [r.content EXCEPT !.Verifier = NoVerifierResult] \in CirculatingRuns
=============================================================================
