--------------------------- MODULE LeaseDocuments ---------------------------
(***************************************************************************)
(* The documents a leased task consists of, in protocol/types.go: tasks,   *)
(* leases, P2P session policies, run-log policies, provider operations and *)
(* artifact deliveries, with their validators and, where the encoding      *)
(* decides something, their JSON forms.                                    *)
(*                                                                         *)
(* Data: an instant is a number, 0 the zero time; a canonical hash is      *)
(* symbolic, the payload it is computed over.                              *)
(***************************************************************************)
EXTENDS Workloads

CONSTANTS
    ArtifactNames,  \* the names validProviderArtifactName accepts
    NoHash,         \* no policy hash
    NoPolicy,       \* no P2P session policy
    NoField,        \* a JSON document without the field
    Null            \* JSON null

-----------------------------------------------------------------------------
(* P2P session policies.                                                   *)

SigningPayload(p) == [p EXCEPT !.PolicyHash = NoHash]

(* Without a time (now = 0) nothing is compared with the clock.  The       *)
(* signature is looked at for its shape only, which is in wellFormed.      *)
SessionPolicyInForce(p, now) ==
    /\ p.wellFormed
    /\ 0 \notin {p.IssuedAt, p.NotBefore, p.ExpiresAt, p.RevocationFreshUntil}
    /\ p.IssuedAt <= p.NotBefore /\ p.NotBefore < p.ExpiresAt
    /\ now # 0 => /\ p.NotBefore <= now /\ now < p.ExpiresAt
                  /\ now < p.RevocationFreshUntil
    /\ p.SessionGeneration > 0
    /\ p.Mode \in {"relay", "p2p_stream", "p2p_content"}
    /\ p.Peers # <<>> /\ IsInjective(p.Peers) /\ Len(p.Peers) <= p.MaxPeers
    /\ p.AllowedProtocols
    /\ p.Mode = "p2p_content" => p.ContentRefs

(* A slip: a hash is there, whatever it is over.                           *)
SessionPolicyValid_AnyHash(p, now) ==
    SessionPolicyInForce(p, now) /\ p.PolicyHash # NoHash

SessionPolicyValid(p, now) ==
    SessionPolicyInForce(p, now) /\ p.PolicyHash = SigningPayload(p)

-----------------------------------------------------------------------------
(* Run-log policies.  What authorises full logs: retention, whose policy,  *)
(* its hash, the provider's enrolment, and whether the request was cut.    *)

NoAuthority ==
    [RetentionSeconds |-> 0, PolicyRef |-> Unset, PolicyHash |-> FALSE,
     ProviderEnrollmentID |-> Unset, RequestAdjusted |-> FALSE]

ZeroRunLog ==
    [Version |-> Unset, PreserveFullLogs |-> FALSE, Authority |-> NoAuthority,
     present |-> FALSE]

(* A slip: an empty policy that was written out is the absence of one.     *)
UnmarshalJSON_ForgetsPresent(w) == IF w = Null THEN ZeroRunLog ELSE w

(* What is decoded remembers that it was there, if only as null or {}.     *)
UnmarshalJSON(w) ==
    IF w = Null THEN [ZeroRunLog EXCEPT !.present = TRUE] ELSE [w EXCEPT !.present = TRUE]

Decode(w) == IF w = NoField THEN ZeroRunLog ELSE UnmarshalJSON(w)

(* omitzero: the unexported mark keeps the field, and is not written.      *)
Encode(p) == IF p = ZeroRunLog THEN NoField ELSE [p EXCEPT !.present = FALSE]

validateRunLogPolicyRef(ref) == ref \in {"global", "client", "customer", "provider"}

RunLogValid(p) ==
    \/ p = ZeroRunLog
    \/ p.Version = "v1" /\ ~p.PreserveFullLogs /\ p.Authority = NoAuthority
    \/ /\ p.Version = "v1" /\ p.PreserveFullLogs
       /\ p.Authority.RetentionSeconds > 0
       /\ validateRunLogPolicyRef(p.Authority.PolicyRef)
       /\ p.Authority.PolicyHash
       /\ p.Authority.ProviderEnrollmentID # "bad"

-----------------------------------------------------------------------------
(* Provider operations and the artifacts they declare.                     *)

SpecNames(specs) == [i \in DOMAIN specs |-> specs[i].Name]

(* A slip: only the names are looked at, each for itself.                  *)
validateProviderArtifactSpecs_EachAlone(specs, legacy) ==
    \A i \in DOMAIN specs : specs[i].Name \in ArtifactNames

validateProviderArtifactSpecs(specs, legacy) ==
    /\ \A i \in DOMAIN specs :
          specs[i].Name \in ArtifactNames /\ specs[i].wellFormed /\ specs[i].MaxBytes >= 0
    /\ IsInjective(SpecNames(specs))
    /\ legacy # {} => Range(SpecNames(specs)) \subseteq legacy

(* The older list of names may repeat one.                                 *)
OperationValid(o) ==
    /\ o.wellFormed
    /\ Range(o.Artifacts) \subseteq ArtifactNames
    /\ validateProviderArtifactSpecs(o.ArtifactSpecs, Range(o.Artifacts))

NormalizedArtifactSpecs(o) ==
    IF o.ArtifactSpecs # <<>> THEN o.ArtifactSpecs
    ELSE [i \in DOMAIN o.Artifacts |->
             [Name |-> o.Artifacts[i], MaxBytes |-> 0, wellFormed |-> TRUE]]

DeliveryStatuses == {"pending", "delivered", "failed", "dead_letter"}

DeliveryValid(d) ==
    /\ d.wellFormed
    /\ d.Name \in ArtifactNames /\ d.SizeBytes >= 0
    /\ d.Status \in DeliveryStatuses /\ d.Attempts >= 0

-----------------------------------------------------------------------------
(* Tasks and leases.  A session policy in them is validated with no time.  *)

CarriedPolicyValid(p) == p # NoPolicy => SessionPolicyValid(p, 0)

TaskValid(t) ==
    /\ t.wellFormed
    /\ WorkloadValid(t.Workload)
    /\ ValidateProofPolicy(t.ProofTier, t.ProofPolicy)
    /\ NetworkPolicyValid(t.NetworkPolicy)
    /\ CarriedPolicyValid(t.P2PSessionPolicy)
    /\ t.Visibility \in Visibilities
    /\ ValidResidue(t.ResiduePolicy, {})
    /\ t.RequestedAt # 0 /\ t.TimeoutSeconds > 0

PoliciesValid(l) ==
    /\ NetworkPolicyValid(l.NetworkPolicy)
    /\ CarriedPolicyValid(l.P2PSessionPolicy)
    /\ RunLogValid(l.RunLogPolicy)
    /\ l.RunLogPolicy.Version # Unset => "run-log-lease-policy-v1" \in l.CapabilityTags

(* A slip: a lease asks no more of its residue policy than a task does.    *)
LeaseValid_TaskResidue(l) ==
    /\ l.wellFormed
    /\ validateProviderArtifactSpecs(l.ProviderArtifactSpecs, {})
    /\ PoliciesValid(l)
    /\ ValidResidue(l.ResiduePolicy, {})
    /\ l.LeasedAt # 0 /\ l.LeasedAt < l.ExpiresAt

(* The times are compared with each other and not with the clock.          *)
LeaseValid(l) ==
    /\ l.wellFormed
    /\ validateProviderArtifactSpecs(l.ProviderArtifactSpecs, {})
    /\ PoliciesValid(l)
    /\ ValidResidue(l.ResiduePolicy, {"RequireExplicitWorkerBound", "RequirePolicyHash"})
    /\ l.LeasedAt # 0 /\ l.LeasedAt < l.ExpiresAt
=============================================================================
