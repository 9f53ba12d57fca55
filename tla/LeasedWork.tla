----------------------------- MODULE LeasedWork -----------------------------
(***************************************************************************)
(* A leased task from the control plane to the worker.  The control plane  *)
(* grants leases for valid tasks on valid provider operations; leases      *)
(* travel as JSON over relays, which decode and encode them again, store   *)
(* instants in another zone, alter a policy, or are of an older schema and *)
(* drop the run-log field; the worker takes what Lease.Validate accepts,   *)
(* and under the lease it holds opens the P2P session, keeps logs, runs    *)
(* the workload on an adapter and delivers artifacts.                      *)
(*                                                                         *)
(* The validators are those of protocol/types.go; the control plane, the   *)
(* relays and what a worker does between two validations are external.     *)
(* Altering relays do not compute hashes again: the signature over a       *)
(* session policy is checked by its issuer's clients, not by this package. *)
(***************************************************************************)
EXTENDS LeaseDocuments

CONSTANTS
    Orders,              \* what a control plane may lease out: a task, a provider
                         \* operation, a run-log policy as it is written, and
                         \* the capability tags of a worker
    UnknownFields,       \* a run-log policy with fields this schema has not
    Adapters, Results,   \* runtime adapters and what they answer
    Deliveries,          \* artifact deliveries workers may record
    NoLease, NoWork,
    LeaseTime,           \* the length of a lease
    MaxTime,             \* bound on the clock
    MaxWire              \* bound on the lease documents under way

VARIABLES
    now,    \* the clock
    wire,   \* lease documents, each with the one that was granted
    held,   \* the lease the worker holds
    last    \* what the worker did last under it

vars == <<now, wire, held, last>>

ASSUME LeasedWorkAssumption ==
    LeaseTime \in Nat \ {0} /\ MaxTime \in Nat \ {0} /\ MaxWire \in Nat

(* What a control plane writes: session policies with the fields of their  *)
(* type, and run-log policies that are told apart from a field that is not *)
(* there, from null, and from fields that are not known.                   *)
SessionFields ==
    {"wellFormed", "zone", "IssuedAt", "NotBefore", "ExpiresAt", "RevocationFreshUntil",
     "SessionGeneration", "Mode", "Peers", "MaxPeers", "AllowedProtocols", "ContentRefs",
     "PolicyHash"}

IsRunLog(w) ==
    /\ DOMAIN w = {"Version", "PreserveFullLogs", "Authority", "present"}
    /\ \A b \in BOOLEAN : [w EXCEPT !.present = b] \notin {NoField, Null, UnknownFields}

ASSUME OrdersAssumption ==
    /\ NoField # Null /\ UnknownFields \notin {NoField, Null}
    /\ ZeroRunLog \notin {NoField, Null, UnknownFields} /\ IsRunLog(ZeroRunLog)
    /\ \A order \in Orders :
          LET p == order.task.P2PSessionPolicy
              w == order.runLog
          IN  /\ p # NoPolicy => p = [field \in SessionFields |-> p[field]]
              /\ w \notin {NoField, Null, UnknownFields} => IsRunLog(w)
              /\ order.operation.Artifacts \in Seq(Range(order.operation.Artifacts))

Init == now = 1 /\ wire = {} /\ held = NoLease /\ last = NoWork

Tick == now < MaxTime /\ now' = now + 1 /\ UNCHANGED <<wire, held, last>>

-----------------------------------------------------------------------------
(* The control plane and the relays.                                       *)

(* The lease repeats the policies of the task and the artifacts of the     *)
(* operation.                                                              *)
LeaseFor(order) ==
    [wellFormed |-> TRUE,
     ProviderArtifactSpecs |-> NormalizedArtifactSpecs(order.operation),
     NetworkPolicy |-> order.task.NetworkPolicy,
     P2PSessionPolicy |-> order.task.P2PSessionPolicy,
     RunLogPolicy |-> order.runLog, CapabilityTags |-> order.tags,
     ResiduePolicy |-> order.task.ResiduePolicy,
     LeasedAt |-> now, ExpiresAt |-> now + LeaseTime]

Grant(order) ==
    /\ TaskValid(order.task) /\ OperationValid(order.operation)
    /\ Cardinality(wire) < MaxWire
    /\ wire' = wire \cup {[lease |-> LeaseFor(order), granted |-> LeaseFor(order),
                          task |-> order.task, operation |-> order.operation,
                          stripped |-> FALSE]}
    /\ UNCHANGED <<now, held, last>>

(* What a relay passes on takes the place of what it was given.            *)
Forward(document, passedOn) ==
    /\ wire' = (wire \ {document}) \cup {passedOn}
    /\ UNCHANGED <<now, held, last>>

(* A relay decodes a document and encodes it again; unknown fields of the  *)
(* run-log policy fail the whole document.                                 *)
Decodes(document) == document.lease.RunLogPolicy # UnknownFields

Relay(document) ==
    /\ Decodes(document)
    /\ Forward(document, [document EXCEPT !.lease.RunLogPolicy = Encode(Decode(@))])

Lose(document) == wire' = wire \ {document} /\ UNCHANGED <<now, held, last>>

Strip(document) ==
    Forward(document, [document EXCEPT !.lease.RunLogPolicy = NoField, !.stripped = TRUE])

(* The hash of a session policy covers the zone its instants are in.       *)
(* What is altered is the policy as granted: alterations do not add up,    *)
(* which is a bound of the model.                                          *)
Altered(p) ==
    {[p EXCEPT !.zone = "local"], [p EXCEPT !.ExpiresAt = @ + 1],
     [p EXCEPT !.RevocationFreshUntil = @ + 1], [p EXCEPT !.Peers = Append(@, "mallet")]}

Alter(document) ==
    /\ document.granted.P2PSessionPolicy # NoPolicy
    /\ \E p \in Altered(document.granted.P2PSessionPolicy) :
          Forward(document, [document EXCEPT !.lease.P2PSessionPolicy = p])

-----------------------------------------------------------------------------
(* The worker.                                                             *)

Take(document) ==
    /\ Decodes(document)
    /\ LET l == [document.lease EXCEPT !.RunLogPolicy = Decode(@)]
       IN  LeaseValid(l) /\ held' = [document EXCEPT !.lease = l]
    /\ last' = NoWork
    /\ UNCHANGED <<now, wire>>

OpenSession ==
    /\ held # NoLease
    /\ held.lease.P2PSessionPolicy # NoPolicy
    /\ SessionPolicyValid(held.lease.P2PSessionPolicy, now)
    /\ last' = [did |-> "session", policy |-> held.lease.P2PSessionPolicy,
                granted |-> held.granted, at |-> now]
    /\ UNCHANGED <<now, wire, held>>

KeepLogs ==
    /\ held # NoLease
    /\ held.lease.RunLogPolicy.Version = "v1"
    /\ held.lease.RunLogPolicy.PreserveFullLogs
    /\ last' = [did |-> "logs", policy |-> held.lease.RunLogPolicy, granted |-> held.granted]
    /\ UNCHANGED <<now, wire, held>>

(* Slip: any valid adapter is taken.                                       *)
Execute_AnyAdapter(adapter, result) ==
    /\ held # NoLease
    /\ AdapterValid(adapter) /\ ValidResidue(adapter.ResiduePolicy, {"RequirePolicyHash"})
    /\ ExecutionRequestValid([wellFormed |-> TRUE, WorkloadKind |-> held.task.Workload.Kind])
    /\ ExecutionResultValid(result)
    /\ last' = [did |-> "work", workload |-> held.task.Workload, adapter |-> adapter,
                result |-> result]
    /\ UNCHANGED <<now, wire, held>>

(* The adapter runs the payload of the workload's own kind.                *)
Execute(adapter, result) ==
    /\ held # NoLease
    /\ AdapterValid(adapter) /\ ValidResidue(adapter.ResiduePolicy, {"RequirePolicyHash"})
    /\ Supports(adapter, held.task.Workload.Kind)
    /\ ExecutionRequestValid([wellFormed |-> TRUE, WorkloadKind |-> held.task.Workload.Kind])
    /\ ExecutionResultValid(result)
    /\ last' = [did |-> "work", workload |-> held.task.Workload, adapter |-> adapter,
                result |-> result]
    /\ UNCHANGED <<now, wire, held>>

(* The worker delivers what the lease names.                               *)
Deliver(delivery) ==
    /\ held # NoLease
    /\ DeliveryValid(delivery)
    /\ delivery.Name \in Range(SpecNames(held.lease.ProviderArtifactSpecs))
    /\ last' = [did |-> "delivery", delivery |-> delivery, operation |-> held.operation,
                specs |-> held.lease.ProviderArtifactSpecs]
    /\ UNCHANGED <<now, wire, held>>

Next ==
    \/ \E order \in Orders : Grant(order)
    \/ \E document \in wire : Relay(document)
    \/ \E document \in wire : Strip(document)
    \/ \E document \in wire : Lose(document)
    \/ \E document \in wire : Alter(document)
    \/ \E document \in wire : Take(document)
    \/ OpenSession
    \/ KeepLogs
    \/ \E adapter \in Adapters, result \in Results : Execute(adapter, result)
    \/ \E delivery \in Deliveries : Deliver(delivery)
    \/ Tick

Spec == Init /\ [][Next]_vars

-----------------------------------------------------------------------------
(* Properties.                                                             *)

(* Documents were granted before now; a held lease has been decoded, says  *)
(* which policy binds the workspace it leaves behind (Lease.Validate asks  *)
(* for more than Task.Validate), and is for a task that was admitted.      *)
TypeOK ==
    /\ now \in 1 .. MaxTime
    /\ \A d \in wire : d.granted.LeasedAt <= now
    /\ held # NoLease =>
           /\ held.lease.RunLogPolicy.Version \in {Unset, "v1"}
           /\ held.lease.ResiduePolicy.Mode \in ResidueModes \cup {Unset}
           /\ UsesReusableWorkspace(held.lease.ResiduePolicy) =>
                  held.lease.ResiduePolicy.PolicyHash
           /\ TaskValid(held.task)
    /\ last = NoWork \/ last.did \in {"session", "logs", "work", "delivery"}

(* A session is opened only under the very policy that was granted, inside *)
(* its window and while its revocation feed is fresh at that moment: the   *)
(* task and the lease admit a policy without looking at the clock, and     *)
(* P2PSessionPolicy.Validate makes up for whatever happened since.         *)
SessionsInWindow ==
    last # NoWork /\ last.did = "session" =>
        /\ last.policy = last.granted.P2PSessionPolicy
        /\ last.policy.NotBefore <= last.at
        /\ last.at < last.policy.ExpiresAt
        /\ last.at < last.policy.RevocationFreshUntil

(* Full logs are kept only as the control plane wrote it, on a worker that *)
(* says it knows the policy; and unless an old relay dropped the field, a  *)
(* policy written without a version is refused by every worker, null and   *)
(* {} included, however often it was decoded and encoded on the way.       *)
RunLogsAsGranted ==
    /\ last # NoWork /\ last.did = "logs" =>
           /\ last.policy = UnmarshalJSON(last.granted.RunLogPolicy)
           /\ last.policy.Authority.RetentionSeconds > 0
           /\ "run-log-lease-policy-v1" \in last.granted.CapabilityTags
    /\ held # NoLease /\ ~held.stripped =>
           \/ held.granted.RunLogPolicy = NoField
           \/ held.granted.RunLogPolicy # Null /\ held.granted.RunLogPolicy.Version = "v1"

(* What is delivered is declared once by the lease, and by the operation   *)
(* in each of its two lists that is not empty: no delivery is under two    *)
(* specifications with different limits.                                   *)
DeliveredDeclaredOnce ==
    last # NoWork /\ last.did = "delivery" =>
        LET name == last.delivery.Name
            o    == last.operation
        IN  /\ Cardinality({i \in DOMAIN last.specs : last.specs[i].Name = name}) = 1
            /\ o.Artifacts # <<>> => name \in Range(o.Artifacts)
            /\ o.ArtifactSpecs # <<>> => name \in Range(SpecNames(o.ArtifactSpecs))

(* What runs is of a kind its adapter lists, and has the payload of that   *)
(* kind, the only one that was validated although others may come with it. *)
(* A service that runs has ports exactly when its ingress asks for         *)
(* authentication, and no file outside the workspace; a node service in    *)
(* allowlist mode peers with nobody outside its egress allowlist; provider *)
(* code is a pinned image or a component of the configured plugin; and a   *)
(* capture fetches a host the workload allows.                             *)
WorkConfined ==
    last # NoWork /\ last.did = "work" =>
        LET kind == last.workload.Kind
            w    == last.workload.payload[kind]
        IN  /\ kind \in Range(last.adapter.WorkloadKinds)
            /\ kind \in PayloadKinds => kind \in DOMAIN last.workload.payload
            /\ kind = "service" =>
                   /\ w.Ports # {} <=> w.Ingress.AuthRequired
                   /\ \A f \in w.files : f.inside
            /\ kind = "node-service" /\ w.PeerPolicy.Mode = "allowlist" =>
                   Names(w.PeerPolicy.AllowedPeers) \subseteq Names(w.PeerPolicy.EgressAllowlist)
            /\ kind = "provider" => w.image = "pinned" \/ w.component = w.plugin
            /\ kind = "product-capture" => w.host \in w.AllowedHosts
=============================================================================
