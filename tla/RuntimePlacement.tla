-------------------------- MODULE RuntimePlacement --------------------------
(***************************************************************************)
(* From runtime backend reports to a placement: RuntimeBackendReport and   *)
(* ManagedRuntimeBundleDescriptor, what is derived from the reports, and   *)
(* the checks of a task's placement requirements (protocol/types.go).      *)
(*                                                                         *)
(* A worker publishes reports and hardware attestations; the control plane *)
(* (external) derives executors and provider capabilities from them in two *)
(* calls, each at its own time, and later places tasks on what it derived. *)
(* In between, bundles and attestations expire and reports are replaced.   *)
(* Time 0 is Go's zero time.  Init, Next and Tick bear Placement in their  *)
(* names, so that a module can extend AgentSelection as well.              *)
(***************************************************************************)
EXTENDS Integers, Sequences, FiniteSets

CONSTANTS
    ReportLists,    \* lists of reports a worker may publish
    DeclaredLists,  \* provider statuses a worker may declare itself
    HardwareSets,   \* hardware a worker may have, with its attestations
    Requests,       \* placement requirements with resource limits
    DeclaredTiers, DeclaredProofs,  \* tiers the worker says it supports
    DeclaredTags,   \* its capability tags
    NoBundle,       \* the nil bundle
    Nothing,        \* nothing placed or derived yet
    MaxNow          \* bound: the last instant of a behaviour

VARIABLES
    now,
    reports, declared, hardware,  \* what the worker publishes
    executors,   \* derived executors, and what they were derived from
    providers,   \* derived providers, what from, and the hardware seen then
    placed       \* history: the placement and its inputs

placementVars == <<now, reports, declared, hardware, executors, providers, placed>>

(* What a worker publishes: a well-formed report names its providers, a    *)
(* declared status is about one provider, and an expiry is an instant.     *)
PublishedDocuments ==
    /\ \A list \in ReportLists : \A i \in DOMAIN list :
          list[i].wellFormed => "" \notin list[i].ExecutorProviders
    /\ DeclaredLists \subseteq Seq([Provider : STRING, Status : STRING])
    /\ \A hw \in HardwareSets : \A a \in hw.Attestations : a.ExpiresAt \in Nat

ASSUME PlacementAssumption == MaxNow \in Nat \ {0} /\ PublishedDocuments

Tiers == {"trusted-native", "hardened-container", "sandboxed-container", "microvm",
          "confidential-cpu", "confidential-gpu", "wasm-capability"}
ProofTiers == {"receipt-only", "artifact-hash", "replicated-quorum", "attested-receipt",
               "attested-quorum", "zk-replay", "stream-segment-manifest"}
Families == {"podman", "docker", "nerdctl", "containerd", "apple-container",
             "hyper-v", "wsl", "mediamtx"}
RequiredEvidence == {"digest", "workspace", "network", "env", "proof", "cleanup"}
Confidential == {"confidential-cpu", "confidential-gpu"}

-----------------------------------------------------------------------------
(* Reports and bundles.  Field syntax is abstracted to wellFormed; a       *)
(* bundle's subject stands for the identity its signature covers.          *)

(* ManagedRuntimeBundleDescriptor.ValidateAt                               *)
ValidBundle(b, t) ==
    /\ t # 0
    /\ b.wellFormed /\ b.Family \in Families
    /\ b.subject = [Family |-> b.Family, Digest |-> b.Digest]
    /\ b.ValidUntil # 0 /\ b.ValidUntil > t
    /\ b.scoped /\ b.InstallBurden = "bundled"

(* ExecutorRef.ValidateForProof and validateRuntimeBackendExecutor          *)
ValidExecutor(e) ==
    /\ e.Provider # "" /\ e.Version # ""
    /\ e.ExecutionSecurityTier \in Tiers /\ e.ProofTier \in ProofTiers
    /\ e.ExecutionSecurityTier \notin {"trusted-native", "wasm-capability"} => e.Digests

(* RuntimeBackendReport.ValidateAt                                         *)
ValidReport(r, t) ==
    /\ r.wellFormed /\ r.Family \in Families /\ r.GeneratedAt # 0
    /\ \A i \in DOMAIN r.Executors : ValidExecutor(r.Executors[i])
    /\ r.Bundle # NoBundle =>
          /\ r.InstallBurden = "bundled"
          /\ ValidBundle(r.Bundle, t)
          /\ r.Bundle.Family = r.Family
    /\ \/ /\ r.Status = "supported"
          /\ r.InstallBurden = "bundled" => r.Bundle # NoBundle
          /\ r.ExecutorProviders # {} /\ r.Profiles
          /\ RequiredEvidence \subseteq r.Evidence
       \/ /\ r.Status \in {"degraded", "unsupported"}
          /\ r.Reason # "" /\ r.ExecutorProviders = {} /\ r.Executors = <<>>

(* A slip: the status is believed without validating the report.           *)
UsableReports_StatusOnly(list, t) ==
    {list[i] : i \in {i \in DOMAIN list : list[i].Status = "supported"}}

(* The reports both derivations go by.                                     *)
UsableReports(list, t) ==
    {list[i] : i \in {i \in DOMAIN list :
                         list[i].Status = "supported" /\ ValidReport(list[i], t)}}

ExecutorsOf(r) == {r.Executors[i] : i \in DOMAIN r.Executors}

(* A slip: executors are collected from every report.                      *)
SupportedExecutors_EveryReport(list, t) ==
    UNION {ExecutorsOf(list[i]) : i \in DOMAIN list}

RuntimeBackendReportsSupportedExecutors(list, t) ==
    UNION {ExecutorsOf(r) : r \in UsableReports(list, t)}

(* The providers reported as supported; each appears once.                 *)
ProviderCapabilityReportsFromRuntimeBackends(list, t) ==
    UNION {r.ExecutorProviders \cup {e.Provider : e \in ExecutorsOf(r)} :
              r \in UsableReports(list, t)}

-----------------------------------------------------------------------------
(* Placement requirements.                                                 *)

(* A slip: the security tier is not compared.                              *)
ExecutorMatches_AnyTier(e, req) ==
    /\ req.ExecutorProvider \in {"", e.Provider}
    /\ req.ProofTier \in {"", e.ProofTier}

(* ExecutorMatchesPlacementRequirements                                    *)
ExecutorMatches(e, req) ==
    /\ req.ExecutorProvider \in {"", e.Provider}
    /\ req.ExecutionSecurityTier \in {"", e.ExecutionSecurityTier}
    /\ req.ProofTier \in {"", e.ProofTier}

(* The status of the first report for the provider, if there is one; the   *)
(* worker's own declarations come before the derived reports.              *)
providerCapabilityReportForProvider(own, derived, p) ==
    LET mine == {i \in DOMAIN own : own[i].Provider = p}
    IN  IF p = "" THEN {}
        ELSE {own[i].Status : i \in {i \in mine : \A j \in mine : i <= j}}
             \cup (IF mine = {} /\ p \in derived THEN {"supported"} ELSE {})

Unrefused(statuses) == statuses \subseteq {"supported"}

ExecutorCapabilitiesHaveSupportedMatch(req, caps) ==
    \E e \in caps.Executors :
        /\ ExecutorMatches(e, req)
        /\ Unrefused(providerCapabilityReportForProvider(caps.own, caps.Providers, e.Provider))

(* A slip: the worker's lists are checked one by one, no executor is.      *)
ValidatePlacement_ListsOnly(req, caps) ==
    /\ req.ExecutionSecurityTier \in {""} \cup (Tiers \cap caps.ExecutionTiers)
    /\ req.ProofTier \in {""} \cup (ProofTiers \cap caps.ProofTiers)
    /\ req.ExecutorProvider \in {""} \cup caps.Providers
    /\ Unrefused(providerCapabilityReportForProvider(caps.own, caps.Providers, req.ExecutorProvider))

(* ValidatePlacementRequirementsAgainstCapabilities: without executors the *)
(* last check is skipped.  The executor providers are the derived ones, as *)
(* README.md has the control plane do.                                     *)
ValidatePlacement(req, caps) ==
    /\ \A i \in DOMAIN req.RequiredCapabilities :
          /\ req.RequiredCapabilities[i] \in caps.CapabilityTags
          /\ \A j \in 1 .. i - 1 : req.RequiredCapabilities[i] # req.RequiredCapabilities[j]
    /\ req.ExecutionSecurityTier \in {""} \cup (Tiers \cap caps.ExecutionTiers)
    /\ req.ProofTier \in {""} \cup (ProofTiers \cap caps.ProofTiers)
    /\ req.ExecutorProvider \in {""} \cup caps.Providers
    /\ Unrefused(providerCapabilityReportForProvider(caps.own, caps.Providers, req.ExecutorProvider))
    /\ caps.Executors # {} => ExecutorCapabilitiesHaveSupportedMatch(req, caps)

(* The class asked for, else the one the confidential tier implies.        *)
RequiredHardwareClass(req) ==
    IF req.HardwareClass # "" THEN req.HardwareClass
    ELSE IF req.ExecutionSecurityTier \in Confidential THEN req.ExecutionSecurityTier
    ELSE ""

(* A slip: the expiry of an attestation is not looked at.                  *)
LiveAttestation_NoExpiry(a, class, t) ==
    a.Class = class /\ a.keyed /\ a.Verified

LiveAttestation(a, class, t) ==
    /\ a.Class = class /\ a.keyed /\ a.Verified
    /\ a.ExpiresAt = 0 \/ a.ExpiresAt > t

(* HardwareCapabilitiesSatisfyPlacementRequirements; a zero Now is read as *)
(* the time of the call.                                                   *)
HardwareSatisfies(req, hw, hwNow, clock) ==
    LET class == RequiredHardwareClass(req)
        t == IF hwNow = 0 THEN clock ELSE hwNow
    IN  \/ class = ""
        \/ /\ class = "confidential-gpu" => hw.GPUCount # 0
           /\ IF req.ExecutionSecurityTier \in Confidential \/ class \in Confidential
              THEN \E a \in hw.Attestations : LiveAttestation(a, class, t)
              ELSE class \in hw.Classes

ExecutionTierSupportsResourceLimits(tier) == tier \in Tiers \ {"trusted-native"}

(* ResourceLimitsRequireResourceConstrainedExecutor and                    *)
(* ExecutorCapabilitiesHaveResourceConstrainedMatch                        *)
LimitsEnforceable(req, caps) ==
    \/ ~req.limited
    \/ /\ caps.Executors = {}
       /\ \E tier \in caps.ExecutionTiers : ExecutionTierSupportsResourceLimits(tier)
    \/ \E e \in caps.Executors :
          /\ ExecutorMatches(e, req)
          /\ ExecutionTierSupportsResourceLimits(e.ExecutionSecurityTier)

-----------------------------------------------------------------------------
PlacementInit ==
    /\ now = 1
    /\ reports \in ReportLists /\ declared \in DeclaredLists /\ hardware \in HardwareSets
    /\ executors = Nothing /\ providers = Nothing /\ placed = Nothing

(* The worker replaces what it publishes.                                  *)
Publish(list, own) ==
    /\ reports' = list /\ declared' = own
    /\ UNCHANGED <<now, hardware, executors, providers, placed>>

Attest(hw) ==
    /\ hardware' = hw
    /\ UNCHANGED <<now, reports, declared, executors, providers, placed>>

DeriveExecutors ==
    /\ executors' = [set |-> RuntimeBackendReportsSupportedExecutors(reports, now),
                     from |-> reports, at |-> now]
    /\ UNCHANGED <<now, reports, declared, hardware, providers, placed>>

(* The hardware is read in the same snapshot of the worker; its Now is set *)
(* or left zero.                                                           *)
DeriveProviders(hwNow) ==
    /\ providers' = [set |-> ProviderCapabilityReportsFromRuntimeBackends(reports, now),
                     own |-> declared, hw |-> hardware, hwNow |-> hwNow,
                     from |-> reports, at |-> now]
    /\ UNCHANGED <<now, reports, declared, hardware, executors, placed>>

Caps == [Executors |-> executors.set, Providers |-> providers.set, own |-> providers.own,
         ExecutionTiers |-> DeclaredTiers, ProofTiers |-> DeclaredProofs,
         CapabilityTags |-> DeclaredTags]

(* The task is placed if every check accepts what was derived.             *)
Place(req) ==
    /\ executors # Nothing /\ providers # Nothing
    /\ ValidatePlacement(req, Caps)
    /\ HardwareSatisfies(req, providers.hw, providers.hwNow, now)
    /\ LimitsEnforceable(req, Caps)
    /\ placed' = [req |-> req, executors |-> executors, providers |-> providers]
    /\ UNCHANGED <<now, reports, declared, hardware, executors, providers>>

PlacementTick ==
    /\ now < MaxNow
    /\ now' = now + 1
    /\ UNCHANGED <<reports, declared, hardware, executors, providers, placed>>

(* One placement is followed; another one would start from the same kinds  *)
(* of state.                                                               *)
PlacementNext ==
    /\ placed = Nothing
    /\ \/ \E list \in ReportLists, own \in DeclaredLists : Publish(list, own)
       \/ \E hw \in HardwareSets : Attest(hw)
       \/ DeriveExecutors
       \/ \E hwNow \in {0, now} : DeriveProviders(hwNow)
       \/ \E req \in Requests : Place(req)
       \/ PlacementTick

PlacementSpec == PlacementInit /\ [][PlacementNext]_placementVars

-----------------------------------------------------------------------------
(* Properties.                                                             *)

(* What is derived has executors and providers of published reports only,  *)
(* at a time that has passed.                                              *)
PlacementTypeOK ==
    /\ now \in 1 .. MaxNow
    /\ reports \in ReportLists /\ declared \in DeclaredLists /\ hardware \in HardwareSets
    /\ executors # Nothing =>
          /\ executors.from \in ReportLists /\ executors.at \in 1 .. now
          /\ \A e \in executors.set : ValidExecutor(e)
    /\ providers # Nothing =>
          /\ providers.from \in ReportLists /\ providers.at \in 1 .. now
          /\ "" \notin providers.set
    /\ placed # Nothing => placed.req \in Requests

(* What README.md says a supported backend has to show, at time t.         *)
ShowsSupport(r, t) ==
    /\ r.Status = "supported" /\ RequiredEvidence \subseteq r.Evidence
    /\ r.InstallBurden = "bundled" =>
          /\ r.Bundle # NoBundle
          /\ r.Bundle.subject.Family = r.Family /\ r.Bundle.ValidUntil > t

(* A placement that names a provider rests on a backend that showed full   *)
(* evidence for it, with an unexpired bundle signed for its family if it   *)
(* is bundled, when the providers were derived; though by the time of the  *)
(* placement the executors may all be gone and their check be skipped.     *)
NamedProviderBacked ==
    placed # Nothing /\ placed.req.ExecutorProvider # "" =>
        \E i \in DOMAIN placed.providers.from :
            LET r == placed.providers.from[i]
            IN  /\ ShowsSupport(r, placed.providers.at)
                /\ placed.req.ExecutorProvider
                      \in r.ExecutorProviders \cup {e.Provider : e \in ExecutorsOf(r)}

(* The worker does not declare the provider, or declares it supported first.*)
DeclaredUsable(own, p) ==
    \A k \in DOMAIN own : own[k].Provider = p =>
        \E first \in 1 .. k : own[first] = [Provider |-> p, Status |-> "supported"]

(* Unless no executor was derived, one backend meets the provider, security*)
(* and proof requirements together and its provider was not declared       *)
(* degraded: capabilities of different backends are never combined.        *)
CapabilitiesOfOneBackend ==
    placed # Nothing /\ placed.executors.set # {} =>
        \E i \in DOMAIN placed.executors.from :
            LET r == placed.executors.from[i]
            IN  /\ ShowsSupport(r, placed.executors.at)
                /\ \E e \in ExecutorsOf(r) :
                      /\ placed.req.ExecutorProvider # "" => e.Provider = placed.req.ExecutorProvider
                      /\ placed.req.ExecutionSecurityTier # ""
                            => e.ExecutionSecurityTier = placed.req.ExecutionSecurityTier
                      /\ placed.req.ProofTier # "" => e.ProofTier = placed.req.ProofTier
                      /\ DeclaredUsable(placed.providers.own, e.Provider)

(* Resource limits with a security tier are enforceable by an executor that*)
(* also meets the requirements and whose provider is not refused: the two  *)
(* checks, made apart, agree on one executor.                              *)
LimitsHeldByMatch ==
    placed # Nothing /\ placed.executors.set # {} /\ placed.req.limited
        /\ placed.req.ExecutionSecurityTier # "" =>
        \E e \in placed.executors.set :
            /\ e.ExecutionSecurityTier = placed.req.ExecutionSecurityTier
            /\ e.ExecutionSecurityTier # "trusted-native"
            /\ DeclaredUsable(placed.providers.own, e.Provider)

(* What is placed rests on one backend, its limits included.               *)
OneBackendMatches == CapabilitiesOfOneBackend /\ LimitsHeldByMatch

(* A task of a confidential tier is placed only on a worker that held, when*)
(* its capabilities were read, a verified attestation of the required class*)
(* that had not expired then, whether or not the snapshot carried its time.*)
ConfidentialNeedsAttestation ==
    placed # Nothing /\ placed.req.ExecutionSecurityTier \in Confidential =>
        \E a \in placed.providers.hw.Attestations :
            /\ a.Verified /\ a.Class = RequiredHardwareClass(placed.req)
            /\ a.ExpiresAt = 0 \/ a.ExpiresAt > placed.providers.at

(* Placements rest on evidence that had not expired when it was read.      *)
PlacedOnEvidence == NamedProviderBacked /\ ConfidentialNeedsAttestation
=============================================================================
