--------------------------- MODULE ProviderContracts ---------------------------
(***************************************************************************)
(* The provider contract of protocol/types.go: the document a provider     *)
(* plugin publishes about the runtime profiles it needs, the builder of    *)
(* default profiles, the validators, the lookup that decides whether a     *)
(* network product can run on it, and ApplyProviderConformanceEvidence,    *)
(* the one method of the package that changes a document in place.         *)
(*                                                                         *)
(* Contracts are replaced by newer versions while conformance evidence is  *)
(* under way: evidence is observed by runners outside the package and may  *)
(* arrive late, out of order, more than once, and after the contract it is *)
(* about was replaced.                                                     *)
(*                                                                         *)
(* Data: the identifier triple of a runtime profile stands for the string  *)
(* executor-tier-proof-runtime (no tier and no proof tier is a dash suffix *)
(* of another, so the string determines the triple); ProviderID is part of *)
(* ContractID; wellFormed stands for the checks of a document that concern *)
(* one field alone (identifiers, schema references, digests, access        *)
(* policy, capability names); Confinement says whether the tools, digests  *)
(* and mounts of a container profile are all there, all absent, or mixed.  *)
(***************************************************************************)
EXTENDS NetworkProducts

CONSTANTS
    Drafts,     \* the contracts providers may publish
    Evidence,   \* the conformance evidence runners may observe
    Products,   \* the network products a host may ask for
    MaxObserved, \* bound on the evidence observed
    Workers     \* the capabilities of its workers

VARIABLES
    contracts,  \* the published contracts, one per plugin and contract id
    observed,   \* evidence observed so far; it stays deliverable
    applied,    \* evidence applied with no error to the contract now published
    admitted    \* the last product found supported, with the profile selected

vars == <<contracts, observed, applied, admitted>>

UpstreamProfile == "upstream-client-v1"
WASMProfiles == {"wasm-component-v1", "browser-worker-wasm-v1"}
RuntimeProfiles == WASMProfiles \cup
    {"sandboxed-oci-v1", "container-build-v1", "service-oci-v1"}
Conformances == {"shape-only", "real-client"}
ProviderPluginRequiresUpstreamClientConformance(plugin) ==
    plugin \in {"workflow-plugin-volunteer-science", "workflow-plugin-crypto"}

-----------------------------------------------------------------------------
(* The validators.                                                         *)

Elements(s) == {s[i] : i \in DOMAIN s}
IsList(s) == s \in Seq(Elements(s))
Distinct(s) == Cardinality(Elements(s)) = Len(s)

ValidConformance(p) ==
    /\ p.UpstreamClientConformance \in Conformances \cup {Unset}
    /\ p.UpstreamClientConformance = "real-client" =>
           /\ UpstreamProfile \in Elements(p.ConformanceProfiles)
           /\ p.EvidenceRef # Unset /\ p.EvidenceDigest # Unset

(* The WASM contract of a profile: complete says that its ABI, component   *)
(* and positive bounds are all there; a browser worker touches no host     *)
(* file and updates nothing on the host.                                   *)
ValidateWASM(w, runtime) ==
    /\ w.complete
    /\ runtime = "browser-worker-wasm-v1" =>
           /\ w.BrowserWorker
           /\ w.Filesystem = "forbidden"
           /\ w.NativeHostUpdates \in {Unset, "forbidden"}

ValidateProfile(p) ==
    /\ p.wellFormed
    /\ p.RuntimeProfile \in RuntimeProfiles
    /\ p.ExecutionSecurityTier \in ContractTiers
    /\ p.ProofTier \in ContractProofs
    /\ ValidResidue(p.ResiduePolicy,
                    IF p.HostWorkspaceSupported THEN {} ELSE {"NoWorkspaceAllowed"})
    /\ IF p.RuntimeProfile \in WASMProfiles
       THEN /\ ~p.HostWorkspaceSupported
            /\ p.ExecutionSecurityTier = "wasm-capability"
            /\ p.Confinement = "none"
            /\ ValidateWASM(p.WASM, p.RuntimeProfile)
       ELSE /\ p.ExecutionSecurityTier # "wasm-capability"
            /\ p.Confinement = "container"
    /\ p.Forbidden
    /\ p.ConformanceProfiles # <<>>
    /\ ValidConformance(p)

ValidateRuntimeContract(profiles) ==
    /\ profiles # <<>>
    /\ \A i \in DOMAIN profiles : ValidateProfile(profiles[i])
    /\ Distinct([i \in DOMAIN profiles |-> profiles[i].ID])

ValidateContract(c) ==
    /\ c.wellFormed
    /\ c.OperatingModes # {} /\ c.WorkloadKinds # {} /\ c.ExecutorProviders # {}
    /\ c.ExecutionSecurityTiers # {} /\ c.ExecutionSecurityTiers \subseteq ContractTiers
    /\ c.ProofTiers # {} /\ c.ProofTiers \subseteq ContractProofs
    /\ c.NetworkModes # {}
    /\ {normalizeNetworkMode(m) : m \in c.NetworkModes} \subseteq NetworkModes
    /\ "provider" \in c.WorkloadKinds => c.Operations # <<>>
    /\ Distinct(c.Operations)
    /\ ValidateRuntimeContract(c.Profiles)
    /\ ProviderPluginRequiresUpstreamClientConformance(c.PluginID) =>
           \A i \in DOMAIN c.Profiles : c.Profiles[i].UpstreamClientConformance # Unset

ValidateEvidence(e) == e.wellFormed /\ e.ObservedAt # 0

(* What the constants stand for: documents have the fields of their types, *)
(* evidence that validates has a reference and a digest, and amounts are   *)
(* numbers.                                                                *)
ContractFields ==
    {"PluginID", "ContractID", "Version", "wellFormed", "OperatingModes",
     "WorkloadKinds", "Operations", "ExecutorProviders", "ExecutionSecurityTiers",
     "ProofTiers", "NetworkModes", "Profiles"}

ProfileFields ==
    {"ID", "wellFormed", "RuntimeProfile", "ExecutorProvider", "ExecutionSecurityTier",
     "ProofTier", "Confinement", "HostWorkspaceSupported", "Forbidden", "WASM",
     "ResiduePolicy", "ConformanceProfiles", "UpstreamClientConformance",
     "EvidenceRef", "EvidenceDigest"}

IsContract(c) ==
    /\ DOMAIN c = ContractFields
    /\ IsList(c.Profiles)
    /\ \A i \in DOMAIN c.Profiles :
          /\ DOMAIN c.Profiles[i] = ProfileFields
          /\ IsList(c.Profiles[i].ConformanceProfiles)

ASSUME DraftsAssumption == \A d \in Drafts : IsContract(d)

ASSUME EvidenceAssumption ==
    \A e \in Evidence : ValidateEvidence(e) =>
        e.EvidenceRef # Unset /\ e.EvidenceDigest # Unset

ASSUME AmountsAssumption ==
    /\ \A w \in Workers : {w.Disk, w.Memory, w.Bandwidth} \subseteq Int
    /\ \A p \in Products :
          LET c == p.PlacementConstraints
          IN  {c.MinDisk, c.MinMemory, c.MinBandwidth} \subseteq Int

-----------------------------------------------------------------------------
(* The zero value of a WASM contract.                                      *)
NoWASM == [complete |-> FALSE, BrowserWorker |-> FALSE, Filesystem |-> Unset,
           NativeHostUpdates |-> Unset]

(* The builder of default profiles.  A WASM default carries no WASM        *)
(* contract, so it does not validate until the provider fills one in.      *)

RuntimeProfileOf(executor) ==
    CASE executor = "sandboxed-container-build" -> "container-build-v1"
      [] executor \in {"service-sandboxed-container",
                       "node-service-sandboxed-container"} -> "service-oci-v1"
      [] executor = "wasm-component" -> "wasm-component-v1"
      [] OTHER -> "sandboxed-oci-v1"

DefaultProviderRuntimeProfile(executor, tier, proof) ==
    LET runtime == RuntimeProfileOf(executor)
        wasm    == runtime \in WASMProfiles
    IN [ID |-> <<executor, tier, proof>>, wellFormed |-> TRUE,
        RuntimeProfile |-> runtime, ExecutorProvider |-> executor,
        ExecutionSecurityTier |-> tier, ProofTier |-> proof,
        Confinement |-> IF wasm THEN "none" ELSE "container",
        HostWorkspaceSupported |-> ~wasm, Forbidden |-> TRUE, WASM |-> NoWASM,
        ResiduePolicy |-> NoResidue,
        ConformanceProfiles |-> <<runtime>>, UpstreamClientConformance |-> Unset,
        EvidenceRef |-> Unset, EvidenceDigest |-> Unset]

(* The profiles of every executor, tier and proof tier, in that nesting,   *)
(* with the options on each.                                               *)
DefaultProviderRuntimeContract(executors, tiers, proofs, options) ==
    LET T == Len(tiers)
        P == Len(proofs)
        profile(k) == DefaultProviderRuntimeProfile(
                          executors[(k \div (T * P)) + 1],
                          tiers[((k \div P) % T) + 1],
                          proofs[(k % P) + 1])
    IN [i \in 1 .. Len(executors) * T * P |->
            [profile(i - 1) EXCEPT
                !.ConformanceProfiles = @ \o options.ConformanceProfiles,
                !.UpstreamClientConformance = options.UpstreamClientConformance,
                !.EvidenceRef = options.EvidenceRef,
                !.EvidenceDigest = options.EvidenceDigest]]

-----------------------------------------------------------------------------
(* What a contract supports.                                               *)

(* Slip: a profile of the right executor taken whatever its tier.          *)
FittingProfiles_ProviderOnly(profiles, req) ==
    {i \in DOMAIN profiles : profiles[i].ExecutorProvider = req.ExecutorProvider}

FittingProfiles(profiles, req) ==
    {i \in DOMAIN profiles :
        /\ profiles[i].ExecutorProvider = req.ExecutorProvider
        /\ profiles[i].ExecutionSecurityTier = req.ExecutionSecurityTier
        /\ profiles[i].ProofTier = req.ProofTier}

(* The first one; the domain is searched in order.                         *)
First(S) == CHOOSE i \in S : \A j \in S : i <= j

RuntimeProfileForRequirements(profiles, req) ==
    profiles[First(FittingProfiles(profiles, req))]

SupportsProduct(c, p) ==
    /\ c.PluginID = p.PluginID /\ c.ContractID = p.ContractID
    /\ p.Version \in {Unset, c.Version}
    /\ p.OperatingMode \in c.OperatingModes
    /\ p.WorkloadKinds \subseteq c.WorkloadKinds
    /\ p.SecurityFloor.ExecutorProvider \in c.ExecutorProviders
    /\ p.SecurityFloor.ExecutionSecurityTier \in c.ExecutionSecurityTiers
    /\ p.SecurityFloor.ProofTier \in c.ProofTiers
    /\ {normalizeNetworkMode(m) : m \in p.NetworkModes} \subseteq c.NetworkModes
    /\ FittingProfiles(c.Profiles, p.SecurityFloor) # {}

-----------------------------------------------------------------------------
(* Applying evidence.                                                      *)

ProfilesNamed(c, id) == {i \in DOMAIN c.Profiles : c.Profiles[i].ID = id}

(* Slip: the version of the contract not compared.                         *)
MatchesContract_AnyVersion(e, c) ==
    e.PluginID = c.PluginID /\ e.ContractID = c.ContractID

MatchesContract(e, c) ==
    /\ e.PluginID = c.PluginID /\ e.ContractID = c.ContractID
    /\ e.Version = c.Version

(* Slips: the conformance profile of the evidence not recorded, and that   *)
(* profile written where the kind of conformance belongs.                  *)
WithEvidence_NoProfile(p, e) ==
    [p EXCEPT !.UpstreamClientConformance = "real-client",
              !.EvidenceRef = e.EvidenceRef, !.EvidenceDigest = e.EvidenceDigest]

WithEvidence_ProfileAsKind(p, e) ==
    [p EXCEPT !.UpstreamClientConformance = e.ConformanceProfile,
              !.EvidenceRef = e.EvidenceRef, !.EvidenceDigest = e.EvidenceDigest]

WithEvidence(p, e) ==
    [p EXCEPT !.UpstreamClientConformance = "real-client",
              !.EvidenceRef = e.EvidenceRef,
              !.EvidenceDigest = e.EvidenceDigest,
              !.ConformanceProfiles = IF e.ConformanceProfile \in Elements(@)
                                      THEN @ ELSE Append(@, e.ConformanceProfile)]

(* No error is returned: the evidence is valid, it names this contract and *)
(* one of its profiles.                                                    *)
Applies(c, e) ==
    /\ ValidateEvidence(e)
    /\ MatchesContract(e, c)
    /\ ProfilesNamed(c, e.RuntimeProfileID) # {}

ApplyProviderConformanceEvidence(c, e) ==
    LET i == First(ProfilesNamed(c, e.RuntimeProfileID))
    IN [c EXCEPT !.Profiles[i] = WithEvidence(@, e)]

-----------------------------------------------------------------------------
(* The steps.                                                              *)

SameContract(c, d) == c.PluginID = d.PluginID /\ c.ContractID = d.ContractID

Init ==
    /\ contracts = {}
    /\ observed = {}
    /\ applied = {}
    /\ admitted = {}

(* A host takes a contract that validates in place of the one it had under *)
(* the same identity.                                                      *)
Publish(d) ==
    /\ ValidateContract(d)
    /\ contracts' = {c \in contracts : ~SameContract(c, d)} \cup {d}
    /\ applied' = {e \in applied : ~SameContract(e, d)}
    /\ UNCHANGED <<observed, admitted>>

(* A conformance runner outside the package finishes a run.                *)
Observe(e) ==
    /\ e \notin observed /\ Cardinality(observed) < MaxObserved
    /\ observed' = observed \cup {e}
    /\ UNCHANGED <<contracts, applied, admitted>>

Apply(c, e) ==
    /\ Applies(c, e)
    /\ contracts' = (contracts \ {c}) \cup {ApplyProviderConformanceEvidence(c, e)}
    /\ applied' = applied \cup {e}
    /\ UNCHANGED <<observed, admitted>>

(* A host validates a product, which SupportsProduct does not, looks for a *)
(* contract that supports it, and for workers that satisfy its placement   *)
(* constraints for a task that allows ingress.                             *)
Admit(c, p) ==
    /\ NetworkProductValid(p)
    /\ SupportsProduct(c, p)
    /\ admitted' =
           {[product |-> p, plugin |-> c.PluginID,
             workers |-> {w \in Workers : PlacementConstraintsSatisfiedBy(
                              p.PlacementConstraints, w, [AllowIngress |-> TRUE])},
             profile |-> RuntimeProfileForRequirements(c.Profiles, p.SecurityFloor)]}
    /\ UNCHANGED <<contracts, observed, applied>>

Next ==
    \/ \E d \in Drafts : Publish(d)
    \/ \E e \in Evidence : Observe(e)
    \/ \E c \in contracts, e \in observed : Apply(c, e)
    \/ \E c \in contracts, p \in Products : Admit(c, p)

Spec == Init /\ [][Next]_vars

-----------------------------------------------------------------------------
(* Properties.                                                             *)

(* One contract per identity is published, every profile in it claims a    *)
(* conformance the validator knows, and what was applied was observed.     *)
TypeOK ==
    /\ \A c, d \in contracts : SameContract(c, d) => c = d
    /\ \A c \in contracts : \A i \in DOMAIN c.Profiles :
           c.Profiles[i].UpstreamClientConformance \in Conformances \cup {Unset}
    /\ observed \subseteq Evidence
    /\ applied \subseteq observed
    /\ \A a \in admitted : a.product \in Products

(* A profile that claims a real client shows the reference and the digest  *)
(* of one and the same evidence, observed for this very version of the     *)
(* contract and for this profile, or published so with the contract:       *)
(* evidence that arrives after the contract was replaced, or in any order, *)
(* never lends its claim to another version or profile.                    *)
ClaimsBacked ==
    \A c \in contracts : \A i \in DOMAIN c.Profiles :
        LET p == c.Profiles[i]
        IN p.UpstreamClientConformance = "real-client" =>
               \/ \E e \in observed :
                     /\ e.PluginID = c.PluginID /\ e.ContractID = c.ContractID
                     /\ e.Version = c.Version /\ e.RuntimeProfileID = p.ID
                     /\ p.EvidenceRef = e.EvidenceRef
                     /\ p.EvidenceDigest = e.EvidenceDigest
                     /\ e.ConformanceProfile \in Elements(p.ConformanceProfiles)
               \/ \E d \in Drafts :
                     /\ SameContract(c, d) /\ d.Version = c.Version
                     /\ i \in DOMAIN d.Profiles
                     /\ d.Profiles[i].UpstreamClientConformance = "real-client"
                     /\ d.Profiles[i].EvidenceRef = p.EvidenceRef
                     /\ d.Profiles[i].EvidenceDigest = p.EvidenceDigest

(* A published contract stops validating only where evidence of another    *)
(* conformance profile was applied to a runtime profile that no            *)
(* upstream-client-v1 evidence was applied to; once such evidence arrives  *)
(* the profile validates again.                                            *)
InvalidOnlyByOtherEvidence ==
    \A c \in contracts :
        \/ ValidateContract(c)
        \/ \E i \in DOMAIN c.Profiles :
              LET own == {e \in applied : MatchesContract(e, c) /\
                                          e.RuntimeProfileID = c.Profiles[i].ID}
              IN /\ own # {}
                 /\ UpstreamProfile \notin {e.ConformanceProfile : e \in own}

(* A validated product is only ever found supported by a profile of        *)
(* exactly the executor and tiers it asks for, that is confined (a         *)
(* container with its digests, or a WASM component with its contract; a    *)
(* browser worker without the file system), forbids the host permissions,  *)
(* keeps no workspace it does not have, and declares upstream conformance  *)
(* where the plugin must.                                                  *)
AdmittedConfined ==
    \A a \in admitted :
        LET p == a.profile
            f == a.product.SecurityFloor
        IN /\ p.ExecutorProvider = f.ExecutorProvider
           /\ p.ExecutionSecurityTier = f.ExecutionSecurityTier
           /\ p.ExecutionSecurityTier # "trusted-native"
           /\ p.ProofTier = f.ProofTier /\ p.ProofTier # "receipt-only"
           /\ p.Forbidden
           /\ IF f.ExecutionSecurityTier = "wasm-capability"
              THEN /\ p.WASM.complete
                   /\ p.RuntimeProfile = "browser-worker-wasm-v1" =>
                          p.WASM.BrowserWorker /\ p.WASM.Filesystem = "forbidden"
              ELSE p.Confinement = "container"
           /\ UsesReusableWorkspace(p.ResiduePolicy) => p.HostWorkspaceSupported
           /\ ProviderPluginRequiresUpstreamClientConformance(a.plugin) =>
                  p.UpstreamClientConformance # Unset

(* The treasury of an admitted product is one: crypto rewards are routed   *)
(* to the network, account and wallet that settlement names, which are the *)
(* ones its workers are placed for; a product credited upstream pays and   *)
(* routes nothing; and who hosts a treasury-backed product is never any    *)
(* worker at all, because zero constraints are refused there although they *)
(* satisfy everybody (NetworkProduct.Validate joins four documents that    *)
(* are each optional, and compares fields only where both are set).        *)
TreasuryIsOne ==
    \A a \in admitted :
        LET p == a.product
            t == p.SettlementTarget
            r == p.CryptoRewardRouting
            c == p.PlacementConstraints
        IN /\ r # NoRouting =>
                  /\ t.Kind = "treasury_wallet"
                  /\ <<r.Network, r.TreasuryAccountID, r.TreasuryWalletRef>>
                        = <<t.Network, t.AccountID, t.WalletRef>>
                  /\ p.SettlementAccountID \in {Unset, r.TreasuryAccountID}
                  /\ c.WalletRef = r.TreasuryWalletRef
           /\ p.RewardPolicy = "upstream-credit" =>
                  r = NoRouting /\ ~p.ContributionPolicy.MonetaryPayouts
           /\ t.Kind = "treasury_wallet" =>
                  \A w \in a.workers : w.Disk > 0 /\ w.Memory > 0 /\ w.Bandwidth > 0

(* The rule the profile validator states: a profile claiming a real client *)
(* lists the upstream-client-v1 conformance profile.  Checked by a run     *)
(* that shows ApplyProviderConformanceEvidence breaking it.                *)
RealClientListsUpstreamProfile ==
    \A c \in contracts : \A i \in DOMAIN c.Profiles :
        c.Profiles[i].UpstreamClientConformance = "real-client" =>
            UpstreamProfile \in Elements(c.Profiles[i].ConformanceProfiles)
=============================================================================
