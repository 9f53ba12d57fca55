---------------------------- MODULE NetworkProducts ----------------------------
(***************************************************************************)
(* Network products, as protocol/types.go validates them: what runs where, *)
(* under which floors, who is credited or paid, and which workers it may   *)
(* be placed on.                                                           *)
(*                                                                         *)
(* Data: a reward policy is its name in lower case; wallet references are  *)
(* strings, of which ScopedWallets have the wallet:// scope and a clean    *)
(* path; wellFormed stands for identifiers, references and the checks of   *)
(* one field alone.                                                        *)
(***************************************************************************)
EXTENDS Workloads

CONSTANT ScopedWallets

OperatingModes == {"batch", "warm-service", "node-service", "inference-api"}

-----------------------------------------------------------------------------
(* Settlement.  A zero document asks for nothing.                          *)

SettlementKinds ==
    {"points_ledger", "payroll_account", "badge_ledger", "fiat_token_treasury",
     "treasury_wallet", "participant_wallet", "external_destination"}

NoTarget == [Kind |-> Unset, AccountID |-> Unset, Network |-> Unset, WalletRef |-> Unset]

SettlementTargetValid(t, account) ==
    t # NoTarget =>
        /\ t.Kind \in SettlementKinds
        /\ Unset \notin {account, t.AccountID} => t.AccountID = account
        /\ t.WalletRef # "bad"
        /\ t.Kind = "treasury_wallet" => Unset \notin {t.AccountID, t.Network, t.WalletRef}
        /\ t.Kind = "external_destination" => t.AccountID # Unset

(* Custody, distribution and the source of participants' wallets have one  *)
(* value each: modes says that all three are set to it.                    *)
NoRouting ==
    [Network |-> Unset, TreasuryAccountID |-> Unset, TreasuryWalletRef |-> Unset,
     modes |-> FALSE, ManagementFeeBps |-> 0]

(* A slip: the routing is not compared with the settlement target.         *)
RoutingValid_AnyTreasury(p, target) ==
    p # NoRouting =>
        /\ p.Network # Unset /\ p.TreasuryAccountID # Unset
        /\ p.TreasuryWalletRef \in ScopedWallets
        /\ p.modes /\ p.ManagementFeeBps \in 0 .. 10000

RoutingValid(p, target) ==
    p # NoRouting =>
        /\ p.Network # Unset /\ p.TreasuryAccountID # Unset
        /\ p.TreasuryWalletRef \in ScopedWallets
        /\ p.modes /\ p.ManagementFeeBps \in 0 .. 10000
        /\ target.Kind = "treasury_wallet"
        /\ target.Network \in {Unset, p.Network}
        /\ target.AccountID \in {Unset, p.TreasuryAccountID}
        /\ target.WalletRef \in {Unset, p.TreasuryWalletRef}

Authorities == {"wfcompute", "upstream"}

NoContribution == [Validation |-> Unset, Credit |-> Unset, MonetaryPayouts |-> FALSE]

ValidateForRewardPolicy(p, reward, target) ==
    p # NoContribution \/ reward = "upstream-credit" =>
        /\ {p.Validation, p.Credit} \subseteq Authorities
        /\ reward = "upstream-credit" =>
               /\ {p.Validation, p.Credit} = {"upstream"} /\ ~p.MonetaryPayouts
               /\ target.Kind \in {Unset, "badge_ledger"}

-----------------------------------------------------------------------------
(* Placement.                                                              *)

NoGuidance ==
    [MinDisk |-> 0, RecommendedDisk |-> 0, GrowthMargin |-> 0, displayed |-> {},
     wellFormed |-> TRUE]

(* What is positive is displayed.                                          *)
StorageGuidanceValid(g) ==
    /\ g.wellFormed
    /\ \A n \in {"MinDisk", "RecommendedDisk", "GrowthMargin"} :
          g[n] >= 0 /\ (g[n] > 0 => n \in g.displayed)
    /\ g.MinDisk > 0 /\ g.RecommendedDisk > 0 => g.RecommendedDisk >= g.MinDisk

NoConstraints ==
    [Chain |-> Unset, Role |-> Unset, MinDisk |-> 0, MinMemory |-> 0, MinBandwidth |-> 0,
     RequiresIngress |-> FALSE, RequiredCapabilities |-> <<>>, WalletRef |-> Unset,
     StorageGuidance |-> NoGuidance]

PlacementConstraintsValid(c, required, target) ==
    IF c = NoConstraints THEN ~required
    ELSE /\ required => /\ Unset \notin {c.Chain, c.Role, c.WalletRef}
                        /\ 0 \notin {c.MinDisk, c.MinMemory, c.MinBandwidth}
         /\ c.MinDisk >= 0 /\ c.MinMemory >= 0 /\ c.MinBandwidth >= 0
         /\ IsInjective(c.RequiredCapabilities)
         /\ c.WalletRef # Unset => /\ c.WalletRef \in ScopedWallets
                                /\ target.WalletRef \in {Unset, c.WalletRef}
         /\ StorageGuidanceValid(c.StorageGuidance)

(* The chain, the wallet and the storage guidance are not looked at.       *)
PlacementConstraintsSatisfiedBy(c, worker, task) ==
    /\ c.MinDisk > 0 => worker.Disk >= c.MinDisk
    /\ c.MinMemory > 0 => worker.Memory >= c.MinMemory
    /\ c.MinBandwidth > 0 => worker.Bandwidth >= c.MinBandwidth
    /\ c.RequiresIngress => worker.IngressCapable /\ task.AllowIngress
    /\ Range(c.RequiredCapabilities) \subseteq worker.CapabilityTags

-----------------------------------------------------------------------------
(* Products.                                                               *)

(* The session policy of a product and its operating mode.                 *)
ValidateForOperatingMode(p, mode) ==
    /\ p.WarmSeconds >= 0 /\ p.MinRenewals >= 0
    /\ IF mode = "batch" THEN p.MinRenewals = 0 ELSE p.WarmSeconds > 0

networkProductAdmitsSessionWorkload(p) ==
    p.WorkloadKinds \cap {"service", "video-stream"} # {}

networkProductAdmitsShortLivedResidue(p) ==
    p.WorkloadKinds \ {"service", "node-service", "video-stream"} # {}

KindsFitMode(p) ==
    CASE p.OperatingMode = "batch" -> TRUE
      [] p.OperatingMode = "warm-service" -> networkProductAdmitsSessionWorkload(p)
      [] p.OperatingMode = "inference-api" -> "service" \in p.WorkloadKinds
      [] p.OperatingMode = "node-service" -> "node-service" \in p.WorkloadKinds

(* The rewards that restrict the rest of the product.                      *)
RewardFitsProduct(p) ==
    /\ p.RewardPolicy = "upstream-credit" =>
           /\ p.OperatingMode \in {"warm-service", "node-service"}
           /\ p.WorkloadKinds \cap {"service", "node-service"} # {}
    /\ p.RewardPolicy = "profit-share" /\ p.OperatingMode = "node-service" =>
           p.SettlementTarget.Kind = "treasury_wallet"

NetworkProductValid(p) ==
    /\ p.wellFormed
    /\ p.OperatingMode \in OperatingModes
    /\ p.WorkloadKinds # {} /\ \A kind \in p.WorkloadKinds : validWorkloadKind(kind)
    /\ KindsFitMode(p)
    /\ p.SecurityFloor.ExecutorProvider # Unset
    /\ p.SecurityFloor.ExecutionSecurityTier \in ContractTiers
    /\ p.SecurityFloor.ProofTier \in ContractProofs
    /\ ValidateProofPolicy(p.SecurityFloor.ProofTier, p.ProofPolicy)
    /\ p.NetworkModes # {}
    /\ {normalizeNetworkMode(m) : m \in p.NetworkModes} \subseteq NetworkModes
    /\ p.RewardPolicy # Unset
    /\ SettlementTargetValid(p.SettlementTarget, p.SettlementAccountID)
    /\ RoutingValid(p.CryptoRewardRouting, p.SettlementTarget)
    /\ PlacementConstraintsValid(p.PlacementConstraints,
           p.SettlementTarget.Kind = "treasury_wallet", p.SettlementTarget)
    /\ ValidateForRewardPolicy(p.ContributionPolicy, p.RewardPolicy, p.SettlementTarget)
    /\ ValidResidue(p.ResiduePolicy, {})
    /\ p.ResiduePolicy # NoResidue => networkProductAdmitsShortLivedResidue(p)
    /\ RewardFitsProduct(p)
    /\ ValidateForOperatingMode(p.SessionPolicy, p.OperatingMode)
=============================================================================
