-------------------------- MODULE MCProviderContracts --------------------------
(* Small sets of contracts, evidence and products for ProviderContracts.   *)
(* The products vary one part at a time around batch commands, a product   *)
(* with a treasury and one that is credited upstream.                      *)
EXTENDS ProviderContracts

CONSTANT
    OtherProfiles   \* conformance profiles of evidence besides upstream-client-v1

Options(conformance, ref) ==
    [ConformanceProfiles |-> IF conformance = "real-client" THEN <<UpstreamProfile>> ELSE <<>>,
     UpstreamClientConformance |-> conformance, EvidenceRef |-> ref, EvidenceDigest |-> ref]

Contract(plugin, version, executors, tiers, options) ==
    [PluginID |-> plugin, ContractID |-> "batch", Version |-> version,
     wellFormed |-> TRUE, OperatingModes |-> {"batch", "warm-service", "node-service"},
     WorkloadKinds |-> {"command", "service", "node-service"}, Operations |-> <<>>,
     ExecutorProviders |-> Elements(executors),
     ExecutionSecurityTiers |-> Elements(tiers), ProofTiers |-> {"artifact-hash"},
     NetworkModes |-> {"direct"},
     Profiles |-> DefaultProviderRuntimeContract(executors, tiers,
                      <<"artifact-hash">>, options)]

Crypto == "workflow-plugin-crypto"
Media == "workflow-plugin-media"
Command == "sandboxed-command"
WASM == "wasm-component"
Sandbox == "sandboxed-container"

(* Two versions of a contract with two profiles, plain and published with  *)
(* a claim, and a WASM contract.                                           *)
Bases ==
    {Contract(Crypto, v, <<Command>>, <<Sandbox, "microvm">>, o) :
        v \in {"v1", "v2"}, o \in {Options("shape-only", ""), Options("real-client", "r0")}}
    \cup {Contract(Media, "v1", <<Command>>, <<Sandbox>>, Options("", "")),
          Contract(Media, "v1", <<WASM>>, <<"wasm-capability">>, Options("", "")),
          Contract(Crypto, "v1", <<Command>>, <<Sandbox>>, Options("", "")),
          Contract(Media, "v1", <<Command>>, <<"trusted-native">>, Options("", "")),
          Contract(Media, "v1", <<Command, Command>>, <<Sandbox>>, Options("", ""))}

Filled(browser, files) ==
    [complete |-> TRUE, BrowserWorker |-> browser, Filesystem |-> files,
     NativeHostUpdates |-> ""]

(* What a provider may write into its first profile by hand.               *)
Edits(c) ==
    LET p == c.Profiles[1]
    IN {c} \cup
       {[c EXCEPT !.Profiles[1] = q] : q \in
           {[p EXCEPT !.WASM = Filled(FALSE, "explicit")],
            [p EXCEPT !.WASM = Filled(TRUE, "forbidden"),
                      !.RuntimeProfile = "browser-worker-wasm-v1"],
            [p EXCEPT !.WASM = Filled(TRUE, "explicit"),
                      !.RuntimeProfile = "browser-worker-wasm-v1"],
            [p EXCEPT !.Forbidden = FALSE],
            [p EXCEPT !.Confinement = "mixed"],
            [p EXCEPT !.HostWorkspaceSupported = FALSE,
                      !.ResiduePolicy.Mode = "worker-bound"],
            [p EXCEPT !.UpstreamClientConformance = "real-client"]}}

MCDrafts ==
    {c \in Bases : c.PluginID = Crypto} \cup
    UNION {Edits(c) : c \in {b \in Bases : b.PluginID = Media}}

Observation(version, tier, profile, ref, at) ==
    [PluginID |-> Crypto, ContractID |-> "batch", Version |-> version,
     RuntimeProfileID |-> <<Command, tier, "artifact-hash">>,
     ConformanceProfile |-> profile, EvidenceRef |-> ref, EvidenceDigest |-> ref,
     ObservedAt |-> at, wellFormed |-> TRUE]

MCEvidence ==
    {Observation(v, Sandbox, UpstreamProfile, "r1", 1) : v \in {"v1", "v2"}}
    \cup {Observation("v1", t, f, "r2", 2) :
              t \in {Sandbox, "microvm"}, f \in OtherProfiles \cup {UpstreamProfile}}
    \cup {Observation("v1", "confidential-cpu", UpstreamProfile, "r3", 1),
          Observation("v1", "microvm", UpstreamProfile, "r4", 0)}

Product(plugin, version, executor, tier, mode) ==
    [PluginID |-> plugin, ContractID |-> "batch", Version |-> version,
     wellFormed |-> TRUE, OperatingMode |-> "batch", WorkloadKinds |-> {"command"},
     NetworkModes |-> {mode},
     SecurityFloor |-> [ExecutorProvider |-> executor, ExecutionSecurityTier |-> tier,
                        ProofTier |-> "artifact-hash"],
     ProofPolicy |-> [Quorum |-> 0, MaxAttempts |-> 0],
     SessionPolicy |-> [WarmSeconds |-> 0, MinRenewals |-> 0], RewardPolicy |-> "points",
     SettlementAccountID |-> "", SettlementTarget |-> NoTarget,
     CryptoRewardRouting |-> NoRouting, ContributionPolicy |-> NoContribution,
     PlacementConstraints |-> NoConstraints, ResiduePolicy |-> NoResidue]

Batch == Product(Media, "v1", Command, Sandbox, "direct")

Target(kind, wallet) ==
    [Kind |-> kind, AccountID |-> "pool", Network |-> "chain", WalletRef |-> wallet]
Routing(wallet) ==
    [Network |-> "chain", TreasuryAccountID |-> "pool", TreasuryWalletRef |-> wallet,
     modes |-> TRUE, ManagementFeeBps |-> 10000]
Constraints(wallet) ==
    [NoConstraints EXCEPT !.Chain = "chain", !.Role = "validator", !.MinDisk = 2,
        !.MinMemory = 1, !.MinBandwidth = 1, !.RequiresIngress = TRUE,
        !.RequiredCapabilities = <<"ssd">>, !.WalletRef = wallet,
        !.StorageGuidance.MinDisk = 2, !.StorageGuidance.displayed = {"MinDisk"}]

Treasury ==
    [Batch EXCEPT !.OperatingMode = "node-service", !.WorkloadKinds = {"node-service"},
        !.SessionPolicy.WarmSeconds = 60, !.RewardPolicy = "profit-share",
        !.SettlementAccountID = "pool", !.SettlementTarget = Target("treasury_wallet", "wallet-a"),
        !.CryptoRewardRouting = Routing("wallet-a"),
        !.PlacementConstraints = Constraints("wallet-a")]
Upstream ==
    [Batch EXCEPT !.OperatingMode = "warm-service", !.WorkloadKinds = {"service"},
        !.SessionPolicy.WarmSeconds = 60, !.RewardPolicy = "upstream-credit",
        !.SettlementTarget = Target("badge_ledger", ""),
        !.ContributionPolicy = [Validation |-> "upstream", Credit |-> "upstream",
                                MonetaryPayouts |-> FALSE]]

MCProducts ==
    {Product(Crypto, "", Command, "microvm", "direct"),
     Product(Crypto, "v2", Command, Sandbox, ""),
     Product(Media, "v1", WASM, "wasm-capability", "direct"),
     Product(Media, "v1", Command, "trusted-native", "direct"),
     Batch, [Batch EXCEPT !.ResiduePolicy.Mode = "isolated"],
     Treasury, [Treasury EXCEPT !.CryptoRewardRouting = Routing("wallet-b")],
     [Treasury EXCEPT !.CryptoRewardRouting.Network = "other"],
     [Treasury EXCEPT !.SettlementTarget = Target("participant_wallet", "wallet-a"),
                      !.RewardPolicy = "points"],
     [Treasury EXCEPT !.SettlementTarget = NoTarget],
     [Treasury EXCEPT !.SettlementTarget = Target("treasury_wallet", "0xa"),
                      !.CryptoRewardRouting = NoRouting],
     [Treasury EXCEPT !.SettlementAccountID = "other"],
     [Treasury EXCEPT !.PlacementConstraints = NoConstraints],
     [Treasury EXCEPT !.PlacementConstraints = Constraints("wallet-b")],
     [Treasury EXCEPT !.PlacementConstraints.StorageGuidance.RecommendedDisk = 1],
     [Treasury EXCEPT !.ResiduePolicy.Mode = "isolated"],
     Upstream, [Upstream EXCEPT !.ContributionPolicy.MonetaryPayouts = TRUE],
     [Upstream EXCEPT !.ContributionPolicy = NoContribution],
     [Upstream EXCEPT !.CryptoRewardRouting = Routing("wallet-a")],
     [Upstream EXCEPT !.SessionPolicy.WarmSeconds = 0]}

Worker(disk, tags) ==
    [Disk |-> disk, Memory |-> 1, Bandwidth |-> 1, IngressCapable |-> TRUE,
     CapabilityTags |-> tags]
MCWorkers ==
    {Worker(2, {"ssd"}), Worker(1, {"ssd"}), Worker(2, {}), Worker(0, {}),
     [Worker(2, {"ssd"}) EXCEPT !.IngressCapable = FALSE],
     [Worker(2, {"ssd"}) EXCEPT !.Bandwidth = 0]}
=============================================================================
