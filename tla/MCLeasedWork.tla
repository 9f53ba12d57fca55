---------------------------- MODULE MCLeasedWork ----------------------------
(***************************************************************************)
(* A small instance of LeasedWork.  Orders vary one part at a time around  *)
(* a benchmark task without policies: every payload kind with a workload   *)
(* that is sound and ones that are not, session policies whose windows end *)
(* before, at and after the clock's bound, every way a run-log policy may  *)
(* be written, and operations that declare artifacts in either list.       *)
(***************************************************************************)
EXTENDS LeasedWork, TLC

Residue ==
    [Mode |-> "isolated", AllowedModes |-> {}, SessionKey |-> FALSE, PolicyHash |-> FALSE,
     ExplicitWorkerBound |-> FALSE]
WorkerBound(hash, explicit) ==
    [Residue EXCEPT !.Mode = "worker-bound", !.PolicyHash = hash,
                    !.ExplicitWorkerBound = explicit]

-----------------------------------------------------------------------------
(* Workloads.                                                              *)

None == [kind \in {} |-> kind]
Of(kind, w) == [Kind |-> kind, payload |-> kind :> w]

Ref == [value |-> TRUE, secret |-> FALSE]
BothRefs == [value |-> TRUE, secret |-> TRUE]
File == [inside |-> TRUE, template |-> FALSE, direct |-> 1, refs |-> {}]
Probe(kind) == [Kind |-> kind, target |-> TRUE, TimeoutSeconds |-> 1, IntervalSeconds |-> 2]
Ingress(mode, auth) == [wellFormed |-> TRUE, Mode |-> mode, AuthRequired |-> auth]

Command == [wellFormed |-> TRUE, args |-> TRUE, env |-> {Ref}]
Build == [wellFormed |-> TRUE, tags |-> TRUE, env |-> {}]
Headless ==
    [wellFormed |-> TRUE, image |-> "pinned", component |-> "", digest |-> "",
     Ports |-> {}, HealthCheck |-> Probe("command"), Ingress |-> Ingress("none", FALSE),
     dataDir |-> "", mount |-> "", env |-> {}, files |-> {}]
Web ==
    [Headless EXCEPT !.Ports = {"http"}, !.HealthCheck = Probe("http"),
                     !.Ingress = Ingress("public", TRUE), !.files = {File},
                     !.dataDir = "volume", !.mount = "absolute"]
Services ==
    {Headless, Web, [Headless EXCEPT !.Ports = {"http"}],
     [Web EXCEPT !.Ingress = Ingress("public", FALSE)], [Web EXCEPT !.Ports = {"bad"}],
     [Web EXCEPT !.files = {[File EXCEPT !.template = TRUE, !.direct = 0, !.refs = {Ref}]}],
     [Web EXCEPT !.files = {[File EXCEPT !.inside = FALSE]}],
     [Web EXCEPT !.component = "p", !.digest = "sha256"]}

Peer(name, parses) == [name |-> name, parses |-> parses]
Peers(mode, allowed, egress) ==
    [Mode |-> mode, AllowedPeers |-> allowed, EgressAllowlist |-> egress]
Node(peers) ==
    [wellFormed |-> TRUE, image |-> "", component |-> "p", digest |-> "sha256",
     PeerPolicy |-> peers, HealthCheck |-> Probe("http"), env |-> {Ref}]
Nodes ==
    {Node(Peers("isolated", {}, {})),
     Node(Peers("public-chain-peer", {Peer("a", TRUE)}, {})),
     Node(Peers("allowlist", {Peer("a", TRUE)}, {Peer("a", TRUE), Peer("b", TRUE)})),
     Node(Peers("allowlist", {Peer("b", TRUE)}, {Peer("a", TRUE)}))}

Transform(ok) == [wellFormed |-> ok]
Stream(ingest, ok) ==
    [IngestProtocols |-> ingest,
     Destinations |-> {[target |-> TRUE, transform |-> Transform(ok)]},
     Redundancy |-> [Tier |-> "warm-standby", StandbyCount |-> 1, CutoverDeadlineMS |-> 0]]
Capture(host) ==
    [wellFormed |-> TRUE, host |-> host, AllowedHosts |-> {"a"}, CaptureMode |-> ""]
Provider(image, component, inside) ==
    [wellFormed |-> TRUE, plugin |-> "p", image |-> image, component |-> component,
     digest |-> IF component = "" THEN "" ELSE "sha256",
     ContentInputs |-> {[inside |-> inside, scheme |-> "content"]},
     StreamInputs |-> {[wellFormed |-> TRUE, Protocol |-> "srt"]}]
WASM == [wellFormed |-> TRUE, component |-> "p", digest |-> "sha256"]

Workloads_ ==
    {Of("command", Command), Of("command", [Command EXCEPT !.env = {BothRefs}]),
     Of("container-build", Build), Of("wasm-component", WASM),
     Of("media-transform", Transform(TRUE)), Of("media-transform", Transform(FALSE)),
     Of("video-stream", Stream({"rtmp"}, TRUE)), Of("video-stream", Stream({}, TRUE)),
     Of("product-capture", Capture("a")), Of("product-capture", Capture("b")),
     Of("provider", Provider("pinned", "", TRUE)), Of("provider", Provider("", "p", TRUE)),
     Of("provider", Provider("", "q", TRUE)), Of("provider", Provider("tagged", "", TRUE)),
     Of("provider", Provider("pinned", "", FALSE)),
     Of("provider", [Provider("pinned", "", TRUE)
                        EXCEPT !.StreamInputs = {[wellFormed |-> TRUE, Protocol |-> "file"]}]),
     [Kind |-> "supervisor", payload |-> None], [Kind |-> "command", payload |-> None],
     [Kind |-> "command", payload |-> ("command" :> Command) @@
                                      ("service" :> [Web EXCEPT !.Ports = {"bad"}])],
     [Kind |-> "command", payload |-> "service" :> Web]}
    \cup {Of("service", w) : w \in Services} \cup {Of("node-service", w) : w \in Nodes}

-----------------------------------------------------------------------------
(* Policies, operations and tasks.                                         *)

Unsigned(notBefore, expires, fresh) ==
    [wellFormed |-> TRUE, zone |-> "utc", IssuedAt |-> 1, NotBefore |-> notBefore,
     ExpiresAt |-> expires, RevocationFreshUntil |-> fresh, SessionGeneration |-> 1,
     Mode |-> "relay", Peers |-> <<"alice", "bob">>, MaxPeers |-> 2,
     AllowedProtocols |-> TRUE, ContentRefs |-> FALSE, PolicyHash |-> NoHash]
Policy(notBefore, expires, fresh) ==
    [Unsigned(notBefore, expires, fresh)
        EXCEPT !.PolicyHash = SigningPayload(Unsigned(notBefore, expires, fresh))]
Rehashed(p) == [p EXCEPT !.PolicyHash = SigningPayload(p)]

Policies_ ==
    {NoPolicy, Policy(2, 4, 4), Policy(1, 5, 3), Policy(2, 3, 5), Policy(3, 3, 5),
     Unsigned(1, 4, 4),
     Rehashed([Unsigned(1, 5, 5) EXCEPT !.Mode = "p2p_content"]),
     Rehashed([Unsigned(1, 5, 5) EXCEPT !.Mode = "p2p_content", !.ContentRefs = TRUE]),
     Rehashed([Unsigned(1, 5, 5) EXCEPT !.Peers = <<"alice", "alice">>]),
     Rehashed([Unsigned(1, 5, 5) EXCEPT !.MaxPeers = 1])}

FullAuthority ==
    [RetentionSeconds |-> 60, PolicyRef |-> "client", PolicyHash |-> TRUE,
     ProviderEnrollmentID |-> "", RequestAdjusted |-> FALSE]
FullLogs ==
    [Version |-> "v1", PreserveFullLogs |-> TRUE, Authority |-> FullAuthority,
     present |-> FALSE]
NoLogs == [ZeroRunLog EXCEPT !.Version = "v1"]
WrittenRunLogs ==
    {NoField, Null, ZeroRunLog, UnknownFields, FullLogs, NoLogs,
     [FullLogs EXCEPT !.Version = ""], [FullLogs EXCEPT !.Version = "v2"],
     [FullLogs EXCEPT !.Authority.RetentionSeconds = 0],
     [FullLogs EXCEPT !.Authority.PolicyRef = "none"],
     [NoLogs EXCEPT !.Authority = FullAuthority]}

Artifact(name, max) == [Name |-> name, MaxBytes |-> max, wellFormed |-> TRUE]
Operation(names, specs) ==
    [wellFormed |-> TRUE, Artifacts |-> names, ArtifactSpecs |-> specs]
Operations ==
    {Operation(<<>>, <<>>), Operation(<<"out">>, <<>>), Operation(<<"out", "out">>, <<>>),
     Operation(<<>>, <<Artifact("out", 1), Artifact("log", 2)>>),
     Operation(<<>>, <<Artifact("out", 1), Artifact("out", 2)>>),
     Operation(<<"out", "log">>, <<Artifact("out", 1)>>),
     Operation(<<"log">>, <<Artifact("out", 1)>>), Operation(<<"bad">>, <<>>)}

Task ==
    [wellFormed |-> TRUE, Workload |-> [Kind |-> "benchmark", payload |-> None],
     ProofTier |-> "receipt-only", ProofPolicy |-> [Quorum |-> 0, MaxAttempts |-> 0],
     NetworkPolicy |-> [wellFormed |-> TRUE, Mode |-> "relay", IngressHostnames |-> FALSE,
                        AllowIngress |-> FALSE],
     P2PSessionPolicy |-> NoPolicy, Visibility |-> "network", ResiduePolicy |-> Residue,
     RequestedAt |-> 1, TimeoutSeconds |-> 10]
Quorum(q, attempts) ==
    [Task EXCEPT !.ProofTier = "replicated-quorum",
                 !.ProofPolicy = [Quorum |-> q, MaxAttempts |-> attempts]]

Default ==
    [task |-> Task, operation |-> Operation(<<>>, <<>>), runLog |-> NoField, tags |-> {}]
Tag == {"run-log-lease-policy-v1"}

MCOrders ==
    {[Default EXCEPT !.task = t] :
        t \in {[Task EXCEPT !.Workload = w] : w \in Workloads_}
              \cup {[Task EXCEPT !.P2PSessionPolicy = p] : p \in Policies_}
              \cup {[Task EXCEPT !.ResiduePolicy = WorkerBound(h, e)] : h, e \in BOOLEAN}
              \cup {Quorum(2, 3), Quorum(2, 1),
                    [Task EXCEPT !.NetworkPolicy.IngressHostnames = TRUE],
                    [Task EXCEPT !.Visibility = "secret"]}}
    \cup {[Default EXCEPT !.operation = o] : o \in Operations}
    \cup {[Default EXCEPT !.runLog = r, !.tags = tags] :
             r \in WrittenRunLogs, tags \in {{}, Tag}}

-----------------------------------------------------------------------------
(* Adapters, results and deliveries.                                       *)

Adapter(kinds, workloads) ==
    [wellFormed |-> TRUE, Kinds |-> kinds, WorkloadKinds |-> workloads,
     ConformanceProfiles |-> <<"base">>, ResiduePolicy |-> Residue]
MCAdapters ==
    {Adapter(<<"execution">>, <<"command", "container-build", "provider", "wasm-component",
                                "media-transform", "product-capture", "supervisor">>),
     Adapter(<<"service-session">>, <<"service", "node-service", "video-stream">>),
     Adapter(<<"service-run">>, <<"video-stream">>),
     Adapter(<<"execution", "service-run">>, <<"service", "command">>)}

Result(started, finished) ==
    [wellFormed |-> TRUE, StartedAt |-> started, FinishedAt |-> finished]
MCResults == {Result(1, 2), Result(2, 1)}

Delivery(name, status) ==
    [wellFormed |-> TRUE, Name |-> name, SizeBytes |-> 1, Status |-> status, Attempts |-> 1]
MCDeliveries ==
    {Delivery("out", "delivered"), Delivery("log", "pending"), Delivery("out", "lost")}
=============================================================================
