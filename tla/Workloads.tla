----------------------------- MODULE Workloads -----------------------------
(***************************************************************************)
(* What may be executed, as protocol/types.go, handoff.go, stream.go and   *)
(* media.go validate it: workloads of the kinds a task may name, runtime   *)
(* adapter contracts and execution requests and results.                   *)
(*                                                                         *)
(* Data: an image reference is "" or a class (pinned by digest, tagged,    *)
(* dirty), a component reference the plugin it names, "" or "bad"; ports,  *)
(* environment references and files are sets of what their validators tell *)
(* apart; an endpoint is its normalised name, a spelling and whether it    *)
(* parses.  wellFormed stands for the identifiers, scoped references and   *)
(* numeric ranges of a document, which decide nothing else.                *)
(***************************************************************************)
EXTENDS Policies, Functions

PlainKinds == {"docker-compose-build", "benchmark", "training", "content-cache",
               "supervisor"}
PayloadKinds == {"command", "container-build", "service", "node-service", "video-stream",
                 "media-transform", "product-capture", "provider", "wasm-component"}

validWorkloadKind(kind) == kind \in PlainKinds \cup PayloadKinds

-----------------------------------------------------------------------------
(* Parts that several workloads share.                                     *)

EnvRefValid(ref) == ref.value # ref.secret

ContentInputValid(ref) == ref.inside /\ ref.scheme \in {"content", "s3", "gs", "spaces"}

validStreamProtocol(protocol) ==
    protocol \in {"rtmp", "srt", "whip", "webrtc", "hls", "dash"}

StreamInputValid(ref) == ref.wellFormed /\ validStreamProtocol(ref.Protocol)

(* A file of the workspace is one reference or a template with references. *)
FileRefValid(f) ==
    /\ f.inside
    /\ IF f.template THEN f.direct = 0 ELSE f.direct = 1 /\ f.refs = {}
    /\ \A ref \in f.refs : EnvRefValid(ref)

validateImageOrComponentRef(w) ==
    /\ (w.image # Unset) # (w.component # Unset)
    /\ w.image # "dirty"
    /\ w.component # "bad"
    /\ (w.digest = "sha256") = (w.component # Unset)
    /\ w.digest \in {Unset, "sha256"}

HealthCheckValid(h) ==
    /\ h.Kind \in {"http", "command"} /\ h.target
    /\ 0 < h.TimeoutSeconds /\ h.TimeoutSeconds <= h.IntervalSeconds

IngressValid(p) ==
    /\ p.wellFormed
    /\ p.Mode \in {"none", "internal", "private", "public"}
    /\ p.AuthRequired = (p.Mode # "none")

Names(endpoints) == {e.name : e \in endpoints}

PeerPolicyValid(p) ==
    \/ p.Mode = "isolated"
    \/ /\ p.Mode \in {"public-chain-peer", "allowlist"}
       /\ \A e \in p.AllowedPeers \cup p.EgressAllowlist : e.parses
       /\ p.Mode = "allowlist" =>
              /\ p.AllowedPeers # {} /\ p.EgressAllowlist # {}
              /\ Names(p.AllowedPeers) \subseteq Names(p.EgressAllowlist)

RedundancyValid(p) ==
    \/ p.Tier \in {Unset, "none"}
    \/ p.Tier = "warm-standby" /\ p.StandbyCount > 0 /\ p.CutoverDeadlineMS >= 0

-----------------------------------------------------------------------------
(* Payloads.                                                               *)

CommandValid(w) == w.wellFormed /\ w.args /\ \A ref \in w.env : EnvRefValid(ref)

ContainerBuildValid(w) == w.wellFormed /\ w.tags /\ \A ref \in w.env : EnvRefValid(ref)

ServicePartsValid(w) ==
    /\ w.wellFormed
    /\ validateImageOrComponentRef(w)
    /\ "bad" \notin w.Ports
    /\ HealthCheckValid(w.HealthCheck)
    /\ IngressValid(w.Ingress)
    /\ <<w.dataDir, w.mount>> \in {<<Unset, Unset>>, <<"volume", "absolute">>}
    /\ \A ref \in w.env : EnvRefValid(ref)
    /\ \A f \in w.files : FileRefValid(f)

(* A slip: ports are only required, never refused.                         *)
ServiceValid_HeadlessPorts(w) ==
    ServicePartsValid(w) /\ (w.Ingress.Mode # "none" => w.Ports # {})

(* A headless service has no ports and is probed by a command.             *)
ServiceValid(w) ==
    /\ ServicePartsValid(w)
    /\ IF w.Ingress.Mode = "none"
       THEN w.Ports = {} /\ w.HealthCheck.Kind = "command"
       ELSE w.Ports # {}

NodeServiceValid(w) ==
    /\ w.wellFormed
    /\ validateImageOrComponentRef(w)
    /\ PeerPolicyValid(w.PeerPolicy)
    /\ HealthCheckValid(w.HealthCheck)
    /\ \A ref \in w.env : EnvRefValid(ref)

MediaTransformValid(m) == m.wellFormed

StreamValid(s) ==
    /\ s.IngestProtocols # {}
    /\ \A d \in s.Destinations : d.target /\ MediaTransformValid(d.transform)
    /\ RedundancyValid(s.Redundancy)

productCaptureHostAllowed(host, allowed) == host # Unset /\ host \in allowed

ProductCaptureValid(w) ==
    /\ w.wellFormed
    /\ productCaptureHostAllowed(w.host, w.AllowedHosts)
    /\ w.CaptureMode \in {Unset, "browser", "metadata"}

(* An image is pinned; a component is of the plugin that is configured.    *)
ProviderValid(w) ==
    /\ w.wellFormed
    /\ w.plugin \notin {Unset, "bad"}
    /\ (w.image # Unset) # (w.component # Unset)
    /\ w.image \in {Unset, "pinned"}
    /\ w.component # Unset => w.component = w.plugin /\ w.digest = "sha256"
    /\ \A ref \in w.ContentInputs : ContentInputValid(ref)
    /\ \A ref \in w.StreamInputs : StreamInputValid(ref)

WASMValid(w) == w.wellFormed /\ w.component \notin {Unset, "bad"} /\ w.digest = "sha256"

PayloadValid(kind, w) ==
    CASE kind = "command" -> CommandValid(w)
      [] kind = "container-build" -> ContainerBuildValid(w)
      [] kind = "service" -> ServiceValid(w)
      [] kind = "node-service" -> NodeServiceValid(w)
      [] kind = "video-stream" -> StreamValid(w)
      [] kind = "media-transform" -> MediaTransformValid(w)
      [] kind = "product-capture" -> ProductCaptureValid(w)
      [] kind = "provider" -> ProviderValid(w)
      [] kind = "wasm-component" -> WASMValid(w)

(* Only the payload of the workload's own kind is looked at; others may be *)
(* there.                                                                  *)
WorkloadValid(w) ==
    \/ w.Kind \in PlainKinds
    \/ w.Kind \in PayloadKinds \cap DOMAIN w.payload /\ PayloadValid(w.Kind, w.payload[w.Kind])

-----------------------------------------------------------------------------
(* Adapters.                                                               *)

AdapterKinds == {"execution", "service-run", "service-session"}

Supports(c, kind) == kind \in Range(c.WorkloadKinds)

SupportsAdapterKind(c, kind) == kind \in Range(c.Kinds)

(* A session may also be a video stream; a run may not.                    *)
AdapterValid(c) ==
    /\ c.wellFormed
    /\ c.Kinds # <<>> /\ IsInjective(c.Kinds) /\ Range(c.Kinds) \subseteq AdapterKinds
    /\ c.WorkloadKinds # <<>> /\ IsInjective(c.WorkloadKinds)
    /\ \A kind \in Range(c.WorkloadKinds) : validWorkloadKind(kind)
    /\ SupportsAdapterKind(c, "service-run") =>
           \E kind \in {"service", "node-service"} : Supports(c, kind)
    /\ SupportsAdapterKind(c, "service-session") =>
           \E kind \in {"service", "node-service", "video-stream"} : Supports(c, kind)
    /\ c.ConformanceProfiles # <<>> /\ IsInjective(c.ConformanceProfiles)

(* What an adapter is asked and answers.                                   *)
ExecutionRequestValid(r) == r.wellFormed /\ validWorkloadKind(r.WorkloadKind)

ExecutionResultValid(r) ==
    /\ r.wellFormed
    /\ r.StartedAt = 0 \/ r.FinishedAt = 0 \/ r.StartedAt <= r.FinishedAt
=============================================================================
