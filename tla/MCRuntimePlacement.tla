------------------------- MODULE MCRuntimePlacement -------------------------
(* A worker with a system-installed native backend and a bundled container *)
(* backend whose bundle expires, faulty variants of the latter, and        *)
(* requirements that tempt a placement to combine the two.                 *)
EXTENDS RuntimePlacement

CONSTANTS BundleUntil, AttestedUntil   \* when the bundle and attestation expire

Executor(provider, tier, proof) ==
    [Provider |-> provider, Version |-> "v1", ExecutionSecurityTier |-> tier,
     ProofTier |-> proof, Digests |-> TRUE]

Bundle(family, signedFor, until) ==
    [Family |-> family, Digest |-> "d", subject |-> [Family |-> signedFor, Digest |-> "d"],
     ValidUntil |-> until, scoped |-> TRUE, InstallBurden |-> "bundled", wellFormed |-> TRUE]

Supported(family, burden, bundle, provs, execs) ==
    [Family |-> family, Status |-> "supported", Reason |-> "", GeneratedAt |-> 1,
     InstallBurden |-> burden, Bundle |-> bundle, ExecutorProviders |-> provs,
     Executors |-> execs, Profiles |-> TRUE, Evidence |-> RequiredEvidence,
     wellFormed |-> TRUE]

Native == Supported("podman", "system-installed", NoBundle, {"native"},
                    <<Executor("native", "trusted-native", "attested-receipt")>>)
Contained == <<Executor("box", "sandboxed-container", "artifact-hash"),
               Executor("tee", "confidential-cpu", "attested-receipt")>>
Bundled(bundle) == Supported("containerd", "bundled", bundle, {"box"}, Contained)
Good == Bundled(Bundle("containerd", "containerd", BundleUntil))
Misissued == [Bundled(Bundle("containerd", "docker", MaxNow + 1))
                 EXCEPT !.Executors = <<[Contained[1] EXCEPT !.Digests = FALSE]>>]
Unproven == [Native EXCEPT !.Evidence = @ \ {"cleanup"}]
Degraded == [Native EXCEPT !.Status = "degraded", !.Reason = "probe failed",
                           !.ExecutorProviders = {}, !.Executors = <<>>]
ProvidersOnly == [Good EXCEPT !.Executors = <<>>]

MCReportLists == {<<Good>>, <<Native, Good>>, <<Unproven, Misissued>>, <<Degraded>>,
                  <<ProvidersOnly>>, <<Bundled(NoBundle), Native>>}
MCDeclaredLists == {<<>>, <<[Provider |-> "box", Status |-> "degraded"]>>}
Attestation(verified) == [Class |-> "confidential-cpu", keyed |-> TRUE,
                          Verified |-> verified, ExpiresAt |-> AttestedUntil]
MCHardwareSets == {[GPUCount |-> 0, Classes |-> {"avx"}, Attestations |-> {}],
                   [GPUCount |-> 0, Classes |-> {"confidential-cpu"},
                    Attestations |-> {Attestation(FALSE), Attestation(TRUE)}]}

Request(provider, tier, proof, class, tags, limited) ==
    [ExecutorProvider |-> provider, ExecutionSecurityTier |-> tier, ProofTier |-> proof,
     HardwareClass |-> class, RequiredCapabilities |-> tags, limited |-> limited]
MCRequests == {Request(p, t, pr, "", <<"gpu-free">>, l) :
                  p \in {"", "box", "native"}, t \in {"", "sandboxed-container", "confidential-cpu"},
                  pr \in {"", "attested-receipt"}, l \in BOOLEAN}
              \cup {Request("", "", "", c, <<>>, FALSE) : c \in {"avx", "confidential-gpu"}}
              \cup {Request("box", "", "", "", tags, FALSE) :
                        tags \in {<<"mobile">>, <<"gpu-free", "gpu-free">>}}

=============================================================================
