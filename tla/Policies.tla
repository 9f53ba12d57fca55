------------------------------ MODULE Policies ------------------------------
(***************************************************************************)
(* Policies that several documents of protocol/types.go carry: residue,    *)
(* network, access, proof and resource policies and their validators.      *)
(*                                                                         *)
(* Data: a session key or policy hash is there or not (TRUE, FALSE);       *)
(* wellFormed stands for host names, references and numeric ranges.        *)
(***************************************************************************)
EXTENDS Integers, Sequences, FiniteSets

(* A string field that is absent.                                          *)
Unset == ""

NetworkModes == {"direct", "relay", "tailnet", "tor", "p2p", "offline"}

normalizeNetworkMode(m) == IF m = Unset THEN "direct" ELSE m

(* The mode is normalised on a copy: what is stored keeps its own.         *)
NetworkPolicyValid(p) ==
    /\ p.wellFormed
    /\ normalizeNetworkMode(p.Mode) \in NetworkModes
    /\ p.IngressHostnames => p.AllowIngress

(* The security and proof tiers that products and contracts may name: all  *)
(* but trusted-native and receipt-only.                                    *)
ContractTiers == {"hardened-container", "sandboxed-container", "microvm",
                  "confidential-cpu", "confidential-gpu", "wasm-capability"}
ContractProofs == {"artifact-hash", "replicated-quorum", "attested-receipt",
                   "attested-quorum", "zk-replay", "stream-segment-manifest"}

Visibilities == {Unset, "private", "network", "public"}

ResidueModes == {"isolated", "none", "provider-bound", "worker-bound", "session-bound"}

UsesReusableWorkspace(residue) ==
    residue.Mode \in {"provider-bound", "worker-bound", "session-bound"}

(* The zero value.                                                         *)
NoResidue == [Mode |-> Unset, AllowedModes |-> {}, SessionKey |-> FALSE,
              PolicyHash |-> FALSE, ExplicitWorkerBound |-> FALSE]

(* What a document requires of its residue policy besides.                 *)
ResidueRequirements == {"NoWorkspaceAllowed", "RequireExplicitWorkerBound", "RequirePolicyHash"}

(* A session key goes with the session-bound mode and with no other; the   *)
(* mode is one of the allowed ones when there are any.                     *)
ValidResidue(residue, required) ==
    /\ residue.Mode \in ResidueModes \cup {Unset}
    /\ residue.AllowedModes \subseteq ResidueModes
    /\ residue.Mode # Unset /\ residue.AllowedModes # {} =>
           residue.Mode \in residue.AllowedModes
    /\ residue.SessionKey <=> residue.Mode = "session-bound"
    /\ UsesReusableWorkspace(residue) =>
           /\ "NoWorkspaceAllowed" \notin required
           /\ "RequirePolicyHash" \in required => residue.PolicyHash
    /\ residue.Mode = "worker-bound" /\ "RequireExplicitWorkerBound" \in required =>
           residue.ExplicitWorkerBound

ValidateProofPolicy(tier, policy) ==
    IF tier \in {"replicated-quorum", "attested-quorum"}
    THEN policy.Quorum >= 2 /\ policy.MaxAttempts \notin 1 .. policy.Quorum - 1
                            /\ policy.MaxAttempts >= 0
    ELSE policy.Quorum <= 1 /\ policy.MaxAttempts <= 0
=============================================================================
