------------------------- MODULE MCManagedLifecycle -------------------------
(* Instances of ManagedLifecycle for TLC.                                  *)
EXTENDS ManagedLifecycle

Artifact(tx, worker, url, expires) ==
    [TransactionID |-> tx, WorkerID |-> worker, Component |-> "c1",
     Ref |-> url, Digest |-> url, ExpiresAt |-> expires, wellFormed |-> TRUE,
     Signature |-> NoSignature]

Request(tx, worker, action, config, secrets, expires) ==
    [TransactionID |-> tx, WorkerID |-> worker, Component |-> "c1",
     Action |-> action, ConfigRef |-> config, ConfigHash |-> config.Digest,
     SecretRefs |-> secrets, ExpiresAt |-> expires, zone |-> "local",
     wellFormed |-> TRUE]

(* Two actions of one transaction; the second has a secret that expires    *)
(* before the request.                                                     *)
SameTransactionDrafts ==
    { Request("t1", "w1", "activate", Artifact("t1", "w1", "/config", 4), <<>>, 3),
      Request("t1", "w1", "rollback", Artifact("t1", "w1", "/config", 4),
              <<Artifact("t1", "w1", "/secret", 2)>>, 3) }

(* Requests the host must not sign: a secret of another worker, a URL that *)
(* is named twice, a configuration without expiry; and one it may.         *)
BindingDrafts ==
    LET config == Artifact("t1", "w1", "/config", 3)
        with(secret) == Request("t1", "w1", "activate", config, <<secret>>, 3)
    IN  { with(Artifact("t1", "w1", "/secret", 2)),
          with(Artifact("t1", "w2", "/secret", 3)),
          with(Artifact("t1", "w1", "/config", 3)),
          Request("t1", "w1", "activate", [config EXCEPT !.ExpiresAt = 0], <<>>, 3),
          Request("t2", "w2", "prepare", Artifact("t2", "w2", "/config", 3), <<>>, 3) }

MCDrafts == SameTransactionDrafts \cup BindingDrafts
Succeeded == <<"succeeded", "not-required">>
BothOutcomes == {Succeeded, <<"failed", "succeeded">>}

(* The two sets of drafts are explored apart: the first with one worker,   *)
(* both outcomes and clocks up to 3, but no fetches; the second with two   *)
(* workers, which fetch what they are sent, one outcome and clocks up to 2.*)
Bodies(drafts) == UNION {{[d EXCEPT !.zone = z], [SignRefs(d) EXCEPT !.zone = z]} :
                            d \in drafts, z \in {"local", "utc"}}
SameTransactionBodies == Bodies(SameTransactionDrafts)
BindingBodies == Bodies(BindingDrafts)
InTransit == issued \cup {m.body : m \in requests}

OneScenario ==
    \/ /\ InTransit \subseteq SameTransactionBodies
       /\ fetched = {} /\ now["w2"] = 1
    \/ /\ InTransit \subseteq BindingBodies
       /\ \A p \in Parties : now[p] <= 2
       /\ \A p \in performed : p.outcome = Succeeded
       /\ \A m \in results : m.body.Outcome = Succeeded
=============================================================================
