-------------------------- MODULE ManagedLifecycle --------------------------
(***************************************************************************)
(* Managed provider lifecycle of protocol/managed_lifecycle.go: a host     *)
(* signs artifact references and a request, a worker verifies them, fetches*)
(* the artifacts, performs the action and signs a result, and the host     *)
(* verifies the result against the request it kept.                        *)
(*                                                                         *)
(* The library keeps no state: the host's store of requests, the worker's  *)
(* loop and the transport are external, modelled from what the library's   *)
(* signatures take and return.  Messages may be lost, delayed, repeated,   *)
(* altered or mixed up, and every party reads its own clock.               *)
(***************************************************************************)
EXTENDS RecoveryEnvelope, Sequences, FiniteSets

CONSTANTS
    Host,        \* the control plane; also its signing key
    Workers,     \* workers; each is also its own signing key
    Drafts,      \* the requests a host may try to sign
    Outcomes,    \* <<status, rollback result>> pairs a worker may report
    MaxRefs,     \* bound on the references of one request
    NoRequest,   \* no action in progress
    MaxTime,     \* bound on every clock
    MaxMessages, \* bound on the number of requests, and of results, in transit
    MaxFetches   \* bound on the number of fetches

VARIABLES
    now,         \* the clock of every party
    issued,      \* the requests the host signed and keeps
    requests,    \* requests in transit, never removed
    running,     \* the request each worker is performing, and since when
    fetched,     \* artifacts fetched: worker, reference and the worker's clock
    performed,   \* actions finished: worker, request, outcome, begin and end
    results,     \* results in transit, never removed
    accepted     \* results the host accepted: request, result and its clock

vars == <<now, issued, requests, running, fetched, performed, results, accepted>>

ASSUME LifecycleAssumption ==
    /\ Host \notin Workers /\ NoKey \notin Workers \cup {Host}
    /\ MaxTime \in Nat \ {0}
    /\ {MaxMessages, MaxFetches, MaxRefs} \subseteq Nat
    /\ \A d \in Drafts : Len(d.SecretRefs) < MaxRefs /\ d.WorkerID \in Workers

Parties == {Host} \cup Workers

-----------------------------------------------------------------------------
(* Artifact references.  Component stands for the plugin, the component,   *)
(* its version and its promoted digest; wellFormed for the syntax of the   *)
(* remaining identifiers, digests, the server-relative URL and max_bytes.  *)

ValidArtifact(a) == a.wellFormed /\ a.ExpiresAt # 0

ArtifactValidAt(a, t) == ValidArtifact(a) /\ Unexpired(a.ExpiresAt, t)

ArtifactSigningBytes(a) ==
    recoverySigningJSON("managed-lifecycle-artifact.v1",
                        [a EXCEPT !.Signature = NoSignature])

SignArtifact(a, key) ==
    [a EXCEPT !.Signature = signRecoveryBytes(ArtifactSigningBytes(a), key)]

VerifyArtifact(a, public, t) ==
    /\ ArtifactValidAt(a, t)
    /\ verifyRecoveryBytes(ArtifactSigningBytes(a), a.Signature, public)

-----------------------------------------------------------------------------
(* Requests.  The request's times share one location, zone: the instant is *)
(* the same in every zone, its JSON is not.                                *)

LifecycleActions == {"prepare", "activate", "deactivate", "rollback", "status"}

Refs(q) == <<q.ConfigRef>> \o q.SecretRefs

BoundTo(a, q) ==
    /\ a.TransactionID = q.TransactionID
    /\ a.WorkerID = q.WorkerID
    /\ a.Component = q.Component

(* A slip: only the configuration is checked against the request.          *)
ValidRequest_ConfigOnly(q) ==
    /\ q.wellFormed
    /\ q.Action \in LifecycleActions
    /\ q.ConfigHash = q.ConfigRef.Digest
    /\ \A i \in DOMAIN Refs(q) : ValidArtifact(Refs(q)[i])
    /\ BoundTo(q.ConfigRef, q)
    /\ q.ExpiresAt # 0

ValidRequest(q) ==
    /\ q.wellFormed
    /\ q.Action \in LifecycleActions
    /\ q.ConfigHash = q.ConfigRef.Digest
    /\ \A i \in DOMAIN Refs(q) : ValidArtifact(Refs(q)[i]) /\ BoundTo(Refs(q)[i], q)
    /\ \A i, j \in DOMAIN Refs(q) : i # j => Refs(q)[i].Ref # Refs(q)[j].Ref
    /\ q.ExpiresAt # 0

RequestValidAt(q, t) ==
    /\ ValidRequest(q)
    /\ Unexpired(q.ExpiresAt, t)
    /\ \A i \in DOMAIN Refs(q) : ArtifactValidAt(Refs(q)[i], t)

(* A slip: the times are encoded in whatever location they carry.          *)
RequestSigningBytes_KeepsZone(q) ==
    recoverySigningJSON("managed-provider-lifecycle-request.v1", q)

(* The request without its signature, its times in UTC.                    *)
RequestSigningBytes(q) ==
    recoverySigningJSON("managed-provider-lifecycle-request.v1",
                        [q EXCEPT !.zone = "utc"])

(* The SHA-256 of the signing bytes, symbolic.                             *)
BindingHash(q) == RequestSigningBytes(q)

VerifyRequest(m, public, t) ==
    /\ RequestValidAt(m.body, t)
    /\ verifyRecoveryBytes(RequestSigningBytes(m.body), m.Signature, public)

-----------------------------------------------------------------------------
(* Results.                                                                *)

ResultStatuses == {"succeeded", "failed"}
RollbackResults == {"not-required", "succeeded", "failed"}

ResultFor(q, outcome, completed) ==
    [TransactionID |-> q.TransactionID, WorkerID |-> q.WorkerID,
     Component |-> q.Component, Action |-> q.Action,
     RequestHash |-> BindingHash(q), Outcome |-> outcome,
     CompletedAt |-> completed, ExpiresAt |-> q.ExpiresAt]

ValidResult(r) ==
    /\ r.Action \in LifecycleActions
    /\ r.Outcome \in ResultStatuses \X RollbackResults
    /\ r.CompletedAt # 0 /\ r.ExpiresAt # 0 /\ r.CompletedAt < r.ExpiresAt

ResultValidAt(r, t) ==
    /\ ValidResult(r)
    /\ Unexpired(r.ExpiresAt, t)
    /\ r.CompletedAt <= t

ResultSigningBytes(r) ==
    recoverySigningJSON("managed-provider-lifecycle-result.v1", r)

(* A slip: only the transaction is compared with the request.              *)
MatchesRequest_TransactionOnly(r, q) == r.TransactionID = q.TransactionID

MatchesRequest(r, q) ==
    /\ r.RequestHash = BindingHash(q)
    /\ r.TransactionID = q.TransactionID
    /\ r.WorkerID = q.WorkerID
    /\ r.Component = q.Component
    /\ r.Action = q.Action
    /\ r.ExpiresAt = q.ExpiresAt

VerifyResult(m, public, q, t) ==
    /\ ResultValidAt(m.body, t)
    /\ RequestValidAt(q, t)
    /\ MatchesRequest(m.body, q)
    /\ verifyRecoveryBytes(ResultSigningBytes(m.body), m.Signature, public)

-----------------------------------------------------------------------------
Init ==
    /\ now = [p \in Parties |-> 1]
    /\ issued = {} /\ requests = {}
    /\ running = [w \in Workers |-> NoRequest]
    /\ fetched = {} /\ performed = {}
    /\ results = {} /\ accepted = {}

SendRequest(m) ==
    /\ m \in requests \/ Cardinality(requests) < MaxMessages
    /\ requests' = requests \cup {m}

SendResult(m) ==
    /\ m \in results \/ Cardinality(results) < MaxMessages
    /\ results' = results \cup {m}

SignRefs(d) ==
    [d EXCEPT !.ConfigRef = SignArtifact(@, Host),
              !.SecretRefs = [i \in DOMAIN @ |-> SignArtifact(@[i], Host)]]

(* The host signs the references and then the request that carries them;   *)
(* both Sign methods validate, neither looks at a clock.                   *)
IssueRequest(d) ==
    LET q == SignRefs(d)
    IN  /\ ValidRequest(q)
        /\ issued' = issued \cup {q}
        /\ SendRequest([body |-> q,
                        Signature |-> signRecoveryBytes(RequestSigningBytes(q), Host)])
        /\ UNCHANGED <<now, running, fetched, performed, results, accepted>>

(* A relay decodes the request and encodes its times in another location.  *)
RezoneRequest(m, zone) ==
    /\ SendRequest([m EXCEPT !.body.zone = zone])
    /\ UNCHANGED <<now, issued, running, fetched, performed, results, accepted>>

(* The body of a request is damaged, or replaced by another one.           *)
AlterRequest(m, q) ==
    /\ SendRequest([m EXCEPT !.body = q])
    /\ UNCHANGED <<now, issued, running, fetched, performed, results, accepted>>

(* A worker takes up a request addressed to it that verifies.              *)
Begin(w, m) ==
    /\ running[w] = NoRequest
    /\ m.body.WorkerID = w
    /\ VerifyRequest(m, Host, now[w])
    /\ running' = [running EXCEPT ![w] = [request |-> m.body, since |-> now[w]]]
    /\ UNCHANGED <<now, issued, requests, fetched, performed, results, accepted>>

(* It verifies a reference of the request just before it fetches it.       *)
Fetch(w, i) ==
    /\ Cardinality(fetched) < MaxFetches
    /\ running[w] # NoRequest
    /\ i \in DOMAIN Refs(running[w].request)
    /\ LET a == Refs(running[w].request)[i]
       IN  /\ VerifyArtifact(a, Host, now[w])
           /\ fetched' = fetched \cup {[worker |-> w, ref |-> a, at |-> now[w]]}
    /\ UNCHANGED <<now, issued, requests, running, performed, results, accepted>>

(* A slip: the error of Sign is dropped and the result sent unsigned.      *)
Finish_SendsUnsigned(w, outcome) ==
    /\ running[w] # NoRequest
    /\ running' = [running EXCEPT ![w] = NoRequest]
    /\ LET q == running[w].request
           r == ResultFor(q, outcome, now[w])
       IN  /\ performed' = performed \cup
                {[worker |-> w, request |-> q, outcome |-> outcome,
                  began |-> running[w].since, completed |-> now[w]]}
           /\ SendResult([body |-> r, Signature |->
                   IF ValidResult(r)
                   THEN signRecoveryBytes(ResultSigningBytes(r), w)
                   ELSE NoSignature])
    /\ UNCHANGED <<now, issued, requests, fetched, accepted>>

(* The action ends.  Signing refuses a result completed at or after the    *)
(* expiry: the action was performed, but nothing can be reported.          *)
Finish(w, outcome) ==
    /\ running[w] # NoRequest
    /\ running' = [running EXCEPT ![w] = NoRequest]
    /\ LET q == running[w].request
           r == ResultFor(q, outcome, now[w])
       IN  /\ performed' = performed \cup
                {[worker |-> w, request |-> q, outcome |-> outcome,
                  began |-> running[w].since, completed |-> now[w]]}
           /\ IF ValidResult(r)
              THEN SendResult([body |-> r, Signature |->
                                  signRecoveryBytes(ResultSigningBytes(r), w)])
              ELSE UNCHANGED results
    /\ UNCHANGED <<now, issued, requests, fetched, accepted>>

(* The body of a result is replaced by one for another request or outcome. *)
AlterResult(m, q, outcome) ==
    /\ SendResult([m EXCEPT !.body = ResultFor(q, outcome, m.body.CompletedAt)])
    /\ UNCHANGED <<now, issued, requests, running, fetched, performed, accepted>>

(* The host verifies a result against a request it kept, with the public   *)
(* key of the worker it sent the request to.                               *)
Accept(m, q) ==
    /\ VerifyResult(m, q.WorkerID, q, now[Host])
    /\ accepted' = accepted \cup {[request |-> q, result |-> m.body,
                                   at |-> now[Host]]}
    /\ UNCHANGED <<now, issued, requests, running, fetched, performed, results>>

Tick(p) ==
    /\ now[p] < MaxTime
    /\ now' = [now EXCEPT ![p] = @ + 1]
    /\ UNCHANGED <<issued, requests, running, fetched, performed, results, accepted>>

Next ==
    \/ \E d \in Drafts : IssueRequest(d)
    \/ \E m \in requests, zone \in {"utc", "local"} : RezoneRequest(m, zone)
    \/ \E m \in requests, q \in issued \cup Drafts : AlterRequest(m, q)
    \/ \E w \in Workers, m \in requests : Begin(w, m)
    \/ \E w \in Workers, i \in 1 .. MaxRefs : Fetch(w, i)
    \/ \E w \in Workers, outcome \in Outcomes : Finish(w, outcome)
    \/ \E m \in results, q \in issued, outcome \in Outcomes : AlterResult(m, q, outcome)
    \/ \E m \in results, q \in issued : Accept(m, q)
    \/ \E p \in Parties : Tick(p)

Spec == Init /\ [][Next]_vars

-----------------------------------------------------------------------------
(* Properties.                                                             *)

(* Type invariant: the clocks stay in their bound, a worker performs       *)
(* nothing or a request since an instant its clock has reached, and every  *)
(* message is a body with the signature of one of the parties.             *)
TypeOK ==
    /\ now \in [Parties -> 1 .. MaxTime]
    /\ \A w \in Workers : \/ running[w] = NoRequest
                          \/ running[w].since \in 1 .. now[w]
    /\ \A m \in requests \cup results : m.Signature.KeyID \in Parties
    /\ \A p \in performed : p.worker \in Workers /\ p.outcome \in Outcomes
    /\ \A a \in accepted : a.request \in issued

(* The library keeps the promise of LifecycleContract: however messages are*)
(* lost, repeated, altered or mixed up, a worker performs only what the    *)
(* host signed, and the host accepts only outcomes a worker reported for   *)
(* that very request (Request.Verify, BindingHash, Result.Verify).         *)
Contract == INSTANCE LifecycleContract WITH
    Requests  <- {BindingHash(SignRefs(d)) : d \in Drafts},
    issued    <- {BindingHash(q) : q \in issued},
    performed <- {<<BindingHash(p.request), p.outcome>> : p \in performed},
    reported  <- {<<BindingHash(a.request), a.result.Outcome>> : a \in accepted}

ContractSpec == Contract!Spec

Deadlines(q) == {q.ExpiresAt} \cup {Refs(q)[i].ExpiresAt : i \in DOMAIN Refs(q)}

(* A result the host accepted belongs to an action that the worker it was  *)
(* sent to began and completed, in that order and by its own clock, before *)
(* the request and every artifact of it expired; and the host's clock,     *)
(* however far apart, had passed the completion and no expiry either.      *)
AcceptedRanInTime ==
    \A a \in accepted : \E p \in performed :
        /\ p.worker = a.request.WorkerID
        /\ p.outcome = a.result.Outcome
        /\ p.began <= p.completed /\ p.completed = a.result.CompletedAt
        /\ p.completed <= a.at
        /\ p.completed < a.request.ExpiresAt
        /\ \A t \in Deadlines(a.request) : p.began < t /\ a.at < t

(* A worker only fetches material the host signed into a request for that  *)
(* worker, transaction and component, and only while the reference is      *)
(* alive (Request.validate compares every reference with the request).     *)
FetchedIsOwn ==
    \A f \in fetched : \E q \in issued :
        /\ \E i \in DOMAIN Refs(q) : Refs(q)[i] = f.ref
        /\ f.worker = q.WorkerID
        /\ BoundTo(f.ref, q)
        /\ f.at < f.ref.ExpiresAt

InUTC(q) == [q EXCEPT !.zone = "utc"]

(* A message is refused for its age and nothing else: a request that still *)
(* says what the host signed verifies at its worker, and the result of an  *)
(* action a worker performed for it verifies against the copy the host     *)
(* kept, in whatever location either side writes its times, until something*)
(* expires or while the completion is ahead of the host's clock.           *)
HonestMessagesVerify ==
    \A q \in issued :
        /\ \A m \in requests :
              /\ InUTC(m.body) = InUTC(q)
              /\ m.Signature = signRecoveryBytes(RequestSigningBytes(q), Host)
              /\ \A t \in Deadlines(q) : now[q.WorkerID] < t
              => VerifyRequest(m, Host, now[q.WorkerID])
        /\ \A m \in results, p \in performed :
              /\ InUTC(p.request) = InUTC(q)
              /\ m.body = ResultFor(p.request, p.outcome, p.completed)
              /\ m.Signature = signRecoveryBytes(ResultSigningBytes(m.body), p.worker)
              /\ p.completed <= now[Host]
              /\ \A t \in Deadlines(q) : now[Host] < t
              => VerifyResult(m, q.WorkerID, q, now[Host])

=============================================================================
