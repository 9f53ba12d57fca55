----------------------- MODULE ManagedLifecycleProofs -----------------------
(***************************************************************************)
(* ManagedLifecycle keeps the promise of LifecycleContract and its         *)
(* deadlines, and refuses no honest message, for every set of workers,     *)
(* drafts and outcomes and every bound.                                    *)
(***************************************************************************)
EXTENDS ManagedLifecycle, TLAPS

(* The inductive invariant.  Altering, rezoning and mixing up messages copy*)
(* signatures and never make one, so every request signature is one the    *)
(* host computed over an issued request, and every result signature one a  *)
(* worker computed over an action it performed; what a worker is performing*)
(* was therefore issued.                                                   *)
IssuedFromDrafts == issued \subseteq {SignRefs(d) : d \in Drafts}

RequestSignaturesIssued ==
    \A m \in requests : \E q \in issued :
        m.Signature.Value = RequestSigningBytes(q)

RunningIssued ==
    /\ running = [w \in Workers |-> running[w]]
    /\ \A w \in Workers :
          running[w] # NoRequest
          => \E q \in issued : BindingHash(running[w].request) = BindingHash(q)

ResultSignaturesPerformed ==
    \A m \in results : \E p \in performed :
        m.Signature.Value =
            ResultSigningBytes(ResultFor(p.request, p.outcome, p.completed))

PerformedOutcomes == \A p \in performed : p.outcome \in Outcomes

IInv == /\ IssuedFromDrafts
        /\ RequestSignaturesIssued
        /\ RunningIssued
        /\ ResultSignaturesPerformed
        /\ PerformedOutcomes

(* Equal signing bytes are bytes of equal results.                         *)
LEMMA ResultBytesInjective ==
    ASSUME NEW r, NEW s, ResultSigningBytes(r) = ResultSigningBytes(s)
    PROVE  r = s
BY DEF ResultSigningBytes, recoverySigningJSON

(* A step that leaves the signatures in transit alone and only adds to     *)
(* what was issued and performed keeps the first two parts about messages. *)
LEMMA CopiesKeepSignatures ==
    ASSUME IInv, issued \subseteq issued', performed \subseteq performed',
           \A m \in requests' : \E n \in requests : m.Signature = n.Signature,
           \A m \in results' : \E n \in results : m.Signature = n.Signature
    PROVE  RequestSignaturesIssued' /\ ResultSignaturesPerformed'
<1>1. RequestSignaturesIssued'
  BY DEF IInv, RequestSignaturesIssued
<1>2. ResultSignaturesPerformed'
  BY DEF IInv, ResultSignaturesPerformed
<1> QED
  BY <1>1, <1>2

(* The host's step: a request is issued and sent with its signature.       *)
LEMMA IssueKeepsIInv ==
    ASSUME IInv, NEW d \in Drafts, IssueRequest(d)
    PROVE  IInv'
<1> DEFINE q == SignRefs(d)
<1>1. /\ issued' = issued \cup {q}
      /\ requests' = requests \cup
            {[body |-> q,
              Signature |-> signRecoveryBytes(RequestSigningBytes(q), Host)]}
      /\ UNCHANGED <<running, performed, results>>
  BY DEF IssueRequest, SendRequest
<1>2. signRecoveryBytes(RequestSigningBytes(q), Host).Value = RequestSigningBytes(q)
  BY LifecycleAssumption DEF signRecoveryBytes
<1>3. IssuedFromDrafts'
  BY <1>1 DEF IInv, IssuedFromDrafts
<1>4. RequestSignaturesIssued'
  BY <1>1, <1>2 DEF IInv, RequestSignaturesIssued
<1>5. RunningIssued'
  BY <1>1 DEF IInv, RunningIssued
<1>6. ResultSignaturesPerformed' /\ PerformedOutcomes'
  BY <1>1 DEF IInv, ResultSignaturesPerformed, PerformedOutcomes
<1> QED
  BY <1>3, <1>4, <1>5, <1>6 DEF IInv

(* A worker that takes up a request takes up an issued one.                *)
LEMMA BeginKeepsIInv ==
    ASSUME IInv, NEW w \in Workers, NEW m \in requests, Begin(w, m)
    PROVE  IInv'
<1>1. /\ running' = [running EXCEPT ![w] = [request |-> m.body, since |-> now[w]]]
      /\ UNCHANGED <<issued, requests, performed, results>>
      /\ m.Signature.Value = RequestSigningBytes(m.body)
  BY DEF Begin, VerifyRequest, verifyRecoveryBytes
<1>2. \E q \in issued : BindingHash(m.body) = BindingHash(q)
  BY <1>1 DEF IInv, RequestSignaturesIssued, BindingHash
<1>3. RunningIssued'
  BY <1>1, <1>2 DEF IInv, RunningIssued
<1> QED
  BY <1>1, <1>3 DEF IInv, IssuedFromDrafts, RequestSignaturesIssued,
                    ResultSignaturesPerformed, PerformedOutcomes

(* A worker signs what it performed, or nothing.                           *)
LEMMA FinishKeepsIInv ==
    ASSUME IInv, NEW w \in Workers, NEW outcome \in Outcomes, Finish(w, outcome)
    PROVE  IInv'
<1> DEFINE p == [worker |-> w, request |-> running[w].request,
                 outcome |-> outcome, began |-> running[w].since,
                 completed |-> now[w]]
           r == ResultFor(running[w].request, outcome, now[w])
           m == [body |-> r,
                 Signature |-> signRecoveryBytes(ResultSigningBytes(r), w)]
<1>1. /\ running' = [running EXCEPT ![w] = NoRequest]
      /\ performed' = performed \cup {p}
      /\ results' = results \/ results' = results \cup {m}
      /\ UNCHANGED <<issued, requests>>
  BY DEF Finish, SendResult
<1>2. m.Signature.Value = ResultSigningBytes(ResultFor(p.request, p.outcome, p.completed))
  BY LifecycleAssumption DEF signRecoveryBytes
<1>3. RunningIssued'
  BY <1>1 DEF IInv, RunningIssued
<1>4. ResultSignaturesPerformed'
  <2>1. SUFFICES ASSUME NEW n \in results'
                 PROVE  \E x \in performed' : n.Signature.Value =
                          ResultSigningBytes(ResultFor(x.request, x.outcome, x.completed))
    BY DEF ResultSignaturesPerformed
  <2>2. CASE n \in results
    BY <1>1, <2>2 DEF IInv, ResultSignaturesPerformed
  <2>3. CASE n = m
    BY <1>1, <1>2, <2>3
  <2> QED
    BY <1>1, <2>2, <2>3
<1>5. PerformedOutcomes'
  BY <1>1 DEF IInv, PerformedOutcomes
<1> QED
  BY <1>1, <1>3, <1>4, <1>5 DEF IInv, IssuedFromDrafts, RequestSignaturesIssued

(* The invariant holds in every reachable state.                           *)
THEOREM IInvHolds == Spec => []IInv
<1>1. Init => IInv
  BY DEF Init, IInv, IssuedFromDrafts, RequestSignaturesIssued, RunningIssued,
         ResultSignaturesPerformed, PerformedOutcomes
<1>2. IInv /\ [Next]_vars => IInv'
  <2> SUFFICES ASSUME IInv, [Next]_vars
               PROVE  IInv'
    OBVIOUS
  <2>1. ASSUME UNCHANGED <<issued, running, performed>>,
               \A m \in requests' : \E n \in requests : m.Signature = n.Signature,
               \A m \in results' : \E n \in results : m.Signature = n.Signature
        PROVE  IInv'
    <3>1. RequestSignaturesIssued' /\ ResultSignaturesPerformed'
      BY <2>1, CopiesKeepSignatures
    <3> QED
      BY <2>1, <3>1 DEF IInv, IssuedFromDrafts, RunningIssued, PerformedOutcomes
  <2>2. ASSUME NEW m \in requests, NEW zone \in {"utc", "local"},
               RezoneRequest(m, zone)
        PROVE  IInv'
    <3>1. [m EXCEPT !.body.zone = zone].Signature = m.Signature
      OBVIOUS
    <3> QED
      BY <2>1, <2>2, <3>1 DEF RezoneRequest, SendRequest
  <2>3. ASSUME NEW m \in requests, NEW q \in issued \cup Drafts,
               AlterRequest(m, q)
        PROVE  IInv'
    <3>1. [m EXCEPT !.body = q].Signature = m.Signature
      OBVIOUS
    <3> QED
      BY <2>1, <2>3, <3>1 DEF AlterRequest, SendRequest
  <2>4. ASSUME NEW m \in results, NEW q \in issued, NEW outcome \in Outcomes,
               AlterResult(m, q, outcome)
        PROVE  IInv'
    <3>1. [m EXCEPT !.body = ResultFor(q, outcome, m.body.CompletedAt)].Signature
          = m.Signature
      OBVIOUS
    <3> QED
      BY <2>1, <2>4, <3>1 DEF AlterResult, SendResult
  <2>5. CASE UNCHANGED <<issued, requests, running, performed, results>>
    BY <2>1, <2>5
  <2> QED
    BY <2>2, <2>3, <2>4, <2>5, IssueKeepsIInv, BeginKeepsIInv, FinishKeepsIInv
    DEF Next, Fetch, Accept, Tick, vars
<1> QED
  BY <1>1, <1>2, PTL DEF Spec

-----------------------------------------------------------------------------
(* The refinement: ManagedLifecycle implements LifecycleContract.  Signing *)
(* a request is Issue, finishing an action Perform, accepting a result     *)
(* Report; every other step leaves the contract's state alone.             *)

(* What the host issues is a request of the contract.                      *)
LEMMA IssueRefines ==
    ASSUME NEW d \in Drafts, IssueRequest(d)
    PROVE  Contract!Next
<1> DEFINE q == SignRefs(d)
<1>1. issued' = issued \cup {q} /\ UNCHANGED <<performed, accepted>>
  BY DEF IssueRequest
<1>2. Contract!Issue(BindingHash(q))
  <2>1. {BindingHash(x) : x \in issued}'
        = {BindingHash(x) : x \in issued} \cup {BindingHash(q)}
    BY <1>1
  <2> QED
    BY <1>1, <2>1 DEF Contract!Issue
<1> QED
  BY <1>2 DEF Contract!Next

(* What a worker finishes was issued.                                      *)
LEMMA FinishRefines ==
    ASSUME IInv, NEW w \in Workers, NEW outcome \in Outcomes, Finish(w, outcome)
    PROVE  Contract!Next
<1> DEFINE h == BindingHash(running[w].request)
           p == [worker |-> w, request |-> running[w].request,
                 outcome |-> outcome, began |-> running[w].since,
                 completed |-> now[w]]
<1>1. /\ performed' = performed \cup {p}
      /\ UNCHANGED <<issued, accepted>>
      /\ running[w] # NoRequest
  BY DEF Finish
<1>2. PICK q \in issued : h = BindingHash(q)
  BY <1>1 DEF IInv, RunningIssued
<1>3. h \in {BindingHash(SignRefs(d)) : d \in Drafts}
  BY <1>2 DEF IInv, IssuedFromDrafts
<1>4. {<<BindingHash(x.request), x.outcome>> : x \in performed}'
      = {<<BindingHash(x.request), x.outcome>> : x \in performed}
        \cup {<<h, outcome>>}
  <2>1. <<BindingHash(p.request), p.outcome>> = <<h, outcome>>
    OBVIOUS
  <2> HIDE DEF p, h
  <2> QED
    BY <1>1, <2>1
<1>5. Contract!Perform(h, outcome)
  BY <1>1, <1>2, <1>4 DEF Contract!Perform
<1> QED
  BY <1>3, <1>5 DEF Contract!Next

(* What the host accepts was performed, with that outcome, for that        *)
(* request: the signature ties the outcome to the request hash.            *)
LEMMA AcceptRefines ==
    ASSUME IInv, NEW m \in results, NEW q \in issued, Accept(m, q)
    PROVE  Contract!Next
<1> DEFINE a == [request |-> q, result |-> m.body, at |-> now[Host]]
           pair == <<BindingHash(q), m.body.Outcome>>
<1>1. /\ accepted' = accepted \cup {a}
      /\ UNCHANGED <<issued, performed>>
      /\ m.body.RequestHash = BindingHash(q)
      /\ m.Signature.Value = ResultSigningBytes(m.body)
  BY DEF Accept, VerifyResult, MatchesRequest, verifyRecoveryBytes
<1>2. PICK p \in performed :
          m.Signature.Value
          = ResultSigningBytes(ResultFor(p.request, p.outcome, p.completed))
  BY DEF IInv, ResultSignaturesPerformed
<1>3. m.body = ResultFor(p.request, p.outcome, p.completed)
  BY <1>1, <1>2, ResultBytesInjective
<1>4. pair = <<BindingHash(p.request), p.outcome>>
  BY <1>1, <1>3 DEF ResultFor
<1>5. m.body.Outcome \in Outcomes
  BY <1>3 DEF ResultFor, IInv, PerformedOutcomes
<1>6. BindingHash(q) \in {BindingHash(SignRefs(d)) : d \in Drafts}
  BY DEF IInv, IssuedFromDrafts
<1>7. {<<BindingHash(x.request), x.result.Outcome>> : x \in accepted}'
      = {<<BindingHash(x.request), x.result.Outcome>> : x \in accepted}
        \cup {pair}
  <2>1. <<BindingHash(a.request), a.result.Outcome>> = pair
    OBVIOUS
  <2> HIDE DEF a, pair
  <2> QED
    BY <1>1, <2>1
<1>8. Contract!Report(BindingHash(q), m.body.Outcome)
  BY <1>1, <1>4, <1>7 DEF Contract!Report
<1> QED
  BY <1>5, <1>6, <1>8 DEF Contract!Next

(* However messages are lost, delayed, repeated, altered or mixed up, and  *)
(* whatever the clocks read, a worker performs only what the host signed,  *)
(* and the host accepts only outcomes of actions performed for that very   *)
(* request.                                                                *)
THEOREM LifecycleRefinesContract == Spec => ContractSpec
<1>1. Init => Contract!Init
  BY DEF Init, Contract!Init
<1>2. IInv /\ [Next]_vars => [Contract!Next]_(Contract!vars)
  <2> SUFFICES ASSUME IInv, [Next]_vars
               PROVE  [Contract!Next]_(Contract!vars)
    OBVIOUS
  <2>1. ASSUME UNCHANGED <<issued, performed, accepted>>
        PROVE  UNCHANGED Contract!vars
    BY <2>1 DEF Contract!vars
  <2> QED
    BY <2>1, IssueRefines, FinishRefines, AcceptRefines
    DEF Next, vars, RezoneRequest, AlterRequest, Begin, Fetch, AlterResult, Tick
<1> QED
  BY <1>1, <1>2, IInvHolds, PTL DEF Spec, ContractSpec, Contract!Spec

-----------------------------------------------------------------------------
(* Types and clocks.                                                       *)

(* Both kinds of signatures name the party that computed them.             *)
LEMMA SignerIsKey ==
    ASSUME NEW data, NEW key \in Parties
    PROVE  signRecoveryBytes(data, key) = [KeyID |-> key, Value |-> data]
BY LifecycleAssumption DEF signRecoveryBytes, Parties

(* The state has its type in every reachable state: the clocks stay in     *)
(* their bound, an action begins at an instant its worker's clock has      *)
(* reached, and every message is signed by a party.                        *)
THEOREM TypeCorrect == Spec => []TypeOK
<1>1. Init => TypeOK
  BY LifecycleAssumption DEF Init, TypeOK, Parties
<1>2. TypeOK /\ [Next]_vars => TypeOK'
  <2> SUFFICES ASSUME TypeOK, [Next]_vars
               PROVE  TypeOK'
    OBVIOUS
  <2> USE LifecycleAssumption
  <2>1. ASSUME UNCHANGED <<now, running, performed, accepted>>,
               issued \subseteq issued',
               \A m \in (requests \cup results)' :
                  m.Signature.KeyID \in Parties
        PROVE  TypeOK'
    BY <2>1 DEF TypeOK
  <2>2. ASSUME NEW d \in Drafts, IssueRequest(d)
        PROVE  TypeOK'
    <3>1. Host \in Parties
      BY DEF Parties
    <3> QED
      BY <2>1, <2>2, <3>1, SignerIsKey
      DEF IssueRequest, SendRequest, TypeOK
  <2>3. ASSUME NEW m \in requests, NEW zone \in {"utc", "local"},
               RezoneRequest(m, zone)
        PROVE  TypeOK'
    <3>1. [m EXCEPT !.body.zone = zone].Signature = m.Signature
      OBVIOUS
    <3> QED
      BY <2>1, <2>3, <3>1 DEF RezoneRequest, SendRequest, TypeOK
  <2>4. ASSUME NEW m \in requests, NEW q \in issued \cup Drafts,
               AlterRequest(m, q)
        PROVE  TypeOK'
    <3>1. [m EXCEPT !.body = q].Signature = m.Signature
      OBVIOUS
    <3> QED
      BY <2>1, <2>4, <3>1 DEF AlterRequest, SendRequest, TypeOK
  <2>5. ASSUME NEW w \in Workers, NEW m \in requests, Begin(w, m)
        PROVE  TypeOK'
    <3>1. now[w] \in 1 .. now[w]
      BY DEF TypeOK, Parties
    <3> QED
      BY <2>5, <3>1 DEF Begin, TypeOK
  <2>6. ASSUME NEW w \in Workers, NEW i \in 1 .. MaxRefs, Fetch(w, i)
        PROVE  TypeOK'
    BY <2>6 DEF Fetch, TypeOK
  <2>7. ASSUME NEW w \in Workers, NEW outcome \in Outcomes, Finish(w, outcome)
        PROVE  TypeOK'
    <3>1. w \in Parties
      BY DEF Parties
    <3>2. \A m \in results' : m.Signature.KeyID \in Parties
      BY <2>7, <3>1, SignerIsKey DEF Finish, SendResult, TypeOK
    <3>3. \A p \in performed' : p.worker \in Workers /\ p.outcome \in Outcomes
      BY <2>7 DEF Finish, TypeOK
    <3> QED
      BY <2>7, <3>2, <3>3 DEF Finish, TypeOK
  <2>8. ASSUME NEW m \in results, NEW q \in issued, NEW outcome \in Outcomes,
               AlterResult(m, q, outcome)
        PROVE  TypeOK'
    <3>1. [m EXCEPT !.body = ResultFor(q, outcome, m.body.CompletedAt)].Signature
          = m.Signature
      OBVIOUS
    <3> QED
      BY <2>1, <2>8, <3>1 DEF AlterResult, SendResult, TypeOK
  <2>9. ASSUME NEW m \in results, NEW q \in issued, Accept(m, q)
        PROVE  TypeOK'
    BY <2>9 DEF Accept, TypeOK
  <2>10. ASSUME NEW p \in Parties, Tick(p)
         PROVE  TypeOK'
    <3>1. now' \in [Parties -> 1 .. MaxTime]
      BY <2>10 DEF Tick, TypeOK
    <3>2. \A w \in Workers : now[w] <= now'[w]
      BY <2>10 DEF Tick, TypeOK, Parties
    <3>3. \A w \in Workers : \/ running[w] = NoRequest
                             \/ running[w].since \in 1 .. now'[w]
      BY <3>1, <3>2 DEF TypeOK, Parties
    <3> QED
      BY <2>10, <3>1, <3>3 DEF Tick, TypeOK
  <2>11. CASE UNCHANGED vars
    BY <2>11 DEF vars, TypeOK
  <2> QED
    BY <2>2, <2>3, <2>4, <2>5, <2>6, <2>7, <2>8, <2>9, <2>10, <2>11 DEF Next
<1> QED
  BY <1>1, <1>2, PTL DEF Spec

-----------------------------------------------------------------------------
(* What happened in time.                                                  *)

(* The strengthening: the history records, for what runs and what ended,   *)
(* the worker the host named, a beginning before every deadline and an end *)
(* after it; and a result's signature is its worker's, over a result that  *)
(* could be signed.                                                        *)
OfIssued(q) == \E x \in issued : BindingHash(q) = BindingHash(x)

IssuedValid == \A q \in issued : ValidRequest(q)

RunningInTime ==
    \A w \in Workers : running[w] # NoRequest =>
        /\ OfIssued(running[w].request)
        /\ running[w].request.WorkerID = w
        /\ \A t \in Deadlines(running[w].request) : running[w].since < t

PerformedInTime ==
    \A p \in performed :
        /\ OfIssued(p.request)
        /\ p.request.WorkerID = p.worker
        /\ p.began <= p.completed
        /\ \A t \in Deadlines(p.request) : p.began < t

Reported(p) == ResultFor(p.request, p.outcome, p.completed)

ResultsReported ==
    \A m \in results : \E p \in performed :
        /\ m.Signature = signRecoveryBytes(ResultSigningBytes(Reported(p)), p.worker)
        /\ ValidResult(Reported(p))

HistoryInv == /\ IssuedValid
              /\ RunningInTime
              /\ PerformedInTime
              /\ ResultsReported

(* Requests that hash alike say the same: they have the same recipient and *)
(* deadlines, and one is valid when the other is.                          *)
LEMMA SameHashSameTerms ==
    ASSUME NEW p, NEW q, BindingHash(p) = BindingHash(q)
    PROVE  /\ p.TransactionID = q.TransactionID
           /\ p.WorkerID = q.WorkerID
           /\ p.Component = q.Component
           /\ p.Action = q.Action
           /\ p.ExpiresAt = q.ExpiresAt
           /\ Refs(p) = Refs(q)
           /\ Deadlines(p) = Deadlines(q)
           /\ ValidRequest(p) <=> ValidRequest(q)
<1>1. InUTC(p) = InUTC(q)
  BY DEF BindingHash, RequestSigningBytes, recoverySigningJSON, InUTC
<1>2. \A r : /\ InUTC(r).TransactionID = r.TransactionID
             /\ InUTC(r).WorkerID = r.WorkerID
             /\ InUTC(r).Component = r.Component
             /\ InUTC(r).Action = r.Action
             /\ InUTC(r).ExpiresAt = r.ExpiresAt
             /\ InUTC(r).ConfigRef = r.ConfigRef
             /\ InUTC(r).SecretRefs = r.SecretRefs
             /\ InUTC(r).ConfigHash = r.ConfigHash
             /\ InUTC(r).wellFormed = r.wellFormed
  BY DEF InUTC
<1>3. /\ p.TransactionID = q.TransactionID
      /\ p.WorkerID = q.WorkerID
      /\ p.Component = q.Component
      /\ p.Action = q.Action
      /\ p.ExpiresAt = q.ExpiresAt
      /\ p.ConfigRef = q.ConfigRef
      /\ p.SecretRefs = q.SecretRefs
      /\ p.ConfigHash = q.ConfigHash
      /\ p.wellFormed = q.wellFormed
  BY <1>1, <1>2
<1>4. Refs(p) = Refs(q)
  BY <1>3 DEF Refs
<1>5. Deadlines(p) = Deadlines(q)
  BY <1>3, <1>4 DEF Deadlines
<1>6. ValidRequest(p) <=> ValidRequest(q)
  BY <1>3, <1>4 DEF ValidRequest, BoundTo
<1> QED
  BY <1>3, <1>4, <1>5, <1>6

(* A request that is valid at an instant is before all of its deadlines.   *)
LEMMA ValidBeforeDeadlines ==
    ASSUME NEW q, NEW t, RequestValidAt(q, t)
    PROVE  \A e \in Deadlines(q) : t < e
BY DEF RequestValidAt, ArtifactValidAt, Unexpired, Deadlines

(* And one that is valid and before all of its deadlines is valid then.    *)
LEMMA BeforeDeadlinesValid ==
    ASSUME NEW q, NEW t, t # 0, ValidRequest(q), \A e \in Deadlines(q) : t < e
    PROVE  RequestValidAt(q, t)
<1>1. Unexpired(q.ExpiresAt, t)
  BY DEF Unexpired, Deadlines, ValidRequest
<1>2. ASSUME NEW i \in DOMAIN Refs(q)
      PROVE  ArtifactValidAt(Refs(q)[i], t)
  <2>1. ValidArtifact(Refs(q)[i])
    BY DEF ValidRequest
  <2>2. t < Refs(q)[i].ExpiresAt
    BY DEF Deadlines
  <2> QED
    BY <2>1, <2>2 DEF ArtifactValidAt, ValidArtifact, Unexpired
<1> QED
  BY <1>1, <1>2 DEF RequestValidAt

(* A step that moves no history and copies the results' signatures.        *)
LEMMA CopiesKeepHistory ==
    ASSUME HistoryInv, UNCHANGED <<running, performed>>,
           issued \subseteq issued', \A q \in issued' : ValidRequest(q),
           \A m \in results' : \E n \in results : m.Signature = n.Signature
    PROVE  HistoryInv'
<1>1. RunningInTime' /\ PerformedInTime'
  BY DEF HistoryInv, RunningInTime, PerformedInTime, OfIssued
<1>2. ResultsReported'
  BY DEF HistoryInv, ResultsReported
<1> QED
  BY <1>1, <1>2 DEF HistoryInv, IssuedValid

(* What a worker takes up was issued to it and has not expired.            *)
LEMMA BeginKeepsHistory ==
    ASSUME IInv, HistoryInv, NEW w \in Workers, NEW m \in requests, Begin(w, m)
    PROVE  HistoryInv'
<1> DEFINE run == [request |-> m.body, since |-> now[w]]
<1>1. /\ running' = [running EXCEPT ![w] = run]
      /\ UNCHANGED <<issued, performed, results>>
      /\ m.body.WorkerID = w
      /\ RequestValidAt(m.body, now[w])
      /\ m.Signature.Value = RequestSigningBytes(m.body)
  BY DEF Begin, VerifyRequest, verifyRecoveryBytes
<1>2. OfIssued(m.body)
  BY <1>1 DEF IInv, RequestSignaturesIssued, BindingHash, OfIssued
<1>3. \A t \in Deadlines(m.body) : now[w] < t
  BY <1>1, ValidBeforeDeadlines
<1>4. \A v \in Workers : running'[v] = IF v = w THEN run ELSE running[v]
  BY <1>1 DEF IInv, RunningIssued
<1>5. RunningInTime'
  <2> SUFFICES ASSUME NEW v \in Workers
               PROVE  (running[v] # NoRequest =>
                         /\ OfIssued(running[v].request)
                         /\ running[v].request.WorkerID = v
                         /\ \A t \in Deadlines(running[v].request) :
                               running[v].since < t)'
    BY DEF RunningInTime
  <2>1. CASE v = w
    BY <1>1, <1>2, <1>3, <1>4, <2>1 DEF OfIssued
  <2>2. CASE v # w
    BY <1>1, <1>4, <2>2 DEF HistoryInv, RunningInTime, OfIssued
  <2> QED
    BY <2>1, <2>2
<1> QED
  BY <1>1, <1>5 DEF HistoryInv, IssuedValid, PerformedInTime, ResultsReported, OfIssued

(* What a worker finishes it began in time, and reports under its own key. *)
LEMMA FinishKeepsHistory ==
    ASSUME TypeOK, IInv, HistoryInv,
           NEW w \in Workers, NEW outcome \in Outcomes, Finish(w, outcome)
    PROVE  HistoryInv'
<1> DEFINE p == [worker |-> w, request |-> running[w].request,
                 outcome |-> outcome, began |-> running[w].since,
                 completed |-> now[w]]
           r == ResultFor(running[w].request, outcome, now[w])
           m == [body |-> r,
                 Signature |-> signRecoveryBytes(ResultSigningBytes(r), w)]
<1>1. /\ running' = [running EXCEPT ![w] = NoRequest]
      /\ performed' = performed \cup {p}
      /\ results' = results \/ (ValidResult(r) /\ results' = results \cup {m})
      /\ UNCHANGED issued
      /\ running[w] # NoRequest
  BY DEF Finish, SendResult
<1>2. RunningInTime'
  BY <1>1 DEF IInv, RunningIssued, HistoryInv, RunningInTime, OfIssued
<1>3. p.began <= p.completed
  BY <1>1 DEF TypeOK, Parties
<1>4. /\ OfIssued(p.request)
      /\ p.request.WorkerID = p.worker
      /\ \A t \in Deadlines(p.request) : p.began < t
  BY <1>1 DEF HistoryInv, RunningInTime
<1>5. PerformedInTime'
  BY <1>1, <1>3, <1>4 DEF HistoryInv, PerformedInTime, OfIssued
<1>6. /\ Reported(p) = r
      /\ m.Signature = signRecoveryBytes(ResultSigningBytes(Reported(p)), p.worker)
  BY DEF Reported
<1> HIDE DEF p, r, m
<1>7. ResultsReported'
  <2> SUFFICES ASSUME NEW n \in results'
               PROVE  \E x \in performed' :
                         /\ n.Signature = signRecoveryBytes(
                               ResultSigningBytes(Reported(x)), x.worker)
                         /\ ValidResult(Reported(x))
    BY DEF ResultsReported
  <2>1. CASE n \in results
    BY <1>1, <2>1 DEF HistoryInv, ResultsReported
  <2>2. CASE n = m /\ ValidResult(r)
    BY <1>1, <1>6, <2>2
  <2> QED
    BY <1>1, <2>1, <2>2
<1> QED
  BY <1>1, <1>2, <1>5, <1>7 DEF HistoryInv, IssuedValid

(* The history holds in every reachable state.                             *)
THEOREM HistoryHolds == Spec => []HistoryInv
<1>1. Init => HistoryInv
  BY DEF Init, HistoryInv, IssuedValid, RunningInTime, PerformedInTime,
         ResultsReported
<1>2. TypeOK /\ IInv /\ HistoryInv /\ [Next]_vars => HistoryInv'
  <2> SUFFICES ASSUME TypeOK, IInv, HistoryInv, [Next]_vars
               PROVE  HistoryInv'
    OBVIOUS
  <2>1. ASSUME NEW d \in Drafts, IssueRequest(d)
        PROVE  HistoryInv'
    BY <2>1, CopiesKeepHistory DEF IssueRequest, HistoryInv, IssuedValid
  <2>2. ASSUME NEW m \in results, NEW q \in issued, NEW outcome \in Outcomes,
               AlterResult(m, q, outcome)
        PROVE  HistoryInv'
    <3>1. [m EXCEPT !.body = ResultFor(q, outcome, m.body.CompletedAt)].Signature
          = m.Signature
      OBVIOUS
    <3> QED
      BY <2>2, <3>1, CopiesKeepHistory
      DEF AlterResult, SendResult, HistoryInv, IssuedValid
  <2>3. CASE UNCHANGED <<issued, running, performed, results>>
    BY <2>3, CopiesKeepHistory DEF HistoryInv, IssuedValid
  <2> QED
    BY <2>1, <2>2, <2>3, BeginKeepsHistory, FinishKeepsHistory
    DEF Next, RezoneRequest, AlterRequest, Fetch, Accept, Tick, vars
<1> QED
  BY <1>1, <1>2, TypeCorrect, IInvHolds, PTL DEF Spec

-----------------------------------------------------------------------------
(* What the history implies.                                               *)

(* Equal signing bytes of what a worker reported and of a result.          *)
LEMMA SignedResult ==
    ASSUME NEW m, NEW p, p.worker \in Workers,
           m.Signature = signRecoveryBytes(ResultSigningBytes(Reported(p)), p.worker)
    PROVE  /\ m.Signature.KeyID = p.worker
           /\ m.Signature.Value = ResultSigningBytes(m.body) => m.body = Reported(p)
<1>1. m.Signature = [KeyID |-> p.worker, Value |-> ResultSigningBytes(Reported(p))]
  BY SignerIsKey DEF Parties
<1>2. /\ m.Signature.KeyID = p.worker
      /\ m.Signature.Value = ResultSigningBytes(Reported(p))
  BY <1>1
<1> QED
  BY <1>2, ResultBytesInjective

(* A result is accepted only for an action that its worker began and       *)
(* completed before the request and all of its artifacts expired, and by a *)
(* host whose clock is between the completion and every expiry: the hash   *)
(* carries the deadlines Begin checked over to the request the host kept,  *)
(* and the signature the instants of the one worker that performed it.     *)
THEOREM AcceptedInTime == Spec => []AcceptedRanInTime
<1> DEFINE RanInTime(a, P) ==
        \E p \in P :
            /\ p.worker = a.request.WorkerID
            /\ p.outcome = a.result.Outcome
            /\ p.began <= p.completed /\ p.completed = a.result.CompletedAt
            /\ p.completed <= a.at
            /\ p.completed < a.request.ExpiresAt
            /\ \A t \in Deadlines(a.request) : p.began < t /\ a.at < t
<1>1. Init => AcceptedRanInTime
  BY DEF Init, AcceptedRanInTime
<1>2. TypeOK /\ HistoryInv /\ AcceptedRanInTime /\ [Next]_vars => AcceptedRanInTime'
  <2> SUFFICES ASSUME TypeOK, HistoryInv, AcceptedRanInTime, [Next]_vars
               PROVE  AcceptedRanInTime'
    OBVIOUS
  <2>1. ASSUME NEW m \in results, NEW q \in issued, Accept(m, q)
        PROVE  AcceptedRanInTime'
    <3> DEFINE a == [request |-> q, result |-> m.body, at |-> now[Host]]
    <3>1. /\ accepted' = accepted \cup {a}
          /\ UNCHANGED performed
          /\ ResultValidAt(m.body, now[Host])
          /\ RequestValidAt(q, now[Host])
          /\ MatchesRequest(m.body, q)
          /\ m.Signature.KeyID = q.WorkerID
          /\ m.Signature.Value = ResultSigningBytes(m.body)
      BY <2>1 DEF Accept, VerifyResult, verifyRecoveryBytes
    <3>2. PICK p \in performed :
              m.Signature = signRecoveryBytes(ResultSigningBytes(Reported(p)), p.worker)
      BY DEF HistoryInv, ResultsReported
    <3>3. p.worker = q.WorkerID /\ m.body = Reported(p)
      BY <3>1, <3>2, SignedResult DEF TypeOK
    <3>4. /\ m.body.Outcome = p.outcome
          /\ m.body.CompletedAt = p.completed
          /\ BindingHash(p.request) = BindingHash(q)
      BY <3>1, <3>3 DEF Reported, ResultFor, MatchesRequest
    <3>5. p.completed <= now[Host] /\ p.completed < q.ExpiresAt
      BY <3>1, <3>4 DEF ResultValidAt, ValidResult, MatchesRequest
    <3>6. \A t \in Deadlines(q) : p.began < t /\ now[Host] < t
      BY <3>1, <3>4, SameHashSameTerms, ValidBeforeDeadlines
      DEF HistoryInv, PerformedInTime
    <3>7. RanInTime(a, performed)
      BY <3>3, <3>4, <3>5, <3>6 DEF HistoryInv, PerformedInTime
    <3> QED
      BY <3>1, <3>7 DEF AcceptedRanInTime
  <2>2. CASE UNCHANGED accepted /\ performed \subseteq performed'
    <3> SUFFICES ASSUME NEW a \in accepted
                 PROVE  RanInTime(a, performed')
      BY <2>2 DEF AcceptedRanInTime
    <3>1. RanInTime(a, performed)
      BY DEF AcceptedRanInTime
    <3> QED
      BY <2>2, <3>1
  <2> QED
    BY <2>1, <2>2 DEF Next, vars, IssueRequest, RezoneRequest, AlterRequest,
                      Begin, Fetch, Finish, AlterResult, Tick
<1> QED
  BY <1>1, <1>2, TypeCorrect, HistoryHolds, PTL DEF Spec

(* A worker fetches only what the host signed into a request for it, while *)
(* it is alive: what runs is an issued request, and the validity the host's*)
(* signing required binds every reference of it.                           *)
THEOREM FetchesOwn == Spec => []FetchedIsOwn
<1> DEFINE Own(f) ==
        \E q \in issued :
            /\ \E i \in DOMAIN Refs(q) : Refs(q)[i] = f.ref
            /\ f.worker = q.WorkerID
            /\ BoundTo(f.ref, q)
            /\ f.at < f.ref.ExpiresAt
<1>1. Init => FetchedIsOwn
  BY DEF Init, FetchedIsOwn
<1>2. HistoryInv /\ FetchedIsOwn /\ [Next]_vars => FetchedIsOwn'
  <2> SUFFICES ASSUME HistoryInv, FetchedIsOwn, [Next]_vars
               PROVE  FetchedIsOwn'
    OBVIOUS
  <2>1. ASSUME NEW w \in Workers, NEW i \in 1 .. MaxRefs, Fetch(w, i)
        PROVE  FetchedIsOwn'
    <3> DEFINE run == running[w].request
               f == [worker |-> w, ref |-> Refs(run)[i], at |-> now[w]]
    <3>1. /\ running[w] # NoRequest
          /\ i \in DOMAIN Refs(run)
          /\ VerifyArtifact(Refs(run)[i], Host, now[w])
          /\ fetched' = fetched \cup {f}
          /\ UNCHANGED issued
      BY <2>1 DEF Fetch
    <3>2. PICK q \in issued : BindingHash(run) = BindingHash(q)
      BY <3>1 DEF HistoryInv, RunningInTime, OfIssued
    <3>3. Refs(run) = Refs(q) /\ w = q.WorkerID
      BY <3>1, <3>2, SameHashSameTerms DEF HistoryInv, RunningInTime
    <3>4. BoundTo(Refs(q)[i], q)
      BY <3>1, <3>3 DEF HistoryInv, IssuedValid, ValidRequest
    <3>5. now[w] < Refs(q)[i].ExpiresAt
      BY <3>1, <3>3 DEF VerifyArtifact, ArtifactValidAt, Unexpired
    <3>6. Own(f)
      BY <3>1, <3>3, <3>4, <3>5
    <3> QED
      BY <3>1, <3>6 DEF FetchedIsOwn
  <2>2. CASE UNCHANGED fetched /\ issued \subseteq issued'
    BY <2>2 DEF FetchedIsOwn
  <2> QED
    BY <2>1, <2>2 DEF Next, vars, IssueRequest, RezoneRequest, AlterRequest,
                      Begin, Finish, AlterResult, Accept, Tick
<1> QED
  BY <1>1, <1>2, HistoryHolds, PTL DEF Spec

(* A message is refused for its age and nothing else, whichever location   *)
(* its times are written in: the signing bytes and the hash are those of   *)
(* the request in UTC, so every check of Verify is about what did not      *)
(* change on the way, or about the time.                                   *)
THEOREM HonestVerify == Spec => []HonestMessagesVerify
<1>1. ASSUME NEW p, NEW q, InUTC(p) = InUTC(q)
      PROVE  /\ RequestSigningBytes(p) = RequestSigningBytes(q)
             /\ BindingHash(p) = BindingHash(q)
  BY <1>1 DEF BindingHash, RequestSigningBytes, InUTC
<1>2. ASSUME TypeOK, IInv, HistoryInv, NEW q \in issued, NEW m \in requests,
             InUTC(m.body) = InUTC(q),
             m.Signature = signRecoveryBytes(RequestSigningBytes(q), Host),
             \A t \in Deadlines(q) : now[q.WorkerID] < t
      PROVE  VerifyRequest(m, Host, now[q.WorkerID])
  <2>1. q.WorkerID \in Parties
    <3>1. PICK d \in Drafts : q = SignRefs(d)
      BY <1>2 DEF IInv, IssuedFromDrafts
    <3>2. SignRefs(d).WorkerID = d.WorkerID
      BY DEF SignRefs
    <3> QED
      BY <3>1, <3>2, LifecycleAssumption DEF Parties
  <2>2. now[q.WorkerID] # 0
    BY <1>2, <2>1 DEF TypeOK
  <2>3. /\ RequestSigningBytes(m.body) = RequestSigningBytes(q)
        /\ Deadlines(m.body) = Deadlines(q)
        /\ ValidRequest(m.body)
    BY <1>1, <1>2, SameHashSameTerms DEF HistoryInv, IssuedValid
  <2>4. RequestValidAt(m.body, now[q.WorkerID])
    BY <1>2, <2>2, <2>3, BeforeDeadlinesValid
  <2>5. verifyRecoveryBytes(RequestSigningBytes(m.body), m.Signature, Host)
    <3>1. m.Signature = [KeyID |-> Host, Value |-> RequestSigningBytes(q)]
      BY <1>2, SignerIsKey DEF Parties
    <3>2. m.Signature.KeyID = Host /\ m.Signature.Value = RequestSigningBytes(q)
      BY <3>1
    <3> QED
      BY <2>3, <3>2, LifecycleAssumption DEF verifyRecoveryBytes
  <2> QED
    BY <2>4, <2>5 DEF VerifyRequest
<1>3. ASSUME TypeOK, IInv, HistoryInv, NEW q \in issued, NEW m \in results,
             NEW p \in performed,
             InUTC(p.request) = InUTC(q),
             m.body = ResultFor(p.request, p.outcome, p.completed),
             m.Signature = signRecoveryBytes(ResultSigningBytes(m.body), p.worker),
             p.completed <= now[Host],
             \A t \in Deadlines(q) : now[Host] < t
      PROVE  VerifyResult(m, q.WorkerID, q, now[Host])
  <2>1. /\ BindingHash(p.request) = BindingHash(q)
        /\ p.request.TransactionID = q.TransactionID
        /\ p.request.WorkerID = q.WorkerID
        /\ p.request.Component = q.Component
        /\ p.request.Action = q.Action
        /\ p.request.ExpiresAt = q.ExpiresAt
    BY <1>1, <1>3, SameHashSameTerms
  <2>2. p.worker = q.WorkerID /\ p.worker \in Workers
    BY <1>3, <2>1 DEF HistoryInv, PerformedInTime, TypeOK
  <2>3. MatchesRequest(m.body, q)
    BY <1>3, <2>1 DEF ResultFor, MatchesRequest
  <2>4. /\ m.Signature.KeyID = q.WorkerID
        /\ m.Signature.Value = ResultSigningBytes(m.body)
    <3>1. m.Signature = [KeyID |-> p.worker, Value |-> ResultSigningBytes(m.body)]
      BY <1>3, <2>2, SignerIsKey DEF Parties
    <3> QED
      BY <2>2, <3>1
  <2>5. ValidResult(m.body)
    <3>1. PICK x \in performed :
              /\ m.Signature = signRecoveryBytes(ResultSigningBytes(Reported(x)), x.worker)
              /\ ValidResult(Reported(x))
      BY <1>3 DEF HistoryInv, ResultsReported
    <3>2. m.body = Reported(x)
      BY <1>3, <2>4, <3>1, SignedResult DEF TypeOK
    <3> QED
      BY <3>1, <3>2
  <2>6. now[Host] # 0
    BY <1>3 DEF TypeOK, Parties
  <2>7. RequestValidAt(q, now[Host])
    BY <1>3, <2>6, BeforeDeadlinesValid DEF HistoryInv, IssuedValid
  <2>8. ResultValidAt(m.body, now[Host])
    <3>1. m.body.ExpiresAt = q.ExpiresAt /\ m.body.CompletedAt = p.completed
      BY <1>3, <2>1 DEF ResultFor
    <3>2. now[Host] < q.ExpiresAt
      BY <1>3 DEF Deadlines
    <3> QED
      BY <1>3, <2>5, <2>6, <3>1, <3>2 DEF ResultValidAt, ValidResult, Unexpired
  <2>9. q.WorkerID # NoKey
    BY <2>2, LifecycleAssumption
  <2> QED
    BY <2>3, <2>4, <2>7, <2>8, <2>9 DEF VerifyResult, verifyRecoveryBytes
<1>4. TypeOK /\ IInv /\ HistoryInv => HonestMessagesVerify
  BY <1>2, <1>3 DEF HonestMessagesVerify
<1> QED
  BY <1>4, TypeCorrect, IInvHolds, HistoryHolds, PTL

=============================================================================
