---------------------------- MODULE LeasedWorkProofs ----------------------------
(***************************************************************************)
(* Proofs about LeasedWork for every set of orders, adapters, results and  *)
(* deliveries, every length of lease and every number of documents under   *)
(* way.                                                                    *)
(***************************************************************************)
EXTENDS LeasedWork, FiniteSetTheorems, TLAPS

(* The strengthening.  A document on the way, and the one that is held, is *)
(* a lease for an admitted task and operation in which relays may have     *)
(* changed the session policy, as they do, and the run-log policy.         *)
LeaseFields ==
    {"wellFormed", "ProviderArtifactSpecs", "NetworkPolicy", "P2PSessionPolicy",
     "RunLogPolicy", "CapabilityTags", "ResiduePolicy", "LeasedAt", "ExpiresAt"}

Changeable == {"P2PSessionPolicy", "RunLogPolicy"}

SessionOf(document) ==
    LET p == document.lease.P2PSessionPolicy
        g == document.granted.P2PSessionPolicy
    IN  p = g \/ (g # NoPolicy /\ p \in Altered(g))

Granted(document) ==
    /\ DOMAIN document = {"lease", "granted", "task", "operation", "stripped"}
    /\ DOMAIN document.lease = LeaseFields /\ DOMAIN document.granted = LeaseFields
    /\ TaskValid(document.task) /\ OperationValid(document.operation)
    /\ \E order \in Orders :
          /\ document.task = order.task /\ document.operation = order.operation
          /\ document.granted.P2PSessionPolicy = order.task.P2PSessionPolicy
          /\ document.granted.RunLogPolicy = order.runLog
    /\ document.granted.ProviderArtifactSpecs = NormalizedArtifactSpecs(document.operation)
    /\ \A f \in LeaseFields \ Changeable : document.lease[f] = document.granted[f]
    /\ SessionOf(document)

(* The forms of a run-log policy on the way, and what reading it gives: the*)
(* policy as written, unless a relay dropped it.                           *)
IsForm(w) == w \in {NoField, Null, UnknownFields} \/ IsRunLog(w)

LogsOnTheWay(document) ==
    LET w == document.lease.RunLogPolicy
        g == document.granted.RunLogPolicy
    IN  /\ IsForm(w)
        /\ \/ document.stripped = TRUE /\ w = NoField
           \/ /\ document.stripped = FALSE
              /\ IF g = UnknownFields THEN w = g ELSE Decode(w) = Decode(g)

DocumentsGranted ==
    \A document \in wire :
        Granted(document) /\ LogsOnTheWay(document) /\ document.granted.LeasedAt \in 1 .. now

(* What is held was taken: it has been decoded, and validated.             *)
LogsTaken(document) ==
    LET w == document.lease.RunLogPolicy
        g == document.granted.RunLogPolicy
    IN  \/ document.stripped = TRUE /\ w = ZeroRunLog
        \/ document.stripped = FALSE /\ g # UnknownFields /\ w = Decode(g)

HeldTaken ==
    held # NoLease => Granted(held) /\ LogsTaken(held) /\ LeaseValid(held.lease)

LastDone == last = NoWork \/ last.did \in {"session", "logs", "work", "delivery"}

IInv == /\ now \in 1 .. MaxTime
        /\ DocumentsGranted
        /\ HeldTaken
        /\ LastDone
        /\ SessionsInWindow
        /\ RunLogsAsGranted
        /\ DeliveredDeclaredOnce
        /\ WorkConfined

-----------------------------------------------------------------------------
(* Session policies.                                                       *)

(* An altered policy keeps the hash of the granted one, which covers all   *)
(* the other fields: if it validates, nothing was altered.                 *)
LEMMA AlteredIsRefused ==
    ASSUME NEW g, NEW p \in Altered(g), g = [h \in SessionFields |-> g[h]],
           g.PolicyHash = SigningPayload(g), p.PolicyHash = SigningPayload(p)
    PROVE  p = g
<1>1. PICK f \in SessionFields \ {"PolicyHash"} :
          DOMAIN p = SessionFields /\ \A h \in SessionFields \ {f} : p[h] = g[h]
  BY DEF Altered, SessionFields
<1>2. p.PolicyHash = g.PolicyHash
  BY <1>1 DEF SessionFields
<1>3. SigningPayload(p) = SigningPayload(g)
  BY <1>2
<1>4. SigningPayload(p)[f] = p[f] /\ SigningPayload(g)[f] = g[f]
  BY <1>1 DEF SigningPayload, SessionFields
<1>5. p[f] = g[f]
  BY <1>3, <1>4
<1>6. p = [h \in SessionFields |-> p[h]]
  BY <1>1 DEF Altered
<1> QED
  BY <1>1, <1>5, <1>6

-----------------------------------------------------------------------------
(* Run-log policies.                                                       *)

(* A policy of this schema is none of the three other forms.               *)
LEMMA DecodedForm ==
    ASSUME NEW w, IsForm(w), w # UnknownFields
    PROVE  \/ w = NoField /\ Decode(w) = ZeroRunLog
           \/ /\ w # NoField
              /\ \E v : IsRunLog(v) /\ Decode(w) = [v EXCEPT !.present = TRUE]
                        /\ v = IF w = Null THEN ZeroRunLog ELSE w
<1>1. CASE w = NoField
  BY <1>1 DEF Decode
<1>2. CASE w = Null
  <2>1. IsRunLog(ZeroRunLog) /\ NoField # Null
    BY OrdersAssumption
  <2> QED
    BY <1>2, <2>1 DEF Decode, UnmarshalJSON
<1>3. CASE w \notin {NoField, Null}
  <2>1. IsRunLog(w)
    BY <1>3 DEF IsForm
  <2> QED
    BY <1>3, <2>1 DEF Decode, UnmarshalJSON
<1> QED
  BY <1>1, <1>2, <1>3

(* A policy that was there is not the zero policy, and stays one when its  *)
(* mark is written or left out.                                            *)
LEMMA Marked ==
    ASSUME NEW v, IsRunLog(v), NEW b \in BOOLEAN
    PROVE  /\ IsRunLog([v EXCEPT !.present = b])
           /\ [v EXCEPT !.present = b] \notin {NoField, Null, UnknownFields}
           /\ [v EXCEPT !.present = TRUE] # ZeroRunLog
<1>1. ASSUME NEW a \in BOOLEAN, NEW c \in BOOLEAN
      PROVE  [[v EXCEPT !.present = a] EXCEPT !.present = c] = [v EXCEPT !.present = c]
  BY DEF IsRunLog
<1>2. [v EXCEPT !.present = TRUE].present = TRUE
  BY DEF IsRunLog
<1>3. ZeroRunLog.present = FALSE
  BY DEF ZeroRunLog
<1> QED
  BY <1>1, <1>2, <1>3 DEF IsRunLog

(* Decoding and encoding loses nothing that decoding would show.           *)
LEMMA RelayKeeps ==
    ASSUME NEW w, IsForm(w), w # UnknownFields
    PROVE  /\ IsForm(Encode(Decode(w)))
           /\ Encode(Decode(w)) # UnknownFields
           /\ Decode(Encode(Decode(w))) = Decode(w)
           /\ w = NoField => Encode(Decode(w)) = NoField
<1>1. CASE w = NoField
  <2>1. Decode(w) = ZeroRunLog
    BY <1>1 DEF Decode
  <2>2. Encode(ZeroRunLog) = NoField
    BY DEF Encode
  <2> QED
    BY <1>1, <2>1, <2>2 DEF IsForm
<1>2. CASE w # NoField
  <2>1. PICK v : IsRunLog(v) /\ Decode(w) = [v EXCEPT !.present = TRUE]
    BY <1>2, DecodedForm
  <2> DEFINE e == [v EXCEPT !.present = FALSE]
  <2>2. [v EXCEPT !.present = TRUE] # ZeroRunLog
    BY <2>1, Marked
  <2>3. [[v EXCEPT !.present = TRUE] EXCEPT !.present = FALSE] = e
    BY <2>1 DEF IsRunLog
  <2>4. Encode(Decode(w)) = e
    BY <2>1, <2>2, <2>3 DEF Encode
  <2>5. IsRunLog(e) /\ e \notin {NoField, Null, UnknownFields}
    BY <2>1, Marked
  <2>6. [e EXCEPT !.present = TRUE] = [v EXCEPT !.present = TRUE]
    BY <2>1 DEF IsRunLog
  <2>7. Decode(e) = Decode(w)
    BY <2>1, <2>5, <2>6 DEF Decode, UnmarshalJSON
  <2> QED
    BY <1>2, <2>4, <2>5, <2>7 DEF IsForm
<1> QED
  BY <1>1, <1>2

(* What validates after decoding was not there, or was written as v1.      *)
LEMMA DecodedValid ==
    ASSUME NEW w, IsForm(w), w # UnknownFields, RunLogValid(Decode(w))
    PROVE  w = NoField \/ (w # Null /\ w.Version = "v1")
<1>1. SUFFICES ASSUME w # NoField
               PROVE  w # Null /\ w.Version = "v1"
  OBVIOUS
<1>2. PICK v : /\ IsRunLog(v) /\ Decode(w) = [v EXCEPT !.present = TRUE]
               /\ v = IF w = Null THEN ZeroRunLog ELSE w
  BY <1>1, DecodedForm
<1>3. Decode(w) # ZeroRunLog
  BY <1>2, Marked
<1>4. Decode(w).Version = "v1"
  BY <1>3 DEF RunLogValid
<1>5. v.Version = "v1"
  BY <1>2, <1>4 DEF IsRunLog
<1>6. "v1" # Unset
  BY Zenon DEF Unset
<1>7. v # ZeroRunLog
  BY <1>5, <1>6 DEF ZeroRunLog
<1> QED
  BY <1>2, <1>5, <1>7

-----------------------------------------------------------------------------
(* Artifacts and workloads.                                                *)

(* One specification has the name, and each list of the operation that is  *)
(* not empty names it.                                                     *)
OnceIn(o, specs, name) ==
    /\ Cardinality({i \in DOMAIN specs : specs[i].Name = name}) = 1
    /\ o.Artifacts # <<>> => name \in Range(o.Artifacts)
    /\ o.ArtifactSpecs # <<>> => name \in Range(SpecNames(o.ArtifactSpecs))

(* Specifications in a lease, no two of one name, name what the operation  *)
(* names.                                                                  *)
LEMMA DeclaredOnce ==
    ASSUME NEW o, OperationValid(o), o.Artifacts \in Seq(Range(o.Artifacts)),
           NEW specs, specs = NormalizedArtifactSpecs(o),
           IsInjective(SpecNames(specs)), NEW name \in Range(SpecNames(specs))
    PROVE  OnceIn(o, specs, name)
<1>1. PICK i \in DOMAIN specs : specs[i].Name = name
  BY DEF Range, SpecNames
<1>2. \A j \in DOMAIN specs : specs[j].Name = name => j = i
  BY <1>1 DEF IsInjective, SpecNames
<1>3. {j \in DOMAIN specs : specs[j].Name = name} = {i}
  BY <1>1, <1>2
<1>4. Cardinality({i}) = 1
  BY FS_Singleton
<1>5. CASE o.ArtifactSpecs # <<>>
  <2>1. specs = o.ArtifactSpecs
    BY <1>5 DEF NormalizedArtifactSpecs
  <2>2. o.Artifacts # <<>> => Range(o.Artifacts) # {}
    <3>1. PICK S : o.Artifacts \in Seq(S)
      OBVIOUS
    <3>2. o.Artifacts # <<>> => 1 \in DOMAIN o.Artifacts
      BY <3>1
    <3> QED
      BY <3>2 DEF Range
  <2>3. o.Artifacts # <<>> => Range(SpecNames(specs)) \subseteq Range(o.Artifacts)
    BY <2>1, <2>2 DEF OperationValid, validateProviderArtifactSpecs
  <2> QED
    BY <1>3, <1>4, <2>1, <2>3 DEF OnceIn
<1>6. CASE o.ArtifactSpecs = <<>>
  <2>1. specs = [k \in DOMAIN o.Artifacts |->
                   [Name |-> o.Artifacts[k], MaxBytes |-> 0, wellFormed |-> TRUE]]
    BY <1>6 DEF NormalizedArtifactSpecs
  <2>2. i \in DOMAIN o.Artifacts /\ name = o.Artifacts[i]
    BY <1>1, <2>1
  <2> QED
    BY <1>3, <1>4, <1>6, <2>2 DEF OnceIn, Range
<1> QED
  BY <1>5, <1>6

(* What a valid workload's payload keeps to, by its kind.                  *)
PayloadConfined(kind, w) ==
    /\ kind = "service" => /\ w.Ports # {} <=> w.Ingress.AuthRequired
                           /\ \A f \in w.files : f.inside
    /\ kind = "node-service" /\ w.PeerPolicy.Mode = "allowlist" =>
           Names(w.PeerPolicy.AllowedPeers) \subseteq Names(w.PeerPolicy.EgressAllowlist)
    /\ kind = "provider" => w.image = "pinned" \/ w.component = w.plugin
    /\ kind = "product-capture" => w.host \in w.AllowedHosts

(* WorkloadSpec.Validate looks at the payload of the workload's own kind.  *)
LEMMA ValidIsConfined ==
    ASSUME NEW w, WorkloadValid(w), w.Kind \in PayloadKinds
    PROVE  w.Kind \in DOMAIN w.payload /\ PayloadConfined(w.Kind, w.payload[w.Kind])
<1> DEFINE v == w.payload[w.Kind]
<1>1. w.Kind \in DOMAIN w.payload /\ PayloadValid(w.Kind, v)
  BY DEF WorkloadValid, PayloadKinds, PlainKinds
<1>2. CASE w.Kind = "service"
  <2>1. ServiceValid(v)
    BY <1>1, <1>2 DEF PayloadValid
  <2>2. v.Ports # {} <=> v.Ingress.Mode # "none"
    BY <2>1 DEF ServiceValid
  <2>3. v.Ingress.AuthRequired = (v.Ingress.Mode # "none")
    BY <2>1 DEF ServiceValid, ServicePartsValid, IngressValid
  <2>4. \A f \in v.files : f.inside
    BY <2>1 DEF ServiceValid, ServicePartsValid, FileRefValid
  <2> QED
    BY <1>1, <1>2, <2>2, <2>3, <2>4 DEF PayloadConfined
<1>3. CASE w.Kind = "node-service"
  <2>1. PeerPolicyValid(v.PeerPolicy)
    BY <1>1, <1>3 DEF PayloadValid, NodeServiceValid
  <2> QED
    BY <1>1, <1>3, <2>1 DEF PeerPolicyValid, PayloadConfined
<1>4. CASE w.Kind = "provider"
  <2>1. ProviderValid(v)
    BY <1>1, <1>4 DEF PayloadValid
  <2>2. v.image = "pinned" \/ v.component = v.plugin
    BY <2>1, Zenon DEF ProviderValid
  <2> QED
    BY <1>1, <1>4, <2>2 DEF PayloadConfined
<1>5. CASE w.Kind = "product-capture"
  <2>1. v.host \in v.AllowedHosts
    BY <1>1, <1>5 DEF PayloadValid, ProductCaptureValid, productCaptureHostAllowed
  <2> QED
    BY <1>1, <1>5, <2>1 DEF PayloadConfined
<1>6. CASE w.Kind \notin {"service", "node-service", "provider", "product-capture"}
  BY <1>1, <1>6 DEF PayloadConfined
<1> QED
  BY <1>2, <1>3, <1>4, <1>5, <1>6

-----------------------------------------------------------------------------
(* The steps.                                                              *)

(* What the worker holds and has done stays as it is.                      *)
Done == LastDone /\ SessionsInWindow /\ RunLogsAsGranted /\ DeliveredDeclaredOnce /\ WorkConfined

(* A step that leaves the worker alone keeps what is known of it.          *)
LEMMA Untouched ==
    ASSUME HeldTaken, Done, UNCHANGED <<held, last>>
    PROVE  HeldTaken' /\ Done'
BY DEF HeldTaken, Done, LastDone, SessionsInWindow, RunLogsAsGranted, DeliveredDeclaredOnce,
       WorkConfined

(* At first nothing is on the way, held or done.                           *)
LEMMA InitHolds == Init => IInv
<1> SUFFICES ASSUME Init PROVE IInv
  OBVIOUS
<1>1. now \in 1 .. MaxTime
  BY LeasedWorkAssumption DEF Init
<1> QED
  BY <1>1
  DEF Init, IInv, DocumentsGranted, HeldTaken, LastDone, SessionsInWindow, RunLogsAsGranted,
      DeliveredDeclaredOnce, WorkConfined

(* A lease that is granted is as it was granted.                           *)
LEMMA GrantKeeps ==
    ASSUME now \in 1 .. MaxTime, DocumentsGranted, NEW order \in Orders, Grant(order)
    PROVE  DocumentsGranted'
<1> DEFINE l == LeaseFor(order)
           new == [lease |-> l, granted |-> l, task |-> order.task,
                   operation |-> order.operation, stripped |-> FALSE]
<1>1. wire' = wire \cup {new} /\ now' = now
      /\ TaskValid(order.task) /\ OperationValid(order.operation)
  BY DEF Grant
<1>2. /\ DOMAIN l = LeaseFields
      /\ l.ProviderArtifactSpecs = NormalizedArtifactSpecs(order.operation)
      /\ l.P2PSessionPolicy = order.task.P2PSessionPolicy
      /\ l.RunLogPolicy = order.runLog /\ l.LeasedAt = now
  BY DEF LeaseFor, LeaseFields
<1> HIDE DEF l
<1>3. Granted(new)
  BY <1>1, <1>2 DEF Granted, SessionOf
<1>4. IsForm(order.runLog)
  BY OrdersAssumption DEF IsForm
<1>5. LogsOnTheWay(new)
  BY <1>2, <1>4 DEF LogsOnTheWay
<1>6. new.granted.LeasedAt \in 1 .. now
  BY <1>2, LeasedWorkAssumption
<1> HIDE DEF new
<1> QED
  BY <1>1, <1>3, <1>5, <1>6 DEF DocumentsGranted

(* A relay that passes on a granted document keeps all of them granted.    *)
LEMMA ForwardKeeps ==
    ASSUME DocumentsGranted, NEW document \in wire, NEW passedOn, Forward(document, passedOn),
           Granted(passedOn), LogsOnTheWay(passedOn), passedOn.granted = document.granted
    PROVE  DocumentsGranted'
BY DEF DocumentsGranted, Forward

(* A relay that decodes and encodes passes on the run-log policy as it     *)
(* would be read.                                                          *)
LEMMA RelayGranted ==
    ASSUME NEW document, Granted(document), LogsOnTheWay(document), Decodes(document),
           NEW passedOn,
           passedOn = [document EXCEPT !.lease.RunLogPolicy = Encode(Decode(@))]
    PROVE  Granted(passedOn) /\ LogsOnTheWay(passedOn) /\ passedOn.granted = document.granted
<1> DEFINE w == document.lease.RunLogPolicy
<1>1. /\ DOMAIN passedOn = {"lease", "granted", "task", "operation", "stripped"}
      /\ DOMAIN passedOn.lease = LeaseFields
      /\ passedOn.lease.RunLogPolicy = Encode(Decode(w))
      /\ \A f \in LeaseFields \ {"RunLogPolicy"} : passedOn.lease[f] = document.lease[f]
      /\ passedOn.granted = document.granted /\ passedOn.task = document.task
      /\ passedOn.operation = document.operation /\ passedOn.stripped = document.stripped
  BY DEF Granted, LeaseFields
<1>2. Granted(passedOn)
  BY <1>1 DEF Granted, SessionOf, LeaseFields, Changeable
<1>3. IsForm(w) /\ w # UnknownFields
  BY DEF LogsOnTheWay, Decodes
<1>4. /\ IsForm(Encode(Decode(w))) /\ Decode(Encode(Decode(w))) = Decode(w)
      /\ w = NoField => Encode(Decode(w)) = NoField
  BY <1>3, RelayKeeps
<1> QED
  BY <1>1, <1>2, <1>3, <1>4 DEF LogsOnTheWay

(* A relay of an older schema leaves no run-log policy, and a mark of it.  *)
LEMMA StripGranted ==
    ASSUME NEW document, Granted(document), NEW passedOn,
           passedOn = [document EXCEPT !.lease.RunLogPolicy = NoField, !.stripped = TRUE]
    PROVE  Granted(passedOn) /\ LogsOnTheWay(passedOn) /\ passedOn.granted = document.granted
<1>1. /\ DOMAIN passedOn = {"lease", "granted", "task", "operation", "stripped"}
      /\ DOMAIN passedOn.lease = LeaseFields
      /\ passedOn.lease.RunLogPolicy = NoField
      /\ \A f \in LeaseFields \ {"RunLogPolicy"} : passedOn.lease[f] = document.lease[f]
      /\ passedOn.granted = document.granted /\ passedOn.task = document.task
      /\ passedOn.operation = document.operation /\ passedOn.stripped = TRUE
  BY DEF Granted, LeaseFields
<1>2. Granted(passedOn)
  BY <1>1 DEF Granted, SessionOf, LeaseFields, Changeable
<1> QED
  BY <1>1, <1>2 DEF LogsOnTheWay, IsForm

(* A relay that alters the session policy leaves everything else.          *)
LEMMA AlterGranted ==
    ASSUME NEW document, Granted(document), LogsOnTheWay(document),
           document.granted.P2PSessionPolicy # NoPolicy,
           NEW p \in Altered(document.granted.P2PSessionPolicy), NEW passedOn,
           passedOn = [document EXCEPT !.lease.P2PSessionPolicy = p]
    PROVE  Granted(passedOn) /\ LogsOnTheWay(passedOn) /\ passedOn.granted = document.granted
<1>1. /\ DOMAIN passedOn = {"lease", "granted", "task", "operation", "stripped"}
      /\ DOMAIN passedOn.lease = LeaseFields
      /\ passedOn.lease.P2PSessionPolicy = p
      /\ \A f \in LeaseFields \ {"P2PSessionPolicy"} : passedOn.lease[f] = document.lease[f]
      /\ passedOn.granted = document.granted /\ passedOn.task = document.task
      /\ passedOn.operation = document.operation /\ passedOn.stripped = document.stripped
  BY DEF Granted, LeaseFields
<1>2. Granted(passedOn)
  BY <1>1 DEF Granted, SessionOf, LeaseFields, Changeable
<1>3. passedOn.lease.RunLogPolicy = document.lease.RunLogPolicy
  BY <1>1 DEF LeaseFields
<1> QED
  BY <1>1, <1>2, <1>3 DEF LogsOnTheWay

(* What is taken has been decoded.                                         *)
LEMMA TakeGranted ==
    ASSUME NEW document, Granted(document), LogsOnTheWay(document), Decodes(document),
           NEW l, l = [document.lease EXCEPT !.RunLogPolicy = Decode(@)],
           NEW taken, taken = [document EXCEPT !.lease = l]
    PROVE  Granted(taken) /\ LogsTaken(taken) /\ taken.lease = l
<1> DEFINE w == document.lease.RunLogPolicy
<1>1. /\ DOMAIN l = LeaseFields /\ l.RunLogPolicy = Decode(w)
      /\ \A f \in LeaseFields \ {"RunLogPolicy"} : l[f] = document.lease[f]
  BY DEF Granted, LeaseFields
<1>2. /\ DOMAIN taken = {"lease", "granted", "task", "operation", "stripped"}
      /\ taken.lease = l /\ taken.granted = document.granted
      /\ taken.task = document.task /\ taken.operation = document.operation
      /\ taken.stripped = document.stripped
  BY DEF Granted
<1>3. Granted(taken)
  BY <1>1, <1>2 DEF Granted, SessionOf, LeaseFields, Changeable
<1>4. w # UnknownFields
  BY DEF Decodes
<1>5. w = NoField => Decode(w) = ZeroRunLog
  BY DEF Decode
<1> QED
  BY <1>1, <1>2, <1>3, <1>4, <1>5 DEF LogsOnTheWay, LogsTaken

(* The policies of a lease that was taken and validated are as granted.    *)
LEMMA TakenLogs ==
    ASSUME NEW document, Granted(document), LogsTaken(document), LeaseValid(document.lease),
           document.stripped # TRUE
    PROVE  LET g == document.granted.RunLogPolicy
           IN  /\ document.lease.RunLogPolicy = Decode(g)
               /\ g = NoField \/ (g # Null /\ g.Version = "v1")
<1> DEFINE g == document.granted.RunLogPolicy
<1>1. g # UnknownFields /\ document.lease.RunLogPolicy = Decode(g)
  BY DEF LogsTaken
<1>2. RunLogValid(document.lease.RunLogPolicy)
  BY DEF LeaseValid, PoliciesValid
<1>3. IsForm(g)
  <2>1. PICK order \in Orders : g = order.runLog
    BY DEF Granted
  <2> QED
    BY <2>1, OrdersAssumption DEF IsForm
<1> QED
  BY <1>1, <1>2, <1>3, DecodedValid

(* What the worker takes is decoded and validated, and nothing is done     *)
(* yet.                                                                    *)
LEMMA TakeKeeps ==
    ASSUME DocumentsGranted, NEW document \in wire, Take(document)
    PROVE  /\ HeldTaken'
           /\ LastDone' /\ SessionsInWindow' /\ RunLogsAsGranted'
           /\ DeliveredDeclaredOnce' /\ WorkConfined'
<1> DEFINE l == [document.lease EXCEPT !.RunLogPolicy = Decode(@)]
           taken == [document EXCEPT !.lease = l]
<1>1. /\ Decodes(document) /\ LeaseValid(l) /\ held' = taken /\ last' = NoWork
  BY DEF Take
<1>2. Granted(document) /\ LogsOnTheWay(document)
  BY DEF DocumentsGranted
<1>3. Granted(taken) /\ LogsTaken(taken) /\ taken.lease = l
  BY <1>1, <1>2, TakeGranted
<1> HIDE DEF l, taken
<1>4. HeldTaken'
  BY <1>1, <1>3 DEF HeldTaken
<1>5. taken.stripped # TRUE =>
          \/ taken.granted.RunLogPolicy = NoField
          \/ taken.granted.RunLogPolicy # Null /\ taken.granted.RunLogPolicy.Version = "v1"
  BY <1>1, <1>3, TakenLogs
<1>6. RunLogsAsGranted'
  BY <1>1, <1>5 DEF RunLogsAsGranted
<1> QED
  BY <1>1, <1>4, <1>6
  DEF LastDone, SessionsInWindow, DeliveredDeclaredOnce, WorkConfined

(* P2PSessionPolicy.Validate refuses an altered policy and looks at the    *)
(* clock.                                                                  *)
LEMMA SessionKeeps ==
    ASSUME now \in 1 .. MaxTime, HeldTaken, Done, OpenSession
    PROVE  Done'
<1> DEFINE p == held.lease.P2PSessionPolicy
           g == held.granted.P2PSessionPolicy
<1>1. /\ held # NoLease /\ p # NoPolicy /\ SessionPolicyValid(p, now)
      /\ last' = [did |-> "session", policy |-> p, granted |-> held.granted, at |-> now]
      /\ held' = held
  BY DEF OpenSession
<1>2. Granted(held)
  BY <1>1 DEF HeldTaken
<1>3. p = g
  <2>1. CASE p # g
    <3>1. g # NoPolicy /\ p \in Altered(g)
      BY <1>2, <2>1 DEF Granted, SessionOf
    <3>2. PICK order \in Orders : g = order.task.P2PSessionPolicy /\ held.task = order.task
      BY <1>2 DEF Granted
    <3>3. g = [h \in SessionFields |-> g[h]]
      BY <3>1, <3>2, OrdersAssumption
    <3>4. SessionPolicyValid(g, 0)
      BY <1>2, <3>1, <3>2 DEF Granted, TaskValid, CarriedPolicyValid
    <3>5. g.PolicyHash = SigningPayload(g) /\ p.PolicyHash = SigningPayload(p)
      BY <1>1, <3>4 DEF SessionPolicyValid
    <3> HIDE DEF p, g
    <3> QED
      BY <3>1, <3>3, <3>5, AlteredIsRefused
  <2> QED
    BY <2>1
<1>4. p.NotBefore <= now /\ now < p.ExpiresAt /\ now < p.RevocationFreshUntil
  BY <1>1 DEF SessionPolicyValid, SessionPolicyInForce
<1> HIDE DEF p, g
<1>5. SessionsInWindow'
  BY <1>1, <1>3, <1>4 DEF SessionsInWindow, g
<1>6. last' # NoWork => last'.did = "session"
  BY <1>1
<1> QED
  BY <1>1, <1>5, <1>6
  DEF Done, LastDone, RunLogsAsGranted, DeliveredDeclaredOnce, WorkConfined

(* Full logs are kept under a policy that was there, on the way and        *)
(* before.                                                                 *)
LEMMA LogsKeep ==
    ASSUME HeldTaken, Done, KeepLogs
    PROVE  Done'
<1> DEFINE w == held.lease.RunLogPolicy
           g == held.granted.RunLogPolicy
<1>1. /\ held # NoLease /\ w.Version = "v1" /\ w.PreserveFullLogs
      /\ last' = [did |-> "logs", policy |-> w, granted |-> held.granted] /\ held' = held
  BY DEF KeepLogs
<1>2. Granted(held) /\ LogsTaken(held) /\ LeaseValid(held.lease)
  BY <1>1 DEF HeldTaken
<1>3. "v1" # Unset
  BY Zenon DEF Unset
<1>4. w # ZeroRunLog
  BY <1>1, <1>3 DEF ZeroRunLog
<1>5. w = Decode(g) /\ g # NoField
  <2>1. held.stripped # TRUE /\ w = Decode(g)
    BY <1>2, <1>4 DEF LogsTaken
  <2> QED
    BY <1>4, <2>1 DEF Decode
<1>6. w = UnmarshalJSON(g)
  BY <1>5 DEF Decode
<1>7. RunLogValid(w)
  BY <1>2 DEF LeaseValid, PoliciesValid
<1>8. w.Authority.RetentionSeconds > 0
  BY <1>1, <1>4, <1>7 DEF RunLogValid
<1>9. "run-log-lease-policy-v1" \in held.lease.CapabilityTags
  BY <1>1, <1>2, <1>3 DEF LeaseValid, PoliciesValid
<1>10. held.lease.CapabilityTags = held.granted.CapabilityTags
  BY <1>2 DEF Granted, LeaseFields, Changeable
<1> HIDE DEF w
<1>11. RunLogsAsGranted'
  BY <1>1, <1>6, <1>8, <1>9, <1>10 DEF RunLogsAsGranted, Done
<1>12. last' # NoWork => last'.did = "logs"
  BY <1>1
<1> QED
  BY <1>1, <1>11, <1>12
  DEF Done, LastDone, SessionsInWindow, DeliveredDeclaredOnce, WorkConfined

(* What is executed was admitted with the task, and is of a kind the       *)
(* adapter lists.                                                          *)
LEMMA ExecuteKeeps ==
    ASSUME HeldTaken, Done, NEW adapter \in Adapters, NEW result \in Results,
           Execute(adapter, result)
    PROVE  Done'
<1> DEFINE w == held.task.Workload
<1>1. /\ held # NoLease /\ held' = held
      /\ last' = [did |-> "work", workload |-> w, adapter |-> adapter, result |-> result]
  BY DEF Execute
<1>2. WorkloadValid(w)
  BY <1>1 DEF HeldTaken, Granted, TaskValid
<1>3. w.Kind \in Range(adapter.WorkloadKinds)
  BY DEF Execute, Supports
<1> HIDE DEF w
<1>4. w.Kind \in PayloadKinds =>
          w.Kind \in DOMAIN w.payload /\ PayloadConfined(w.Kind, w.payload[w.Kind])
  BY <1>2, ValidIsConfined
<1>5. WorkConfined'
  <2>1. w.Kind \notin PayloadKinds =>
            w.Kind \notin {"service", "node-service", "provider", "product-capture"}
    BY DEF PayloadKinds
  <2> QED
    BY <1>1, <1>3, <1>4, <2>1 DEF WorkConfined, PayloadConfined
<1>6. last' # NoWork => last'.did = "work"
  BY <1>1
<1> QED
  BY <1>1, <1>5, <1>6
  DEF Done, LastDone, SessionsInWindow, RunLogsAsGranted, DeliveredDeclaredOnce

(* What is delivered the lease names, in specifications that validated.    *)
LEMMA DeliverKeeps ==
    ASSUME HeldTaken, Done, NEW delivery \in Deliveries, Deliver(delivery)
    PROVE  Done'
<1> DEFINE specs == held.lease.ProviderArtifactSpecs
           o == held.operation
<1>1. /\ held # NoLease /\ delivery.Name \in Range(SpecNames(specs)) /\ held' = held
      /\ last' = [did |-> "delivery", delivery |-> delivery, operation |-> o, specs |-> specs]
  BY DEF Deliver
<1>2. Granted(held) /\ LeaseValid(held.lease)
  BY <1>1 DEF HeldTaken
<1>3. specs = NormalizedArtifactSpecs(o) /\ OperationValid(o)
  BY <1>2 DEF Granted, LeaseFields, Changeable
<1>4. IsInjective(SpecNames(specs))
  BY <1>2 DEF LeaseValid, validateProviderArtifactSpecs
<1>5. o.Artifacts \in Seq(Range(o.Artifacts))
  BY <1>2, OrdersAssumption DEF Granted
<1> HIDE DEF specs, o
<1>6. OnceIn(o, specs, delivery.Name)
  BY <1>1, <1>3, <1>4, <1>5, DeclaredOnce
<1>7. DeliveredDeclaredOnce'
  BY <1>1, <1>6 DEF DeliveredDeclaredOnce, OnceIn
<1>8. last' # NoWork => last'.did = "delivery"
  BY <1>1
<1> QED
  BY <1>1, <1>7, <1>8
  DEF Done, LastDone, SessionsInWindow, RunLogsAsGranted, WorkConfined

(* Every step keeps the inductive invariant.                               *)
LEMMA NextKeeps == IInv /\ [Next]_vars => IInv'
<1> SUFFICES ASSUME IInv, [Next]_vars PROVE IInv'
  OBVIOUS
<1> USE DEF IInv
<1>0. Done
  BY DEF Done
<1>1. CASE UNCHANGED vars
  BY <1>1
  DEF vars, DocumentsGranted, HeldTaken, LastDone, SessionsInWindow, RunLogsAsGranted,
      DeliveredDeclaredOnce, WorkConfined
<1>2. ASSUME NEW order \in Orders, Grant(order) PROVE IInv'
  BY <1>0, <1>2, GrantKeeps, Untouched DEF Grant, Done
<1>3. ASSUME NEW document \in wire, NEW passedOn, Forward(document, passedOn),
             Granted(passedOn), LogsOnTheWay(passedOn), passedOn.granted = document.granted
      PROVE  IInv'
  BY <1>0, <1>3, ForwardKeeps, Untouched DEF Forward, Done
<1>4. ASSUME NEW document \in wire, Relay(document) PROVE IInv'
  <2>1. PICK passedOn :
            /\ passedOn = [document EXCEPT !.lease.RunLogPolicy = Encode(Decode(@))]
            /\ Forward(document, passedOn)
    BY <1>4 DEF Relay
  <2>2. Granted(document) /\ LogsOnTheWay(document) /\ Decodes(document)
    BY <1>4 DEF Relay, DocumentsGranted
  <2>3. /\ Granted(passedOn) /\ LogsOnTheWay(passedOn)
        /\ passedOn.granted = document.granted
    BY <2>1, <2>2, RelayGranted
  <2> QED
    BY <1>3, <2>1, <2>3
<1>5. ASSUME NEW document \in wire, Strip(document) PROVE IInv'
  <2>1. PICK passedOn :
            /\ passedOn = [document EXCEPT !.lease.RunLogPolicy = NoField,
                                           !.stripped = TRUE]
            /\ Forward(document, passedOn)
    BY <1>5 DEF Strip
  <2>2. Granted(document)
    BY DEF DocumentsGranted
  <2>3. /\ Granted(passedOn) /\ LogsOnTheWay(passedOn)
        /\ passedOn.granted = document.granted
    BY <2>1, <2>2, StripGranted
  <2> QED
    BY <1>3, <2>1, <2>3
<1>6. ASSUME NEW document \in wire, Lose(document) PROVE IInv'
  BY <1>0, <1>6, Untouched DEF Lose, DocumentsGranted, Done
<1>7. ASSUME NEW document \in wire, Alter(document) PROVE IInv'
  <2>1. PICK p \in Altered(document.granted.P2PSessionPolicy) :
            Forward(document, [document EXCEPT !.lease.P2PSessionPolicy = p])
    BY <1>7 DEF Alter
  <2>2. PICK passedOn : passedOn = [document EXCEPT !.lease.P2PSessionPolicy = p]
    OBVIOUS
  <2>3. Granted(document) /\ LogsOnTheWay(document)
        /\ document.granted.P2PSessionPolicy # NoPolicy
    BY <1>7 DEF Alter, DocumentsGranted
  <2>4. /\ Granted(passedOn) /\ LogsOnTheWay(passedOn)
        /\ passedOn.granted = document.granted
    BY <2>2, <2>3, AlterGranted
  <2> QED
    BY <1>3, <2>1, <2>2, <2>4
<1>8. ASSUME NEW document \in wire, Take(document) PROVE IInv'
  <2>1. DocumentsGranted' /\ now' = now
    BY <1>8 DEF Take, DocumentsGranted
  <2> QED
    BY <1>8, <2>1, TakeKeeps
<1>9. ASSUME Done', UNCHANGED <<now, wire, held>> PROVE IInv'
  BY <1>9 DEF DocumentsGranted, HeldTaken, Done
<1>10. CASE OpenSession
  BY <1>0, <1>9, <1>10, SessionKeeps DEF OpenSession
<1>11. CASE KeepLogs
  BY <1>0, <1>9, <1>11, LogsKeep DEF KeepLogs
<1>12. ASSUME NEW adapter \in Adapters, NEW result \in Results, Execute(adapter, result)
       PROVE  IInv'
  BY <1>0, <1>9, <1>12, ExecuteKeeps DEF Execute
<1>13. ASSUME NEW delivery \in Deliveries, Deliver(delivery) PROVE IInv'
  BY <1>0, <1>9, <1>13, DeliverKeeps DEF Deliver
<1>14. CASE Tick
  <2>1. now' \in 1 .. MaxTime /\ now <= now'
    BY <1>14, LeasedWorkAssumption DEF Tick
  <2>2. DocumentsGranted'
    BY <1>14, <2>1, LeasedWorkAssumption DEF Tick, DocumentsGranted
  <2>3. HeldTaken' /\ Done'
    BY <1>0, <1>14, Untouched DEF Tick
  <2> QED
    BY <2>1, <2>2, <2>3 DEF Done
<1> QED
  BY <1>1, <1>2, <1>4, <1>5, <1>6, <1>7, <1>8, <1>10, <1>11, <1>12, <1>13, <1>14 DEF Next

-----------------------------------------------------------------------------
(* The theorems.                                                           *)

(* What is on the way, held and done keeps to what was granted.            *)
THEOREM IInvHolds == Spec => []IInv
<1> QED
  BY InitHolds, NextKeeps, PTL DEF Spec

(* The type invariant: documents were granted before now, and a held lease *)
(* is decoded, says which policy binds its workspace (Lease.Validate) and  *)
(* is for a task that was admitted.                                        *)
THEOREM TypeCorrect == Spec => []TypeOK
<1>1. IInv => TypeOK
  <2> SUFFICES ASSUME IInv PROVE TypeOK
    OBVIOUS
  <2>1. \A d \in wire : d.granted.LeasedAt <= now
    BY LeasedWorkAssumption DEF IInv, DocumentsGranted
  <2>2. ASSUME held # NoLease
        PROVE  /\ held.lease.RunLogPolicy.Version \in {Unset, "v1"}
               /\ held.lease.ResiduePolicy.Mode \in ResidueModes \cup {Unset}
               /\ UsesReusableWorkspace(held.lease.ResiduePolicy) =>
                      held.lease.ResiduePolicy.PolicyHash
               /\ TaskValid(held.task)
    <3>1. Granted(held) /\ LeaseValid(held.lease)
      BY <2>2 DEF IInv, HeldTaken
    <3>2. RunLogValid(held.lease.RunLogPolicy)
      BY <3>1 DEF LeaseValid, PoliciesValid
    <3>3. held.lease.RunLogPolicy.Version \in {Unset, "v1"}
      BY <3>2 DEF RunLogValid, ZeroRunLog
    <3>4. ValidResidue(held.lease.ResiduePolicy,
                       {"RequireExplicitWorkerBound", "RequirePolicyHash"})
      BY <3>1 DEF LeaseValid
    <3>5. /\ held.lease.ResiduePolicy.Mode \in ResidueModes \cup {Unset}
          /\ UsesReusableWorkspace(held.lease.ResiduePolicy) =>
                 held.lease.ResiduePolicy.PolicyHash
      BY <3>4 DEF ValidResidue
    <3> QED
      BY <3>1, <3>3, <3>5 DEF Granted
  <2> QED
    BY <2>1, <2>2 DEF IInv, LastDone, TypeOK
<1> QED
  BY <1>1, IInvHolds, PTL

(* A session is opened only under the very policy that was granted, inside *)
(* its window and while its revocation feed is fresh                       *)
(* (P2PSessionPolicy.Validate, after a task and a lease that admitted the  *)
(* policy without a clock).                                                *)
THEOREM SessionsStayInWindow == Spec => []SessionsInWindow
<1> QED
  BY IInvHolds, PTL DEF IInv

(* Logs are kept only as the control plane wrote it, however often the     *)
(* policy was decoded and encoded (RunLogLeasePolicy.UnmarshalJSON).       *)
THEOREM RunLogsHold == Spec => []RunLogsAsGranted
<1> QED
  BY IInvHolds, PTL DEF IInv

(* What is delivered has one specification, of each list an operation has  *)
(* (ProviderOperation.NormalizedArtifactSpecs).                            *)
THEOREM DeliveriesDeclared == Spec => []DeliveredDeclaredOnce
<1> QED
  BY IInvHolds, PTL DEF IInv

(* What runs is of a kind its adapter lists, and has the payload of that   *)
(* kind, confined as WorkloadSpec.Validate asks of that kind.              *)
THEOREM WorkIsConfined == Spec => []WorkConfined
<1> QED
  BY IInvHolds, PTL DEF IInv
=============================================================================
