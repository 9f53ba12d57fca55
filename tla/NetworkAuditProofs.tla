--------------------------- MODULE NetworkAuditProofs ---------------------------
(***************************************************************************)
(* Proofs about NetworkAudit for every set of records, overrides and       *)
(* legacy documents, every width of the nanosecond counts and every bound. *)
(***************************************************************************)
EXTENDS NetworkAudit, TLAPS

(* The strengthening: a message holds the wire form of a record that       *)
(* validated, and the reference projected from it; a copy of a newer       *)
(* schema differs from it in the unknown fields alone.                     *)
IsMessage(m) ==
    m = [wire |-> m.wire, unknown |-> m.unknown, ref |-> m.ref, origin |-> m.origin]

RefOf(r, ref) ==
    /\ ref = [Stability |-> ref.Stability, Record |-> Normalized(r),
              Timestamp |-> ref.Timestamp]
    /\ ref.Stability \in Stabilities \ {Unset}
    /\ \E timestamp : ref.Timestamp = RefTimestamp(r, timestamp)

MessagesMade ==
    \A m \in outbox :
        /\ IsMessage(m)
        /\ m.unknown \in {"no", "record", "nested"}
        /\ m.origin \in Records
        /\ ValidateNetworkAudit(m.origin)
        /\ m.wire = ToProto(m.origin)
        /\ RefOf(m.origin, m.ref)

StoredTold ==
    \A s \in stored :
        /\ ValidateNetworkAudit(s.record)
        /\ s.record.zone = "utc"
        /\ s.made.Stability \in Stabilities \ {Unset}
        /\ s.sent # NoRef => (s.made = s.sent <=> SameEvent(s.record, s.origin))

IInv == MessagesMade /\ StoredTold

-----------------------------------------------------------------------------
(* Records and their instants.                                             *)

(* A record with its zone and its instants replaced.                       *)
With(r, zone, started, finished, observed) ==
    [wellFormed |-> r.wellFormed, zone |-> zone,
     Destination |-> r.Destination, ResourceUsage |-> r.ResourceUsage,
     Labels |-> r.Labels, StartedAt |-> started,
     FinishedAt |-> finished, ObservedAt |-> observed]

Rezoned(r, z) == [r EXCEPT !.zone = z]

Restamped(r, a, b, c) ==
    [r EXCEPT !.StartedAt = a, !.FinishedAt = b, !.ObservedAt = c]

Rewritten(r, a, b, c, z) ==
    [r EXCEPT !.StartedAt = a, !.FinishedAt = b, !.ObservedAt = c, !.zone = z]

(* Replacing the zone or the instants of a record replaces those fields    *)
(* and leaves the others.                                                  *)
LEMMA Replaced ==
    ASSUME NEW r, NEW z0, NEW a0, NEW b0, NEW c0, NEW w, w = With(r, z0, a0, b0, c0),
           NEW z, NEW a, NEW b, NEW c
    PROVE  /\ Rezoned(w, z) = With(r, z, a0, b0, c0)
           /\ Restamped(w, a, b, c) = With(r, z0, a, b, c)
           /\ Rewritten(w, a, b, c, z) = With(r, z, a, b, c)
<1>1. PICK u : u = [w EXCEPT !.StartedAt = a]
  OBVIOUS
<1>2. PICK v : v = [u EXCEPT !.FinishedAt = b]
  OBVIOUS
<1>3. PICK x : x = [v EXCEPT !.ObservedAt = c]
  OBVIOUS
<1>4. u = With(r, z0, a, b0, c0)
  BY <1>1 DEF With
<1>5. v = With(r, z0, a, b, c0)
  BY <1>2, <1>4 DEF With
<1>6. x = With(r, z0, a, b, c)
  BY <1>3, <1>5 DEF With
<1>7. [x EXCEPT !.zone = z] = With(r, z, a, b, c)
  BY <1>6 DEF With
<1>8. Restamped(w, a, b, c) = x
  BY <1>1, <1>2, <1>3 DEF Restamped
<1>9. Rewritten(w, a, b, c, z) = [x EXCEPT !.zone = z]
  BY <1>1, <1>2, <1>3 DEF Rewritten
<1>10. Rezoned(w, z) = With(r, z, a0, b0, c0)
  BY DEF With, Rezoned
<1> QED
  BY <1>6, <1>7, <1>8, <1>9, <1>10

(* A record is itself with its own zone and instants.                      *)
LEMMA RecordIsWith ==
    ASSUME NEW r, IsRecord(r)
    PROVE  r = With(r, r.zone, r.StartedAt, r.FinishedAt, r.ObservedAt)
BY DEF IsRecord, With

(* The fields of a record with another zone and other instants.            *)
LEMMA WithFields ==
    ASSUME NEW r, NEW z, NEW a, NEW b, NEW c
    PROVE  LET w == With(r, z, a, b, c)
           IN  /\ w.wellFormed = r.wellFormed /\ w.zone = z
               /\ w.Destination = r.Destination
               /\ w.ResourceUsage = r.ResourceUsage /\ w.Labels = r.Labels
               /\ w.StartedAt = a /\ w.FinishedAt = b /\ w.ObservedAt = c
BY DEF With

(* What a collector decodes is the record with its instants there and back,*)
(* in the zone it decodes them in.                                         *)
There(t) == timeFromUnixNano(unixNanoOrZero(t))

(* On the wire a record has counts for instants and no zone; decoded, it   *)
(* is in UTC and its instants went there and back.                         *)
LEMMA WireOf ==
    ASSUME NEW r, IsRecord(r)
    PROVE  /\ ToProto(r) = With(r, "none", unixNanoOrZero(r.StartedAt),
                                unixNanoOrZero(r.FinishedAt),
                                unixNanoOrZero(r.ObservedAt))
           /\ Decoded(ToProto(r))
                = With(r, "utc", There(r.StartedAt), There(r.FinishedAt),
                       There(r.ObservedAt))
<1> DEFINE w == ToProto(r)
<1>1. w = With(r, "none", unixNanoOrZero(r.StartedAt),
               unixNanoOrZero(r.FinishedAt), unixNanoOrZero(r.ObservedAt))
  <2>1. w = Rewritten(r, unixNanoOrZero(r.StartedAt), unixNanoOrZero(r.FinishedAt),
                      unixNanoOrZero(r.ObservedAt), "none")
    BY DEF ToProto, Rewritten
  <2> HIDE DEF w
  <2> QED
    BY <2>1, RecordIsWith, Replaced
<1> HIDE DEF w
<1>2. /\ w.StartedAt = unixNanoOrZero(r.StartedAt)
      /\ w.FinishedAt = unixNanoOrZero(r.FinishedAt)
      /\ w.ObservedAt = unixNanoOrZero(r.ObservedAt)
  BY <1>1, WithFields
<1>3. Decoded(w) = Rewritten(w, There(r.StartedAt), There(r.FinishedAt),
                             There(r.ObservedAt), "utc")
  BY <1>2 DEF Decoded, Rewritten, There
<1>4. Decoded(w) = With(r, "utc", There(r.StartedAt), There(r.FinishedAt),
                        There(r.ObservedAt))
  BY <1>1, <1>3, Replaced
<1> QED
  BY <1>1, <1>4 DEF w

(* Two records are of the same event exactly when they agree in every      *)
(* field but the zone.                                                     *)
LEMMA SameEventInstants ==
    ASSUME NEW r, NEW s, NEW z, NEW y, NEW a, NEW b, NEW c, IsRecord(s),
           r = With(s, z, a, b, c)
    PROVE  /\ Normalized(r) = With(s, "utc", a, b, c)
           /\ Normalized(s) = With(s, "utc", s.StartedAt, s.FinishedAt, s.ObservedAt)
           /\ SameEvent(r, s) <=> /\ a = s.StartedAt
                                  /\ b = s.FinishedAt
                                  /\ c = s.ObservedAt
<1>1. Rezoned(r, "utc") = With(s, "utc", a, b, c)
  BY Replaced
<1>2. Rezoned(s, "utc") = With(s, "utc", s.StartedAt, s.FinishedAt, s.ObservedAt)
  BY RecordIsWith, Replaced
<1>3. Rezoned(r, "utc") = Rezoned(s, "utc") <=>
          a = s.StartedAt /\ b = s.FinishedAt /\ c = s.ObservedAt
  BY <1>1, <1>2, WithFields
<1> QED
  BY <1>1, <1>2, <1>3 DEF Normalized, SameEvent, Rezoned

-----------------------------------------------------------------------------
(* Counts of nanoseconds.                                                  *)

(* A number below the modulus is its own remainder.                        *)
LEMMA SmallMod ==
    ASSUME NEW R \in Nat \ {0}, NEW x \in 0 .. R - 1
    PROVE  x % R = x
OBVIOUS

(* An even number is twice its half.                                       *)
LEMMA EvenHalves ==
    ASSUME NEW R \in Nat \ {0}, R % 2 = 0
    PROVE  R \div 2 \in Nat /\ R = 2 * (R \div 2)
OBVIOUS

(* Wrap leaves a count alone that the width holds.                         *)
LEMMA WrapKeeps ==
    ASSUME NEW n \in 0 .. (Range \div 2) - 1
    PROVE  Wrap(n) = n
<1>1. Range \div 2 \in Nat /\ Range = 2 * (Range \div 2) /\ Range \in Nat \ {0}
  BY InstantsAssumption, EvenHalves
<1> DEFINE h == Range \div 2
<1> HIDE DEF h
<1>2. h \in Nat /\ Range = h + h /\ n \in 0 .. h - 1
  BY <1>1 DEF h
<1>3. n + h \in 0 .. Range - 1
  BY <1>1, <1>2
<1>4. (n + h) % Range = n + h
  BY <1>1, <1>3, SmallMod
<1> QED
  BY <1>2, <1>4 DEF Wrap, h

Read(t) == IF t = UnixEpoch THEN 0 ELSE t

(* An instant that can be encoded comes back, the epoch as no instant.     *)
LEMMA ThereAndBack ==
    ASSUME NEW t \in Nat, Encodable(t)
    PROVE  unixNanoOrZero(t) >= 0 /\ There(t) = Read(t)
<1>1. CASE t = 0
  BY <1>1, InstantsAssumption DEF unixNanoOrZero, timeFromUnixNano, There, Read
<1>2. CASE t # 0
  <2>1. UnixEpoch \in Nat \ {0} /\ Range \div 2 \in Nat
    BY InstantsAssumption, EvenHalves
  <2> DEFINE h == Range \div 2
  <2>2. h \in Nat /\ UnixEpoch <= t /\ t < UnixEpoch + h
    BY <1>2, <2>1 DEF Encodable
  <2>3. Wrap(t - UnixEpoch) = t - UnixEpoch
    <3>1. t - UnixEpoch \in 0 .. h - 1
      <4> HIDE DEF h
      <4> QED
        BY <2>1, <2>2
    <3> QED
      BY <3>1, WrapKeeps
  <2> QED
    BY <1>2, <2>1, <2>2, <2>3 DEF unixNanoOrZero, timeFromUnixNano, There, Read
<1> QED
  BY <1>1, <1>2

-----------------------------------------------------------------------------
(* References.                                                             *)

(* What Project returns.                                                   *)
LEMMA ProjectIs ==
    ASSUME NEW r, NEW stability \in Stabilities, NEW timestamp
    PROVE  LET ref == Project(r, [Stability |-> stability, Timestamp |-> timestamp])
           IN  /\ ref = [Stability |-> ref.Stability, Record |-> Normalized(r),
                         Timestamp |-> RefTimestamp(r, timestamp)]
               /\ ref.Stability \in Stabilities \ {Unset}
               /\ stability # Unset => ref.Stability = stability
<1> DEFINE options == [Stability |-> stability, Timestamp |-> timestamp]
           S == IF stability = Unset THEN "stable" ELSE stability
<1>1. S \in Stabilities \ {Unset} /\ (stability # Unset => S = stability)
  <2>1. "stable" # Unset
    BY Zenon DEF Unset
  <2> QED
    BY <2>1 DEF Stabilities
<1>2. Project(r, options) = [Stability |-> S, Record |-> Normalized(r),
                             Timestamp |-> RefTimestamp(r, timestamp)]
  BY DEF Project
<1> HIDE DEF S
<1> QED
  BY <1>1, <1>2

(* The reference the sender projected.                                     *)
LEMMA ProjectRefOf ==
    ASSUME NEW r, NEW stability \in Stabilities, NEW timestamp
    PROVE  RefOf(r, Project(r, [Stability |-> stability, Timestamp |-> timestamp]))
<1> DEFINE ref == Project(r, [Stability |-> stability, Timestamp |-> timestamp])
<1>1. /\ ref = [Stability |-> ref.Stability, Record |-> Normalized(r),
                Timestamp |-> RefTimestamp(r, timestamp)]
      /\ ref.Stability \in Stabilities \ {Unset}
  BY ProjectIs
<1> HIDE DEF ref
<1>2. ref.Timestamp = RefTimestamp(r, timestamp)
  BY <1>1
<1>3. RefOf(r, ref)
  BY <1>1, <1>2 DEF RefOf
<1> QED
  BY <1>3 DEF ref

(* The heart of the matter: projected again from what arrived, with the    *)
(* stability and the timestamp the sent reference names, the reference is  *)
(* the one that was sent exactly when the record is the one it was made of.*)
LEMMA ProjectedAgain ==
    ASSUME NEW o, IsRecord(o), NEW ref, RefOf(o, ref),
           NEW z, NEW a, NEW b, NEW c, NEW r, r = With(o, z, a, b, c)
    PROVE  LET made == Project(r, [Stability |-> ref.Stability,
                                   Timestamp |-> ref.Timestamp])
           IN  /\ made.Stability \in Stabilities \ {Unset}
               /\ made = ref <=> SameEvent(r, o)
<1> DEFINE made == Project(r, [Stability |-> ref.Stability,
                               Timestamp |-> ref.Timestamp])
           T == RefTimestamp(r, ref.Timestamp)
<1>1. /\ ref = [Stability |-> ref.Stability, Record |-> Normalized(o),
                Timestamp |-> ref.Timestamp]
      /\ ref.Stability \in Stabilities \ {Unset}
  BY DEF RefOf
<1>2. PICK timestamp : ref.Timestamp = RefTimestamp(o, timestamp)
  BY DEF RefOf
<1>3. /\ made = [Stability |-> ref.Stability, Record |-> Normalized(r), Timestamp |-> T]
      /\ made.Stability \in Stabilities \ {Unset}
  <2>1. ref.Stability \in Stabilities /\ ref.Stability # Unset
    BY <1>1
  <2> QED
    BY <2>1, ProjectIs
<1> HIDE DEF made
<1>4. Normalized(r) = Normalized(o) <=> SameEvent(r, o)
  BY DEF Normalized, SameEvent
<1>5. ASSUME SameEvent(r, o) PROVE T = ref.Timestamp
  <2>1. r.StartedAt = o.StartedAt /\ r.FinishedAt = o.FinishedAt
          /\ r.ObservedAt = o.ObservedAt
    BY <1>5, SameEventInstants, WithFields
  <2> QED
    BY <1>2, <2>1 DEF RefTimestamp, FirstSet
<1>6. made = ref <=> Normalized(r) = Normalized(o) /\ T = ref.Timestamp
  <2> DEFINE N == Normalized(r)
             M == Normalized(o)
             S == ref.Stability
             U == ref.Timestamp
  <2>1. made = [Stability |-> S, Record |-> N, Timestamp |-> T]
    BY <1>3
  <2>2. ref = [Stability |-> S, Record |-> M, Timestamp |-> U]
    BY <1>1
  <2> HIDE DEF N, M, S, T, U
  <2>3. made = ref <=> N = M /\ T = U
    BY <2>1, <2>2
  <2> QED
    BY <2>3 DEF N, M, U
<1>7. made = ref <=> SameEvent(r, o)
  BY <1>4, <1>5, <1>6
<1> QED
  BY <1>3, <1>7 DEF made

-----------------------------------------------------------------------------
(* The steps.                                                              *)

(* Recording keeps the invariant: the message is made from a record that   *)
(* validated.                                                              *)
LEMMA RecordKeepsIInv ==
    ASSUME IInv, NEW r \in Records, NEW stability \in Stabilities, NEW timestamp,
           Record(r, [Stability |-> stability, Timestamp |-> timestamp])
    PROVE  IInv'
<1> DEFINE ref == Project(r, [Stability |-> stability, Timestamp |-> timestamp])
<1>1. RefOf(r, ref)
  BY ProjectRefOf
<1>2. /\ ValidateNetworkAudit(r)
      /\ outbox' = outbox \cup {[wire |-> ToProto(r), unknown |-> "no", ref |-> ref,
                                 origin |-> r]}
      /\ stored' = stored
  BY DEF Record
<1> HIDE DEF ref
<1>3. MessagesMade'
  BY <1>1, <1>2 DEF IInv, MessagesMade, IsMessage
<1>4. StoredTold'
  BY <1>2 DEF IInv, StoredTold
<1> QED
  BY <1>3, <1>4 DEF IInv

(* A field that another schema adds on the way says nothing about the      *)
(* record.                                                                 *)
LEMMA ExtendKeepsIInv ==
    ASSUME IInv, NEW m \in outbox, NEW where \in {"record", "nested"}, Extend(m, where)
    PROVE  IInv'
<1>1. PICK n : n = [m EXCEPT !.unknown = where]
  OBVIOUS
<1>2. outbox' = outbox \cup {n} /\ stored' = stored
  BY <1>1 DEF Extend
<1>3. n = [wire |-> m.wire, unknown |-> where, ref |-> m.ref, origin |-> m.origin]
  BY <1>1 DEF IInv, MessagesMade, IsMessage
<1>4. MessagesMade'
  BY <1>2, <1>3 DEF IInv, MessagesMade, IsMessage
<1>5. StoredTold'
  BY <1>2 DEF IInv, StoredTold
<1> QED
  BY <1>4, <1>5 DEF IInv

(* Receiving keeps the invariant: what is stored is what the message       *)
(* decodes to.                                                             *)
LEMMA ReceiveKeepsIInv ==
    ASSUME IInv, NEW m \in outbox, Receive(m)
    PROVE  IInv'
<1> DEFINE r == Decoded(m.wire)
           made == Project(r, [Stability |-> m.ref.Stability,
                               Timestamp |-> m.ref.Timestamp])
<1>1. /\ stored' = stored \cup {[record |-> r, sent |-> m.ref, origin |-> m.origin,
                                 made |-> made]}
      /\ outbox' = outbox
      /\ ValidateNetworkAudit(r)
  BY DEF Receive, Accepts, FromProto
<1>2. m.origin \in Records /\ m.wire = ToProto(m.origin) /\ RefOf(m.origin, m.ref)
  BY DEF IInv, MessagesMade
<1>3. IsRecord(m.origin)
  BY <1>2, RecordsAssumption
<1>4. r = With(m.origin, "utc", There(m.origin.StartedAt),
               There(m.origin.FinishedAt), There(m.origin.ObservedAt))
  BY <1>2, <1>3, WireOf
<1>5. r.zone = "utc"
  BY <1>4, WithFields
<1>6. /\ made.Stability \in Stabilities \ {Unset}
      /\ made = m.ref <=> SameEvent(r, m.origin)
  <2> HIDE DEF r
  <2> QED
    BY <1>2, <1>3, <1>4, ProjectedAgain
<1> HIDE DEF r, made
<1>7. StoredTold'
  BY <1>1, <1>5, <1>6 DEF IInv, StoredTold
<1>8. MessagesMade'
  BY <1>1 DEF IInv, MessagesMade
<1> QED
  BY <1>7, <1>8 DEF IInv

(* Taking over a record from before the schema keeps the invariant: what   *)
(* classification lets through validates.                                  *)
LEMMA ImportKeepsIInv ==
    ASSUME IInv, NEW doc, NEW counter, Import(doc, counter)
    PROVE  IInv'
<1> DEFINE destination == ProjectNetworkAuditDestination(doc.destination)
           labels == StringLabels(doc.labels)
           usage == [Counter |-> counter, LimitHit |-> Unset]
           r == [wellFormed |-> TRUE, zone |-> "utc", Destination |-> destination,
                 ResourceUsage |-> usage, Labels |-> labels,
                 StartedAt |-> 0, FinishedAt |-> 0, ObservedAt |-> 0]
           made == Project(r, [Stability |-> Unset, Timestamp |-> 0])
<1>1. /\ stored' = stored \cup {[record |-> r, sent |-> NoRef, origin |-> r,
                                 made |-> made]}
      /\ outbox' = outbox
      /\ validNetworkAuditDestination(destination)
      /\ validateNetworkAuditLabels(labels)
      /\ counter >= 0
  BY DEF Import, ClassifyLegacyNetworkAuditRecord
<1>2. made.Stability \in Stabilities \ {Unset}
  <2>1. Unset \in Stabilities
    BY DEF Stabilities
  <2> HIDE DEF r
  <2> QED
    BY <2>1, ProjectIs
<1>3. ValidateNetworkAudit(r) /\ r.zone = "utc"
  <2>1. ValidUsage(usage)
    BY <1>1 DEF ValidUsage
  <2> HIDE DEF destination, labels, usage
  <2>2. InOrder(r.StartedAt, r.FinishedAt) /\ InOrder(r.FinishedAt, r.ObservedAt)
    BY DEF InOrder
  <2> QED
    BY <1>1, <2>1, <2>2 DEF ValidateNetworkAudit
<1> HIDE DEF r, made
<1>4. StoredTold'
  BY <1>1, <1>2, <1>3 DEF IInv, StoredTold
<1>5. MessagesMade'
  BY <1>1 DEF IInv, MessagesMade
<1> QED
  BY <1>4, <1>5 DEF IInv

(* Every message is the wire form of a validated record with its own       *)
(* reference, and every reference tells what arrived.                      *)
THEOREM IInvHolds == Spec => []IInv
<1>1. Init => IInv
  BY DEF Init, IInv, MessagesMade, StoredTold
<1>2. IInv /\ [Next]_vars => IInv'
  <2> SUFFICES ASSUME IInv, [Next]_vars PROVE IInv'
    OBVIOUS
  <2>1. CASE UNCHANGED vars
    BY <2>1 DEF vars, IInv, MessagesMade, StoredTold
  <2>2. ASSUME NEW r \in Records, NEW stability \in Stabilities,
               NEW timestamp \in Overrides,
               Record(r, [Stability |-> stability, Timestamp |-> timestamp])
        PROVE  IInv'
    BY <2>2, RecordKeepsIInv
  <2>3. ASSUME NEW m \in outbox, NEW where \in {"record", "nested"}, Extend(m, where)
        PROVE  IInv'
    BY <2>3, ExtendKeepsIInv
  <2>4. ASSUME NEW m \in outbox, Receive(m) PROVE IInv'
    BY <2>4, ReceiveKeepsIInv
  <2>5. ASSUME NEW doc \in LegacyDocs, NEW counter \in legacyInt64(doc.counter),
               Import(doc, counter)
        PROVE  IInv'
    BY <2>5, ImportKeepsIInv
  <2> QED
    BY <2>1, <2>2, <2>3, <2>4, <2>5, Zenon DEF Next
<1> QED
  BY <1>1, <1>2, PTL DEF Spec

-----------------------------------------------------------------------------
(* What follows.                                                           *)

(* Every record the collector holds validates, those from before the       *)
(* schema on the word of ClassifyLegacyNetworkAuditRecord included.        *)
THEOREM TypeCorrect == Spec => []TypeOK
<1>1. IInv => TypeOK
  <2> SUFFICES ASSUME IInv PROVE TypeOK
    OBVIOUS
  <2>1. ASSUME NEW m \in outbox
        PROVE  /\ m.unknown \in {"no", "record", "nested"}
               /\ m.origin \in Records
               /\ m.ref.Stability \in Stabilities \ {Unset}
    BY <2>1 DEF IInv, MessagesMade, RefOf
  <2>2. ASSUME NEW m \in outbox PROVE m.wire.zone = "none"
    <3>1. m.wire = ToProto(m.origin) /\ IsRecord(m.origin)
      BY <2>2, RecordsAssumption DEF IInv, MessagesMade
    <3> QED
      BY <3>1, WireOf, WithFields
  <2> QED
    BY <2>1, <2>2 DEF IInv, StoredTold, TypeOK
<1> QED
  BY <1>1, IInvHolds, PTL

(* The reference the collector projects is the one sent exactly when the   *)
(* record arrived as it was made; two references sent are equal exactly    *)
(* when they are of the same event with the same options.                  *)
THEOREM RefsTell == Spec => []RefsTellWhatArrived
<1>1. IInv => RefsTellWhatArrived
  <2> SUFFICES ASSUME IInv PROVE RefsTellWhatArrived
    OBVIOUS
  <2>1. ASSUME NEW m \in outbox, NEW n \in outbox
        PROVE  m.ref = n.ref <=> /\ SameEvent(m.origin, n.origin)
                                 /\ m.ref.Stability = n.ref.Stability
                                 /\ m.ref.Timestamp = n.ref.Timestamp
    <3>1. /\ m.ref = [Stability |-> m.ref.Stability, Record |-> Normalized(m.origin),
                      Timestamp |-> m.ref.Timestamp]
          /\ n.ref = [Stability |-> n.ref.Stability, Record |-> Normalized(n.origin),
                      Timestamp |-> n.ref.Timestamp]
      BY <2>1 DEF IInv, MessagesMade, RefOf
    <3>2. Normalized(m.origin) = Normalized(n.origin) <=> SameEvent(m.origin, n.origin)
      BY DEF Normalized, SameEvent
    <3>3. m.ref.Record = Normalized(m.origin) /\ n.ref.Record = Normalized(n.origin)
      BY <3>1
    <3> QED
      BY <3>1, <3>2, <3>3
  <2>2. \A s \in stored : s.sent # NoRef =>
            (s.made = s.sent <=> SameEvent(s.record, s.origin))
    BY DEF IInv, StoredTold
  <2> QED
    BY <2>1, <2>2 DEF RefsTellWhatArrived
<1> QED
  BY <1>1, IInvHolds, PTL

(* What a host records arrives: whatever the width of the counts, a        *)
(* message of this schema whose instants have a count is accepted, with    *)
(* every instant in its own place.                                         *)
THEOREM HonestArrive == Spec => []HonestArriveWhole
<1>1. IInv => HonestArriveWhole
  <2> SUFFICES ASSUME IInv, NEW m \in outbox, NEW o, o = m.origin,
                      NEW r, r = Decoded(m.wire)
               PROVE  /\ m.unknown = "no" /\ (\A t \in InstantsOf(o) : Encodable(t)) =>
                            /\ Accepts(m)
                            /\ SameEvent(r, [o EXCEPT !.StartedAt = Read(@),
                                                      !.FinishedAt = Read(@),
                                                      !.ObservedAt = Read(@)])
                      /\ (\E t \in InstantsOf(o) : t # 0 /\ Wrap(t - UnixEpoch) < 0) =>
                            ~Accepts(m)
    BY DEF HonestArriveWhole, Read
  <2>1. o \in Records /\ IsRecord(o) /\ m.wire = ToProto(o) /\ ValidateNetworkAudit(o)
    BY RecordsAssumption DEF IInv, MessagesMade
  <2>2. o.StartedAt \in Nat /\ o.FinishedAt \in Nat /\ o.ObservedAt \in Nat
    BY <2>1 DEF IsRecord
  <2>3. /\ m.wire.StartedAt = unixNanoOrZero(o.StartedAt)
        /\ m.wire.FinishedAt = unixNanoOrZero(o.FinishedAt)
        /\ m.wire.ObservedAt = unixNanoOrZero(o.ObservedAt)
    BY <2>1, WireOf, WithFields
  <2>4. r = With(o, "utc", There(o.StartedAt), There(o.FinishedAt), There(o.ObservedAt))
    BY <2>1, WireOf
  <2>5. ASSUME m.unknown = "no", \A t \in InstantsOf(o) : Encodable(t)
        PROVE  /\ Accepts(m)
               /\ SameEvent(r, [o EXCEPT !.StartedAt = Read(@), !.FinishedAt = Read(@),
                                         !.ObservedAt = Read(@)])
    <3>1. /\ Encodable(o.StartedAt) /\ Encodable(o.FinishedAt)
          /\ Encodable(o.ObservedAt)
      BY <2>5 DEF InstantsOf
    <3>2. /\ m.wire.StartedAt >= 0 /\ m.wire.FinishedAt >= 0 /\ m.wire.ObservedAt >= 0
          /\ There(o.StartedAt) = Read(o.StartedAt)
          /\ There(o.FinishedAt) = Read(o.FinishedAt)
          /\ There(o.ObservedAt) = Read(o.ObservedAt)
      BY <2>2, <2>3, <3>1, ThereAndBack
    <3>3. /\ r.wellFormed = o.wellFormed /\ r.Destination = o.Destination
          /\ r.ResourceUsage = o.ResourceUsage /\ r.Labels = o.Labels
          /\ r.StartedAt = Read(o.StartedAt) /\ r.FinishedAt = Read(o.FinishedAt)
          /\ r.ObservedAt = Read(o.ObservedAt)
      BY <2>4, <3>2, WithFields
    <3>4. /\ InOrder(Read(o.StartedAt), Read(o.FinishedAt))
          /\ InOrder(Read(o.FinishedAt), Read(o.ObservedAt))
      BY <2>1, <2>2, <3>1, InstantsAssumption
      DEF ValidateNetworkAudit, InOrder, Read
    <3>5. ValidateNetworkAudit(r)
      BY <2>1, <3>3, <3>4 DEF ValidateNetworkAudit
    <3>6. Accepts(m)
      BY <2>5, <3>2, <3>5 DEF Accepts, UnmarshalStrict, FromProto
    <3> DEFINE a == Read(o.StartedAt)
               b == Read(o.FinishedAt)
               c == Read(o.ObservedAt)
    <3>7. PICK p : p = Restamped(o, a, b, c)
      OBVIOUS
    <3>8. p = With(o, o.zone, a, b, c) /\ r = With(o, "utc", a, b, c)
      <4> HIDE DEF a, b, c
      <4>1. p = With(o, o.zone, a, b, c)
        BY <2>1, <3>7, RecordIsWith, Replaced
      <4>2. r = With(o, "utc", a, b, c)
        BY <2>4, <3>2 DEF a, b, c
      <4> QED
        BY <4>1, <4>2
    <3>9. SameEvent(r, p)
      <4> HIDE DEF a, b, c
      <4>1. Rezoned(r, "utc") = With(o, "utc", a, b, c)
              /\ Rezoned(p, "utc") = With(o, "utc", a, b, c)
        BY <3>8, Replaced
      <4> QED
        BY <4>1 DEF SameEvent, Rezoned
    <3> QED
      BY <3>6, <3>7, <3>9 DEF Restamped
  <2>6. ASSUME NEW t \in InstantsOf(o), t # 0, Wrap(t - UnixEpoch) < 0
        PROVE  ~Accepts(m)
    <3>1. \/ m.wire.StartedAt = Wrap(t - UnixEpoch)
          \/ m.wire.FinishedAt = Wrap(t - UnixEpoch)
          \/ m.wire.ObservedAt = Wrap(t - UnixEpoch)
      BY <2>3, <2>6 DEF InstantsOf, unixNanoOrZero
    <3>2. Wrap(t - UnixEpoch) \in Int
      <4>1. t \in Nat /\ UnixEpoch \in Nat /\ Range \in Nat \ {0} /\ Range \div 2 \in Nat
        BY <2>2, <2>6, InstantsAssumption, EvenHalves DEF InstantsOf
      <4> QED
        BY <4>1 DEF Wrap
    <3> QED
      BY <2>6, <3>1, <3>2 DEF Accepts, FromProto
  <2> QED
    BY <2>5, <2>6
<1> QED
  BY <1>1, IInvHolds, PTL
=============================================================================
