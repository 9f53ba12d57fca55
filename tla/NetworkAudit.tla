---------------------------- MODULE NetworkAudit ----------------------------
(***************************************************************************)
(* Network audit of protocol/types.go: a host records what a leased task   *)
(* did on the network, projects a keyed reference of the record, and sends *)
(* both; a collector that holds the key decodes the record strictly,       *)
(* validates it and projects the reference again.  Records written before  *)
(* the schema are classified before they are taken over.  The transport,   *)
(* which may lose, repeat and reorder messages, the store of the collector *)
(* and senders of a newer schema are external.                             *)
(*                                                                         *)
(* Data: a destination's value is its scheme and whether the rest of it is *)
(* clean; names that validateIdentifier refuses are in BadNames; one       *)
(* counter stands for the seven of ResourceUsage, with its width; zone is  *)
(* the location the instants are written in; wellFormed stands for the     *)
(* protocol version, the identifiers and the provider evidence.            *)
(***************************************************************************)
EXTENDS Instants, FiniteSets

CONSTANTS
    Records,     \* what hosts may record
    Overrides,   \* timestamps a host may ask a reference to be made for
    LegacyDocs,  \* records from before the schema
    BadNames,    \* label keys and values the validators refuse
    NetworkAuditMaxLabels,
    NotString,   \* a JSON value that is not a string
    NoRef,       \* the reference of a record that came without one
    MaxMessages, \* bound on the messages sent
    MaxStored    \* bound on the records the collector takes

VARIABLES
    outbox,  \* messages sent: delivered any number of times, in any order
    stored   \* records the collector took, with the references sent and made

vars == <<outbox, stored>>

ASSUME AuditAssumption ==
    NetworkAuditMaxLabels \in Nat /\ MaxMessages \in Nat /\ MaxStored \in Nat

(* What a host records has the fields of a record; an instant is a number. *)
IsRecord(r) ==
    /\ r = [wellFormed |-> r.wellFormed, zone |-> r.zone,
            Destination |-> r.Destination, ResourceUsage |-> r.ResourceUsage,
            Labels |-> r.Labels, StartedAt |-> r.StartedAt,
            FinishedAt |-> r.FinishedAt, ObservedAt |-> r.ObservedAt]
    /\ r.StartedAt \in Nat /\ r.FinishedAt \in Nat /\ r.ObservedAt \in Nat

ASSUME RecordsAssumption == \A r \in Records : IsRecord(r)

Unset == ""

-----------------------------------------------------------------------------
(* Validation.                                                             *)

Kinds == {"endpoint", "sha256", "artifact", "network-lifecycle"}

SchemesOf(kind) ==
    CASE kind = "endpoint" -> {"http", "https", "tcp", "udp"}
      [] kind \in Kinds \ {"endpoint"} -> {kind}
      [] OTHER -> {}

validNetworkAuditDestination(d) ==
    d.Value.clean /\ d.Value.scheme \in SchemesOf(d.Kind)

ProjectNetworkAuditDestination(raw) ==
    [Kind |-> IF raw.scheme \in Kinds \ {"endpoint"} THEN raw.scheme ELSE "endpoint",
     Value |-> raw]

ProjectNetworkAuditLifecycle(lease, event) ==
    [Kind |-> "network-lifecycle",
     Value |-> [scheme |-> "network-lifecycle",
                clean |-> lease \notin BadNames /\ event \notin BadNames]]

ValidUsage(usage) ==
    usage.Counter >= 0 /\ (usage.LimitHit = Unset \/ usage.LimitHit \notin BadNames)

validateNetworkAuditLabels(labels) ==
    /\ Cardinality(DOMAIN labels) <= NetworkAuditMaxLabels
    /\ \A key \in DOMAIN labels : key \notin BadNames /\ labels[key] \notin BadNames

(* Two instants that are there are in order.                               *)
InOrder(t, u) == t = 0 \/ u = 0 \/ t <= u

ValidateNetworkAudit(r) ==
    /\ r.wellFormed
    /\ validNetworkAuditDestination(r.Destination)
    /\ ValidUsage(r.ResourceUsage)
    /\ validateNetworkAuditLabels(r.Labels)
    /\ InOrder(r.StartedAt, r.FinishedAt)
    /\ InOrder(r.FinishedAt, r.ObservedAt)

-----------------------------------------------------------------------------
(* References.  The keyed digest is symbolic: the reference is the fields  *)
(* it is computed over, each under the text it is written with.            *)

(* A slip: the timestamp falls back before the record's own zone is set    *)
(* aside, and the record is hashed as it is written.                       *)
Normalized_TimestampOnly(r) == r

Normalized(r) == [r EXCEPT !.zone = "utc"]

Stabilities == {Unset, "stable", "ephemeral"}

FirstSet(t, u) == IF t # 0 THEN t ELSE u

RefTimestamp(r, timestamp) ==
    FirstSet(timestamp, FirstSet(r.StartedAt, FirstSet(r.ObservedAt, r.FinishedAt)))

Project(r, options) ==
    [Stability |-> IF options.Stability = Unset THEN "stable" ELSE options.Stability,
     Record |-> Normalized(r),
     Timestamp |-> RefTimestamp(r, options.Timestamp)]

-----------------------------------------------------------------------------
(* The wire.                                                               *)

(* A slip: two instants are swapped.                                       *)
ToProto_Swapped(r) ==
    [r EXCEPT !.StartedAt = unixNanoOrZero(r.StartedAt),
              !.FinishedAt = unixNanoOrZero(r.ObservedAt),
              !.ObservedAt = unixNanoOrZero(r.FinishedAt),
              !.zone = "none"]

ToProto(r) ==
    [r EXCEPT !.StartedAt = unixNanoOrZero(@),
              !.FinishedAt = unixNanoOrZero(@),
              !.ObservedAt = unixNanoOrZero(@),
              !.zone = "none"]

Decoded(w) ==
    [w EXCEPT !.StartedAt = timeFromUnixNano(@),
              !.FinishedAt = timeFromUnixNano(@),
              !.ObservedAt = timeFromUnixNano(@),
              !.zone = "utc"]

(* NetworkAuditRecordFromProto returns Decoded(w) and no error.            *)
FromProto(w) ==
    /\ w.StartedAt >= 0 /\ w.FinishedAt >= 0 /\ w.ObservedAt >= 0
    /\ ValidateNetworkAudit(Decoded(w))

(* The bytes hold no field the schema does not have, at any depth.         *)
UnmarshalStrict(m) == m.unknown = "no"

Accepts(m) == UnmarshalStrict(m) /\ FromProto(m.wire)

-----------------------------------------------------------------------------
(* Records from before the schema, as decoded JSON.  A number is its form  *)
(* and twice its value, so that it may be fractional; a float that does    *)
(* not fit converts to what the processor makes of it.                     *)

Largest == Range \div 2 - 1
Least == -(Range \div 2)

Fits(n) == Least <= n /\ n <= Largest

Truncated(twice) == IF twice >= 0 THEN twice \div 2 ELSE -((-twice) \div 2)

legacyInt64(v) ==
    CASE v.form = "int" -> {v.twice \div 2}
      [] v.form = "float64" /\ Fits(Truncated(v.twice)) -> {Truncated(v.twice)}
      [] v.form = "float64" -> {Least, IF v.twice > 0 THEN Largest ELSE Least}
      [] v.form = "number" /\ v.twice % 2 # 0 -> {0}
      [] v.form = "number" /\ Fits(v.twice \div 2) -> {v.twice \div 2}
      [] v.form = "number" -> {IF v.twice > 0 THEN Largest ELSE Least}
      [] OTHER -> {0}

StringLabels(labels) ==
    [key \in {k \in DOMAIN labels : labels[k] # NotString} |-> labels[key]]

(* A slip: labels whose value is not a string are passed over.             *)
ClassifyLegacyNetworkAuditRecord_SkipsLabels(doc, counter) ==
    /\ doc.destination # NotString =>
           validNetworkAuditDestination(ProjectNetworkAuditDestination(doc.destination))
    /\ counter >= 0

(* No finding, where counter is what legacyInt64 made of the number.  A    *)
(* destination that is not a string is not classified.                     *)
ClassifyLegacyNetworkAuditRecord(doc, counter) ==
    /\ doc.destination # NotString =>
           validNetworkAuditDestination(ProjectNetworkAuditDestination(doc.destination))
    /\ \A key \in DOMAIN doc.labels : doc.labels[key] # NotString
    /\ validateNetworkAuditLabels(StringLabels(doc.labels))
    /\ counter >= 0

-----------------------------------------------------------------------------
(* The state machine.  origin is what the host recorded; no action reads   *)
(* it.                                                                     *)

Init == outbox = {} /\ stored = {}

(* A host projects the reference of a record it made, and sends both; a    *)
(* record that does not validate has no reference and is not sent.         *)
Record(r, options) ==
    /\ Cardinality(outbox) < MaxMessages
    /\ ValidateNetworkAudit(r)
    /\ outbox' = outbox \cup
           {[wire |-> ToProto(r), unknown |-> "no", ref |-> Project(r, options),
             origin |-> r]}
    /\ UNCHANGED stored

(* A sender of a newer schema fills fields this one does not know, in the  *)
(* record or in a message inside it.                                       *)
Extend(m, where) ==
    /\ Cardinality(outbox) < MaxMessages
    /\ m.unknown = "no"
    /\ outbox' = outbox \cup {[m EXCEPT !.unknown = where]}
    /\ UNCHANGED stored

(* The collector decodes a message and projects the reference again, with  *)
(* the stability and the timestamp the sent one names.                     *)
Receive(m) ==
    /\ Accepts(m)
    /\ LET r == Decoded(m.wire)
       IN  stored' = stored \cup
               {[record |-> r, sent |-> m.ref, origin |-> m.origin,
                 made |-> Project(r, [Stability |-> m.ref.Stability,
                                      Timestamp |-> m.ref.Timestamp])]}
    /\ Cardinality(stored') <= MaxStored
    /\ UNCHANGED outbox

(* A record from before the schema for which there is no finding and whose *)
(* destination is a string is taken over as it is.                         *)
Import(doc, counter) ==
    /\ doc.destination # NotString
    /\ ClassifyLegacyNetworkAuditRecord(doc, counter)
    /\ LET r == [wellFormed |-> TRUE, zone |-> "utc",
                 Destination |-> ProjectNetworkAuditDestination(doc.destination),
                 ResourceUsage |-> [Counter |-> counter, LimitHit |-> Unset],
                 Labels |-> StringLabels(doc.labels),
                 StartedAt |-> 0, FinishedAt |-> 0, ObservedAt |-> 0]
       IN  stored' = stored \cup
               {[record |-> r, sent |-> NoRef, origin |-> r,
                 made |-> Project(r, [Stability |-> Unset, Timestamp |-> 0])]}
    /\ Cardinality(stored') <= MaxStored
    /\ UNCHANGED outbox

Next ==
    \/ \E r \in Records, stability \in Stabilities, timestamp \in Overrides :
          Record(r, [Stability |-> stability, Timestamp |-> timestamp])
    \/ \E m \in outbox, where \in {"record", "nested"} : Extend(m, where)
    \/ \E m \in outbox : Receive(m)
    \/ \E doc \in LegacyDocs : \E counter \in legacyInt64(doc.counter) :
          Import(doc, counter)

Spec == Init /\ [][Next]_vars

-----------------------------------------------------------------------------
(* Properties.                                                             *)

(* Messages hold a wire record and a reference of a known stability; every *)
(* record the collector holds validates, those it took over from before    *)
(* the schema on the word of ClassifyLegacyNetworkAuditRecord included.    *)
TypeOK ==
    /\ \A m \in outbox :
           /\ m.unknown \in {"no", "record", "nested"}
           /\ m.origin \in Records
           /\ m.ref.Stability \in Stabilities \ {Unset}
           /\ m.wire.zone = "none"
    /\ \A s \in stored :
           /\ ValidateNetworkAudit(s.record)
           /\ s.record.zone = "utc"
           /\ s.made.Stability \in Stabilities \ {Unset}

InstantsOf(r) == {r.StartedAt, r.FinishedAt, r.ObservedAt}

SameEvent(r, s) == [r EXCEPT !.zone = "utc"] = [s EXCEPT !.zone = "utc"]

(* The reference a collector projects is the one that was sent exactly     *)
(* when the record arrived as the host made it, zone aside: whatever       *)
(* unixNanoOrZero wraps or loses and is accepted all the same, Project     *)
(* shows, and a record written in another zone or sent again it does not   *)
(* show as another.                                                        *)
RefsTellWhatArrived ==
    /\ \A s \in stored : s.sent # NoRef =>
           (s.made = s.sent <=> SameEvent(s.record, s.origin))
    /\ \A m, n \in outbox :
           m.ref = n.ref <=> /\ SameEvent(m.origin, n.origin)
                             /\ m.ref.Stability = n.ref.Stability
                             /\ m.ref.Timestamp = n.ref.Timestamp

(* What a host records arrives: a message of this schema whose instants    *)
(* have a count is accepted by FromProto, with every instant in its own    *)
(* place and only the epoch read as no instant at all.  A record with an   *)
(* instant whose count is negative is never accepted.                      *)
HonestArriveWhole ==
    \A m \in outbox :
        LET o == m.origin
            r == Decoded(m.wire)
            Read(t) == IF t = UnixEpoch THEN 0 ELSE t
        IN  /\ m.unknown = "no" /\ (\A t \in InstantsOf(o) : Encodable(t)) =>
                   /\ Accepts(m)
                   /\ SameEvent(r, [o EXCEPT !.StartedAt = Read(@),
                                             !.FinishedAt = Read(@),
                                             !.ObservedAt = Read(@)])
            /\ (\E t \in InstantsOf(o) : t # 0 /\ Wrap(t - UnixEpoch) < 0) =>
                   ~Accepts(m)
=============================================================================
