---------------------------- MODULE StreamProof ----------------------------
(***************************************************************************)
(* Stream manifests of protocol/stream_proof.go: a worker collects the     *)
(* segments it streamed, the host's liveness nonces it reflected, the      *)
(* receipts of the consumers and the gaps it admits to, and the host       *)
(* validates the receipt, verifies the manifest and bills what it credits. *)
(*                                                                         *)
(* Instants are integers of unlimited size (time.Time), durations and byte *)
(* counts 64-bit: they wrap at Half, and time.Time.Sub saturates there.    *)
(* What a segment really took, Took, and the DurationMS that is claimed for*)
(* it need not agree: no validator bounds the latter, nor started_at.      *)
(* Milli is time.Millisecond.  Hashes are symbolic; the opaque signatures, *)
(* which the host layer verifies, are left out.  Init, Next and Verify bear*)
(* Stream in their names, so that a module can extend Receipts as well.    *)
(***************************************************************************)
EXTENDS Integers, FiniteSets, SequencesExt, FiniteSetsExt

CONSTANTS
    StartTimes,      \* values of started_at a worker may report
    Now,             \* the instant the stream really starts
    SegmentDrafts,   \* time taken, duration, bytes, hash, provenance of a segment
    ReceiptDrafts,   \* the delivery receipts that consumers or workers file
    Nonces,          \* nonce values
    Milli,           \* nanoseconds in a millisecond
    Half,            \* 2^(w-1) for a signed integer of w bits
    reflectWindow,   \* the host's reflection window
    MaxIndex,        \* bound on segment indices
    MaxSegments,     \* bound on segments in a manifest
    MaxReceipts,     \* bound on delivery receipts in a manifest
    MaxMarkers       \* bound on discontinuity markers in a manifest

VARIABLES
    clock,     \* the host's clock
    next,      \* the index of the worker's next segment
    manifest,  \* the manifest the worker is collecting
    issued,    \* the host's registry: nonce value and IssuedAt
    accepted   \* manifests that validated and verified, and the registry then

streamVars == <<clock, next, manifest, issued, accepted>>

ASSUME StreamAssumption ==
    /\ Half \in Nat \ {0} /\ Milli \in Nat \ {0}
    /\ reflectWindow \in 0 .. Half - 1
    /\ {Now, MaxIndex, MaxSegments, MaxReceipts, MaxMarkers} \subseteq Nat
    /\ StartTimes \subseteq Int
    /\ \A s \in SegmentDrafts :
          s.Took \in Nat /\ {s.DurationMS, s.Bytes} \subseteq -Half .. Half - 1

-----------------------------------------------------------------------------
(* Arithmetic of time.Duration and time.Time.                              *)

Wrap(n) == ((n + Half) % (2 * Half)) - Half

(* t.Sub(u) saturates instead of wrapping.                                 *)
TimeSub(t, u) ==
    IF t - u < -Half THEN -Half
    ELSE IF t - u > Half - 1 THEN Half - 1
    ELSE t - u

(* A slip: a reflection before the nonce was issued is always in the window*)
AbsDuration_Signed(d) == d

(* d, or -d where d is negative; negating the least duration overflows.    *)
AbsDuration(d) == IF d < 0 THEN Wrap(-d) ELSE d

-----------------------------------------------------------------------------
(* The manifest.                                                           *)

Positions(m) == DOMAIN m.Segments

(* The map from index to segment: the last segment of an index wins.       *)
HasIndex(m, i) == \E pos \in Positions(m) : m.Segments[pos].Index = i
segPosition(m, i) == Max({pos \in Positions(m) : m.Segments[pos].Index = i})
segByIndex(m, i) == m.Segments[segPosition(m, i)]

(* cumDuration: the duration of the segments up to pos, in 64 bits.        *)
cumDuration(m, pos) ==
    FoldLeft(LAMBDA sum, s : Wrap(sum + Wrap(s.DurationMS * Milli)), 0,
             SubSeq(m.Segments, 1, pos))

(* A slip: a marker that starts at the gap covers it, wherever it ends.    *)
gapCovered_PrevOnly(prev, cur, markers) ==
    \E d \in markers : d.PrevSeq = prev

gapCovered(prev, cur, markers) ==
    \E d \in markers : d.PrevSeq = prev /\ d.ResumeSeq = cur

(* Indices strictly increase, and every step of more than one is marked.   *)
Continuous(m) ==
    \A pos \in 2 .. Len(m.Segments) :
        LET prev == m.Segments[pos - 1].Index
            cur  == m.Segments[pos].Index
        IN  /\ prev < cur
            /\ cur = prev + 1 \/ gapCovered(prev, cur, m.Discontinuities)

NonceReflected(m, n, registry) ==
    \E i \in registry :
        /\ i.Nonce = n.Nonce
        /\ HasIndex(m, n.ReflectedInSeq)
        /\ LET reflectionTime == m.StartedAt
                    + cumDuration(m, segPosition(m, n.ReflectedInSeq))
           IN  AbsDuration(TimeSub(reflectionTime, i.IssuedAt)) <= reflectWindow

ReceiptMatches(m, r) ==
    /\ r.SeqStart = r.SeqEnd
    /\ HasIndex(m, r.SeqStart)
    /\ segByIndex(m, r.SeqStart).SHA256 = r.SHA256

VerifyManifest(m, registry) ==
    /\ m.Segments # <<>>
    /\ Continuous(m)
    /\ \A n \in m.LivenessNonces : NonceReflected(m, n, registry)
    /\ \A k \in DOMAIN m.DeliveryReceipts : ReceiptMatches(m, m.DeliveryReceipts[k])

(* StreamReceipt.Validate; the identifiers are always there.               *)
ValidateStreamReceipt(m) == m.Segments # <<>>

(* A slip: the receipt's own byte count is credited.                       *)
VerifiedDeliveredBytes_Claimed(m) ==
    FoldLeft(LAMBDA total, r :
                IF /\ ReceiptMatches(m, r)
                   /\ segByIndex(m, r.SeqStart).Provenance = "host-verified"
                THEN Wrap(total + r.Bytes) ELSE total,
             0, m.DeliveryReceipts)

VerifiedDeliveredBytes(m) ==
    FoldLeft(LAMBDA total, r :
                IF /\ ReceiptMatches(m, r)
                   /\ segByIndex(m, r.SeqStart).Provenance = "host-verified"
                THEN Wrap(total + segByIndex(m, r.SeqStart).Bytes) ELSE total,
             0, m.DeliveryReceipts)

-----------------------------------------------------------------------------
StreamInit ==
    /\ clock = Now
    /\ next = 1
    /\ \E t \in StartTimes :
          manifest = [StartedAt |-> t, Segments |-> <<>>, LivenessNonces |-> {},
                      DeliveryReceipts |-> <<>>, Discontinuities |-> {}]
    /\ issued = {} /\ accepted = {}

(* A segment is streamed; the worker says how long that took.              *)
Stream(s) ==
    /\ next <= MaxIndex /\ Len(manifest.Segments) < MaxSegments
    /\ manifest' = [manifest EXCEPT !.Segments = Append(@,
          [Index |-> next, DurationMS |-> s.DurationMS, Bytes |-> s.Bytes,
           SHA256 |-> s.SHA256, Provenance |-> s.Provenance])]
    /\ next' = next + 1
    /\ clock' = clock + s.Took
    /\ UNCHANGED <<issued, accepted>>

(* A segment is lost before it reaches the manifest.                       *)
Drop ==
    /\ next < MaxIndex
    /\ next' = next + 1
    /\ UNCHANGED <<clock, manifest, issued, accepted>>

(* A restarted worker counts from an earlier index again.                  *)
Restart ==
    /\ next > 1
    /\ next' = next - 1
    /\ UNCHANGED <<clock, manifest, issued, accepted>>

(* The worker admits to a gap, whose ends it may get wrong.                *)
MarkGap(prev, resume) ==
    /\ prev < resume
    /\ Cardinality(manifest.Discontinuities) < MaxMarkers
    /\ manifest' = [manifest EXCEPT !.Discontinuities =
                        @ \cup {[PrevSeq |-> prev, ResumeSeq |-> resume]}]
    /\ UNCHANGED <<clock, next, issued, accepted>>

(* A slip: a nonce value is handed out again.                              *)
IssueNonce_Reuses(n) ==
    /\ issued' = issued \cup {[Nonce |-> n, IssuedAt |-> clock]}
    /\ UNCHANGED <<clock, next, manifest, accepted>>

IssueNonce(n) ==
    /\ \A i \in issued : i.Nonce # n
    /\ issued' = issued \cup {[Nonce |-> n, IssuedAt |-> clock]}
    /\ UNCHANGED <<clock, next, manifest, accepted>>

(* The worker reflects a nonce, issued or not, in a segment it names.      *)
Reflect(n, index) ==
    /\ \A r \in manifest.LivenessNonces : r.Nonce # n
    /\ manifest' = [manifest EXCEPT !.LivenessNonces =
                        @ \cup {[Nonce |-> n, ReflectedInSeq |-> index]}]
    /\ UNCHANGED <<clock, next, issued, accepted>>

(* A delivery is acknowledged, possibly twice, possibly wrongly.           *)
Deliver(r) ==
    /\ Len(manifest.DeliveryReceipts) < MaxReceipts
    /\ manifest' = [manifest EXCEPT !.DeliveryReceipts = Append(@, r)]
    /\ UNCHANGED <<clock, next, issued, accepted>>

VerifyStream ==
    /\ ValidateStreamReceipt(manifest)
    /\ VerifyManifest(manifest, issued)
    /\ accepted' = {[manifest |-> manifest, registry |-> issued,
                     billed |-> VerifiedDeliveredBytes(manifest)]}
    /\ UNCHANGED <<clock, next, manifest, issued>>

StreamNext ==
    \/ \E s \in SegmentDrafts : Stream(s)
    \/ Drop
    \/ Restart
    \/ \E prev, resume \in 1 .. MaxIndex : MarkGap(prev, resume)
    \/ \E n \in Nonces : IssueNonce(n)
    \/ \E n \in Nonces, index \in 1 .. MaxIndex : Reflect(n, index)
    \/ \E r \in ReceiptDrafts : Deliver(r)
    \/ VerifyStream

StreamSpec == StreamInit /\ [][StreamNext]_streamVars

-----------------------------------------------------------------------------
(* Properties.                                                             *)

(* Type invariant: segments keep their indices in bound, what the host     *)
(* accepted had segments, and the registry holds a nonce once.             *)
StreamTypeOK ==
    /\ next \in 1 .. MaxIndex + 1
    /\ \A pos \in Positions(manifest) : manifest.Segments[pos].Index \in 1 .. MaxIndex
    /\ \A a \in accepted : a.manifest.Segments # <<>> /\ a.billed \in -Half .. Half - 1
    /\ \A i, j \in issued : i.Nonce = j.Nonce => i = j

(* In a manifest the host accepted every index from the first to the last  *)
(* is accounted for: it is that of exactly one segment, or lies in a gap   *)
(* that a marker brackets from the segment before it to the segment after  *)
(* it, whatever was dropped, replayed or wrongly marked (VerifyManifest).  *)
ContinuityAccounted ==
    \A a \in accepted :
        LET m == a.manifest
            Indices == {m.Segments[pos].Index : pos \in Positions(m)}
        IN  /\ Cardinality(Indices) = Len(m.Segments)
            /\ \A i \in (Min(Indices) .. Max(Indices)) \ Indices :
                  \E d \in m.Discontinuities :
                      /\ d.PrevSeq < i /\ i < d.ResumeSeq
                      /\ (d.PrevSeq .. d.ResumeSeq) \cap Indices
                         = {d.PrevSeq, d.ResumeSeq}

(* What is billed for an accepted manifest is, segment by segment, the     *)
(* size the host measured times the deliveries acknowledged, and nothing   *)
(* for a segment the host did not measure, all in 64 bits: no claim of the *)
(* worker or of a consumer enters it (VerifiedDeliveredBytes).             *)
BilledAsMeasured ==
    \A a \in accepted :
        LET m == a.manifest
            Deliveries(i) == Cardinality({k \in DOMAIN m.DeliveryReceipts :
                                            m.DeliveryReceipts[k].SeqStart = i})
        IN  a.billed = Wrap(MapThenSumSet(
                LAMBDA pos : m.Segments[pos].Bytes
                             * Deliveries(m.Segments[pos].Index),
                {pos \in Positions(m) :
                    m.Segments[pos].Provenance = "host-verified"}))

(* What the segments up to an index claim to have taken, without overflow. *)
elapsed(m, index) ==
    MapThenSumSet(LAMBDA pos : m.Segments[pos].DurationMS * Milli,
                  {pos \in Positions(m) : m.Segments[pos].Index <= index})

(* "the estimated reflection time (manifest.StartedAt + cumulative         *)
(* DurationMS through the referenced segment) must be within reflectWindow *)
(* of IssuedAt": so the doc of VerifyManifest says of every nonce of a     *)
(* manifest that it accepts.                                               *)
ReflectionWithinWindow ==
    \A a \in accepted : \A n \in a.manifest.LivenessNonces :
        \E i \in a.registry :
            LET diff == a.manifest.StartedAt + elapsed(a.manifest, n.ReflectedInSeq)
                        - i.IssuedAt
            IN  i.Nonce = n.Nonce /\ diff \in -reflectWindow .. reflectWindow

(* What VerifyManifest makes sure of: a nonce was reflected within         *)
(* reflectWindow, early or late, unless the durations up to its segment    *)
(* overflow, or the manifest has it reflected so long before it was issued *)
(* that time.Time.Sub saturates or its result has no absolute value, or    *)
(* the window is the longest duration, which is what Sub saturates to.     *)
ReflectedUnlessOverflow ==
    \A a \in accepted : \A n \in a.manifest.LivenessNonces :
        \E i \in a.registry :
            LET e == elapsed(a.manifest, n.ReflectedInSeq)
                diff == a.manifest.StartedAt + e - i.IssuedAt
            IN  /\ i.Nonce = n.Nonce
                /\ \/ diff \in -reflectWindow .. reflectWindow
                   \/ e \notin -Half .. Half - 1
                   \/ diff <= -Half
                   \/ reflectWindow = Half - 1 /\ diff >= Half

=============================================================================
