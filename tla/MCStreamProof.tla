---------------------------- MODULE MCStreamProof ----------------------------
(* Instances of StreamProof for TLC.                                       *)
EXTENDS StreamProof

Seg(took, ms, bytes, sha, provenance) ==
    [Took |-> took, DurationMS |-> ms, Bytes |-> bytes, SHA256 |-> sha,
     Provenance |-> provenance]

(* A true duration and two false ones: with Half = 16 and Milli = 2 a      *)
(* segment of 15 milliseconds overflows by itself, to -2, and segments of  *)
(* 6 milliseconds when they are added up.                                  *)
MeasuredSegment == {Seg(2, 1, 7, "h1", "host-verified")}
VaryingSegments ==
    {Seg(2, ms, 7, "h1", "attested") : ms \in {1, 6, 15}}
TwoSegments == {Seg(2, 1, 7, "h1", "host-verified"), Seg(2, 1, 3, "h2", "attested")}

(* With these segments instead of MeasuredSegment, an honest start of 20   *)
(* and a window of 2, MCStreamZeroStart finds ReflectionWithinWindow       *)
(* violated by an overflow.                                                *)
LongSegments == {Seg(2, 15, 7, "h1", "host-verified")}

Receipt(first, last, bytes, sha) ==
    [SeqStart |-> first, SeqEnd |-> last, Bytes |-> bytes, SHA256 |-> sha]

(* Honest receipts, an oversized claim, a wrong hash and a range; three    *)
(* deliveries of 7 bytes are too many for a signed integer below 16.       *)
SomeReceipts ==
    { Receipt(1, 1, 7, "h1"), Receipt(2, 2, 9, "h1"), Receipt(2, 2, 3, "h2"),
      Receipt(1, 2, 10, "h1") }

AllSegments == MeasuredSegment \cup VaryingSegments \cup TwoSegments
StreamedFrom(drafts) ==
    \A pos \in DOMAIN manifest.Segments :
        \E d \in drafts : /\ manifest.Segments[pos].DurationMS = d.DurationMS
                         /\ manifest.Segments[pos].SHA256 = d.SHA256
                         /\ manifest.Segments[pos].Provenance = d.Provenance

(* Gaps, liveness and billing are explored apart: the checks of a manifest *)
(* that concern one do not look at the other two.                          *)
OneScenario ==
    \/ /\ manifest.StartedAt = Now /\ StreamedFrom(MeasuredSegment)
       /\ issued = {} /\ manifest.LivenessNonces = {} /\ manifest.DeliveryReceipts = <<>>
    \/ /\ next = Len(manifest.Segments) + 1 /\ StreamedFrom(VaryingSegments)
       /\ manifest.Discontinuities = {} /\ manifest.DeliveryReceipts = <<>>
    \/ /\ next <= 4 /\ manifest.StartedAt = Now /\ StreamedFrom(TwoSegments)
       /\ issued = {} /\ manifest.LivenessNonces = {} /\ manifest.Discontinuities = {}
=============================================================================
