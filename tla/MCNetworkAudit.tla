--------------------------- MODULE MCNetworkAudit ---------------------------
(***************************************************************************)
(* A small instance of NetworkAudit.  Eight counts of nanoseconds around   *)
(* the epoch 9: 2 is so early that its count wraps to a positive one, 7 is *)
(* before the epoch, 9 is the epoch, 10 and 11 are ordinary instants.      *)
(***************************************************************************)
EXTENDS NetworkAudit, TLC

Clean(scheme) == [scheme |-> scheme, clean |-> TRUE]
Dirty(scheme) == [scheme |-> scheme, clean |-> FALSE]

Label(key, value) == key :> value
NoLabels == [key \in {} |-> ""]

Base ==
    [wellFormed |-> TRUE, zone |-> "utc",
     Destination |-> ProjectNetworkAuditDestination(Clean("https")),
     ResourceUsage |-> [Counter |-> 1, LimitHit |-> ""],
     Labels |-> NoLabels, StartedAt |-> 10, FinishedAt |-> 10, ObservedAt |-> 11]

At(s, f, o) == [Base EXCEPT !.StartedAt = s, !.FinishedAt = f, !.ObservedAt = o]

MCRecords ==
    {At(10, 10, 11), At(0, 10, 10), At(0, 0, 0), At(9, 10, 11), At(9, 9, 9),
     At(7, 10, 11), At(2, 2, 2), At(2, 0, 10), At(11, 10, 10), At(10, 11, 10)}
    \cup {[Base EXCEPT !.zone = "east"],
          [At(0, 0, 11) EXCEPT !.zone = "east"],
          [Base EXCEPT !.Destination = ProjectNetworkAuditLifecycle("lease-1", "start"),
                       !.Labels = Label("pool", "blue")],
          [Base EXCEPT !.Destination = ProjectNetworkAuditLifecycle("lease-1", "bad")],
          [Base EXCEPT !.Destination = [Kind |-> "sha256", Value |-> Clean("https")]],
          [Base EXCEPT !.Labels = Label("bad", "blue")],
          [Base EXCEPT !.Labels = Label("pool", "blue") @@ Label("zone", "blue")],
          [Base EXCEPT !.ResourceUsage.Counter = -1],
          [Base EXCEPT !.ResourceUsage.LimitHit = "bad"],
          [Base EXCEPT !.wellFormed = FALSE]}

Number(form, twice) == [form |-> form, twice |-> twice]

MCLegacyDocs ==
    [destination : {NotString, Clean("tcp"), Clean("artifact"), Dirty("tcp")},
     labels : {NoLabels, Label("pool", "blue"), Label("pool", NotString),
               Label("bad", "blue"), Label("pool", "bad"),
               Label("pool", "blue") @@ Label("zone", NotString)},
     counter : {Number("int", 2), Number("int", -2), Number("float64", -1),
                Number("float64", 20), Number("number", -1), Number("number", -20),
                Number("string", 2)}]
=============================================================================
