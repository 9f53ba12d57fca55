----------------------------- MODULE MCTaskClient -----------------------------
(* Small instances of TaskClient.                                          *)
EXTENDS TaskClient

Config(scheme, loopback, token, own, ownTimeout, timeout) ==
    [scheme |-> scheme, loopback |-> loopback, Token |-> token, HTTPClient |-> own,
     HTTPTimeout |-> ownTimeout, Timeout |-> timeout]

(* Clients whose transport NewClient makes, with every kind of timeout, a  *)
(* client with a transport of its own, and configurations NewClient refuses*)
MCConfigs == {Config("https", FALSE, TRUE, FALSE, 0, t) : t \in {-1, 0, 5}}
             \cup {Config("http", TRUE, TRUE, TRUE, 5, 0),
                   Config("http", FALSE, TRUE, FALSE, 0, 5),
                   Config("ftp", FALSE, FALSE, FALSE, 0, 5)}

(* Two tasks, of which one is read while the other is on the same lists.   *)
TaskRequests == {[op |-> "SubmitTask", arg |-> t] : t \in {"t1", "t2"}}
                \cup {[op |-> o, arg |-> "t1"] : o \in {"TaskSnapshot", "FindProof"}}

Artifact(task, proof, name, size) == [task |-> task, proof |-> proof, name |-> name, size |-> size]
MCArtifacts == {Artifact("t1", "p1", <<"out">>, 3), Artifact("t1", "p2", <<"out">>, 2),
                Artifact("t2", "p1", <<"out">>, 7), Artifact("t1", "p1", <<"logs", "out">>, 1)}

Names == {<<"out">>, <<"logs", "out">>, <<"logs", "..", "out">>, <<"..", "..", "p2", "artifacts", "out">>,
          <<"", "out">>, <<"a", Unsafe>>, <<>>}
Refs == {<<"pool", "tasks", t, kind, p>> \o n :
            t \in {"t1", "t2", ".."}, kind \in {"proofs", "leases"}, p \in {"p1", "."}, n \in Names}
ArtifactRequests ==
    {[op |-> "DownloadTaskArtifact", arg |-> r, maxBytes |-> m] : r \in Refs, m \in {0, 1, 2, 3, MaxInt64}}
    \cup {[op |-> "ListTaskArtifacts", arg |-> t] : t \in {"t1", "..", "t3"}}

MCRequests == TaskRequests \cup ArtifactRequests

MaxViews == 3

(* The server changes at most twice during a call; artifacts are fetched   *)
(* apart from what becomes of tasks, and stalls listed apart from proofs,  *)
(* which no call reads together.  Returning and timing out changes none of *)
(* this, so no call is kept from returning by the constraint.              *)
FewChanges ==
    /\ proofs = <<>> \/ stalls = {}
    /\ \A c \in Callers :
          /\ Cardinality(seen[c]) <= MaxViews
          /\ "DownloadTaskArtifact" \in {call[c].op, result[c].op} => tasks = <<>>
=============================================================================
