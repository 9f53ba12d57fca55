------------------------------ MODULE TaskClient ------------------------------
(***************************************************************************)
(* The SDK client of protocol/client.go talking to a control plane.  A     *)
(* call is sent, served and returned in three steps, so the server moves   *)
(* on between an answer and its use; an answer may be an error status, may *)
(* not decode strictly, may come too late or never.  The callers share one *)
(* client and each has one call under way.                                 *)
(*                                                                         *)
(* The control plane is outside the package.  It appears as the calls use  *)
(* it: it creates the task a submission names or refuses an id it has      *)
(* (409), runs tasks, records proofs, and lists stalls of tasks of any     *)
(* status.                                                                 *)
(*                                                                         *)
(* Data: a reference artifact://pool/tasks/task/proofs/proof/name is the   *)
(* sequence of its slash-separated segments; Unsafe is a segment with      *)
(* white space, a backslash or a query mark; escaping keeps every other    *)
(* segment one segment; the body of an artifact is its length.             *)
(***************************************************************************)
EXTENDS Integers, Sequences, FiniteSets

CONSTANTS
    Callers,
    Configs,     \* the client configurations
    Requests,    \* the calls callers may make: [op, arg] with a bound for downloads
    Artifacts,   \* what the artifact store holds: [task, proof, name, size]
    MaxInt64,    \* the largest int64
    MaxProofs,   \* bound on the proofs recorded
    Unsafe       \* a segment with a forbidden character

Methods == {"SubmitTask", "TaskSnapshot", "FindProof", "ListTaskArtifacts",
            "DownloadTaskArtifact"}

(* Bounds and lengths are int64; a reference and a path are their segments.*)
ASSUME ClientAssumption ==
    /\ MaxInt64 \in Nat
    /\ \A req \in Requests :
          /\ req.op \in Methods
          /\ req.op = "DownloadTaskArtifact" =>
                req.arg \in Seq(STRING) /\ req.maxBytes \in -MaxInt64 - 1 .. MaxInt64
    /\ \A a \in Artifacts :
          /\ a.task \in STRING /\ a.proof \in STRING /\ a.name \in Seq(STRING)
          /\ a.size \in 0 .. MaxInt64

VARIABLES
    client,   \* the client NewClient built, or NoClient
    tasks,    \* the server's task list: [ID, Status], in list order
    stalls,   \* ids of the tasks listed as stalled
    proofs,   \* the server's proof list: [TaskID, Status], in list order
    call,     \* each caller's call under way, with its answer ({} before there is one)
    result,   \* what the last call of each caller returned ({} for no value),
              \* until it makes the next one
    seen,     \* history: what was so of its task since each caller's call was sent
    created   \* history: the tasks the server created for each caller's call

server == <<tasks, stalls, proofs>>
history == <<seen, created>>
vars == <<client, server, call, result, history>>

NoClient == [built |-> FALSE, timeout |-> 0]
NoCall == [op |-> "none", answer |-> {}]
NoResult == [op |-> "none", value |-> {}]

-----------------------------------------------------------------------------
(* NewClient.  A zero timeout of an http.Client means none at all, so a    *)
(* missing one is replaced by the default; a client that is handed in is   *)
(* used as it is.                                                          *)

DefaultTimeout == 30

(* Slip: the default forgotten.                                            *)
NewClient_AsConfigured(config) ==
    [built |-> TRUE, timeout |-> IF config.HTTPClient THEN config.HTTPTimeout
                                 ELSE config.Timeout]

NewClient(config) ==
    [built |-> TRUE,
     timeout |-> IF config.HTTPClient THEN config.HTTPTimeout
                 ELSE IF config.Timeout <= 0 THEN DefaultTimeout ELSE config.Timeout]

(* An absolute http(s) URL, and https or a loopback host when a token is   *)
(* set.                                                                    *)
ConfigAccepted(config) ==
    /\ config.scheme \in {"http", "https"}
    /\ config.Token => config.scheme = "https" \/ config.loopback

-----------------------------------------------------------------------------
(* References and paths.                                                   *)

(* The segments that name nothing.                                         *)
Empty == {"", "."}

BadSegments == Empty \cup {"..", Unsafe}

(* Slip: the segments of the name not looked at.                           *)
taskArtifactRefParts_NameUnchecked(ref) ==
    /\ Len(ref) >= 6 /\ ref[2] = "tasks" /\ ref[4] = "proofs"
    /\ \A i \in {1, 3, 5} : ref[i] \notin BadSegments

(* A reference is taken apart only when it has the five leading segments   *)
(* and a name, and no segment that carries data is empty, a dot or unsafe. *)
taskArtifactRefParts(ref) ==
    /\ Len(ref) >= 6 /\ ref[2] = "tasks" /\ ref[4] = "proofs"
    /\ \A i \in DOMAIN ref : i \notin {2, 4} => ref[i] \notin BadSegments

ArtifactPath(ref) ==
    <<"v1", "tasks", ref[3], "proofs", ref[5], "artifacts">> \o SubSeq(ref, 6, Len(ref))

(* The path the server sees: URL.JoinPath drops empty and dot segments and *)
(* lets a double dot take the segment before it.                           *)
JoinPath(path) ==
    LET clean[i \in 0 .. Len(path)] ==
            IF i = 0 THEN <<>>
            ELSE CASE path[i] \in Empty -> clean[i - 1]
                   [] path[i] = ".." ->
                          IF clean[i - 1] = <<>> THEN <<>>
                          ELSE SubSeq(clean[i - 1], 1, Len(clean[i - 1]) - 1)
                   [] OTHER -> Append(clean[i - 1], path[i])
    IN clean[Len(path)]

-----------------------------------------------------------------------------
(* What the client makes of an answer.                                     *)

(* Slip: a refused duplicate taken for a submission that was done.         *)
doJSON_DuplicateDone(answer, want) == answer.code \in {want, 409} /\ answer.strict

doJSON(answer, want) == answer.code = want /\ answer.strict

TaskIDs == {tasks[i].ID : i \in DOMAIN tasks}
First(S) == CHOOSE i \in S : \A j \in S : i <= j

(* Slip: every stall of the list returned.                                 *)
TaskSnapshot_AllStalls(body, id) ==
    LET own == {i \in DOMAIN body.Tasks : body.Tasks[i].ID = id}
    IN [found |-> own # {}, Stalls |-> body.Stalls,
        Status |-> IF own = {} THEN "" ELSE body.Tasks[First(own)].Status]

(* The first task of the list with the id, and the stalls that name it.    *)
TaskSnapshot(body, id) ==
    LET own == {i \in DOMAIN body.Tasks : body.Tasks[i].ID = id}
    IN [found |-> own # {}, Stalls |-> body.Stalls \cap {id},
        Status |-> IF own = {} THEN "" ELSE body.Tasks[First(own)].Status]

(* The first proof of the list about the task, accepted or not.            *)
FindProof(list, id) ==
    LET own == {i \in DOMAIN list : list[i].TaskID = id}
    IN [found |-> own # {},
        Status |-> IF own = {} THEN "" ELSE list[First(own)].Status]

(* One byte more than allowed is read, so that a longer body shows; at the *)
(* largest int64 the sum would wrap.  The slip lets it wrap.               *)
readLimit_Wraps(maxBytes) == IF maxBytes = MaxInt64 THEN -MaxInt64 - 1 ELSE maxBytes + 1
readLimit(maxBytes) == IF maxBytes < MaxInt64 THEN maxBytes + 1 ELSE maxBytes

(* io.LimitReader: at most n bytes, none when n is not positive.           *)
Limited(size, n) == IF n <= 0 THEN 0 ELSE IF size < n THEN size ELSE n

(* Slip: what was read is handed over with the error.                      *)
Download_Partial(answer, maxBytes) ==
    LET length == Limited(answer.body.size, readLimit(maxBytes))
    IN [ok |-> length <= maxBytes, value |-> {[artifact |-> answer.body, length |-> length]}]

Download(answer, maxBytes) ==
    LET length == Limited(answer.body.size, readLimit(maxBytes))
    IN [ok |-> length <= maxBytes,
        value |-> IF length <= maxBytes
                  THEN {[artifact |-> answer.body, length |-> length]} ELSE {}]

(* What the method called returns for the answer; SubmitTask returns the   *)
(* task of the answer and compares it with nothing.                        *)
Outcome(req, answer) ==
    CASE req.op = "SubmitTask" ->
             [ok |-> doJSON(answer, 201),
              value |-> IF doJSON(answer, 201) THEN {answer.body} ELSE {}]
      [] req.op = "TaskSnapshot" ->
             [ok |-> doJSON(answer, 200),
              value |-> IF doJSON(answer, 200) THEN {TaskSnapshot(answer.body, req.arg)}
                        ELSE {}]
      [] req.op = "FindProof" ->
             [ok |-> doJSON(answer, 200),
              value |-> IF doJSON(answer, 200) THEN {FindProof(answer.body, req.arg)}
                        ELSE {}]
      [] req.op = "ListTaskArtifacts" ->
             [ok |-> doJSON(answer, 200),
              value |-> IF doJSON(answer, 200) THEN {answer.body} ELSE {}]
      [] req.op = "DownloadTaskArtifact" ->
             IF answer.code = 200 THEN Download(answer, req.maxBytes)
             ELSE [ok |-> FALSE, value |-> {}]

-----------------------------------------------------------------------------
(* What there is to know of a task at one moment: its status, whether it is*)
(* listed as stalled, and its first proof.                                 *)
View(list, stalled, proven, id) ==
    [Status |-> {list[i].Status : i \in {i \in DOMAIN list : list[i].ID = id}},
     stalled |-> id \in stalled,
     proof |-> {proven[i].Status : i \in {i \in DOMAIN proven :
                    /\ proven[i].TaskID = id
                    /\ \A j \in DOMAIN proven : j < i => proven[j].TaskID # id}}]

Reads == {"TaskSnapshot", "FindProof"}

(* The history of the calls that read, when the server has changed.        *)
Observed ==
    seen' = [c \in Callers |->
        IF call[c].op \in Reads
        THEN seen[c] \cup {View(tasks', stalls', proofs', call[c].req.arg)}
        ELSE seen[c]]

-----------------------------------------------------------------------------
(* The caller's side.                                                      *)

Init ==
    /\ client = NoClient
    /\ tasks = <<>> /\ stalls = {} /\ proofs = <<>>
    /\ call = [c \in Callers |-> NoCall]
    /\ result = [c \in Callers |-> NoResult]
    /\ seen = [c \in Callers |-> {}] /\ created = [c \in Callers |-> {}]

Construct(config) ==
    /\ ~client.built
    /\ ConfigAccepted(config)
    /\ client' = NewClient(config)
    /\ UNCHANGED <<server, call, result, history>>

(* The checks a method makes before it sends anything.                     *)
Sendable(req) ==
    CASE req.op = "ListTaskArtifacts" -> req.arg \notin Empty \cup {".."}
      [] req.op = "DownloadTaskArtifact" -> req.maxBytes > 0 /\ taskArtifactRefParts(req.arg)
      [] OTHER -> TRUE

Send(c, req) ==
    /\ client.built
    /\ call[c].op = "none"
    /\ Sendable(req)
    /\ call' = [call EXCEPT ![c] = [op |-> req.op, req |-> req, answer |-> {}]]
    /\ result' = [result EXCEPT ![c] = NoResult]
    /\ seen' = [seen EXCEPT ![c] = IF req.op \in Reads
                     THEN {View(tasks, stalls, proofs, req.arg)} ELSE {}]
    /\ created' = [created EXCEPT ![c] = {}]
    /\ UNCHANGED <<client, server>>

Return(c) ==
    /\ \E answer \in call[c].answer :
       LET req == call[c].req
           out == Outcome(req, answer)
       IN result' = [result EXCEPT ![c] =
                         [op |-> req.op, req |-> req, ok |-> out.ok, value |-> out.value]]
    /\ call' = [call EXCEPT ![c] = NoCall]
    /\ UNCHANGED <<client, server, history>>

(* The timeout of the http.Client passes, whether the request, the answer  *)
(* or neither got through; the method returns an error.                    *)
TimeOut(c) ==
    /\ call[c].op # "none"
    /\ client.timeout > 0
    /\ result' = [result EXCEPT ![c] = [op |-> call[c].op, req |-> call[c].req,
                                        ok |-> FALSE, value |-> {}]]
    /\ call' = [call EXCEPT ![c] = NoCall]
    /\ UNCHANGED <<client, server, history>>

-----------------------------------------------------------------------------
(* The control plane's side.                                               *)

Answer(c, code, strict, body) ==
    call' = [call EXCEPT ![c].answer = {[code |-> code, strict |-> strict, body |-> body]}]

Waiting(c, op) == call[c].op = op /\ call[c].answer = {}

(* A duplicate is refused with the task that is there or with no task.     *)
ServeSubmit(c) ==
    /\ Waiting(c, "SubmitTask")
    /\ LET id == call[c].req.arg
       IN \/ /\ id \notin TaskIDs
             /\ tasks' = Append(tasks, [ID |-> id, Status |-> "queued"])
             /\ created' = [created EXCEPT ![c] = @ \cup {id}]
             /\ \E strict \in BOOLEAN : Answer(c, 201, strict, id)
          \/ /\ id \in TaskIDs
             /\ \E body \in {"", id} : Answer(c, 409, TRUE, body)
             /\ UNCHANGED <<tasks, created>>
    /\ UNCHANGED <<client, stalls, proofs, result>>
    /\ Observed

ServeLists(c) ==
    /\ \/ /\ Waiting(c, "TaskSnapshot")
          /\ \E strict \in BOOLEAN : Answer(c, 200, strict, [Tasks |-> tasks, Stalls |-> stalls])
       \/ /\ Waiting(c, "FindProof")
          /\ \E strict \in BOOLEAN : Answer(c, 200, strict, proofs)
       \/ /\ Waiting(c, "ListTaskArtifacts")
          /\ \E strict \in BOOLEAN :
                Answer(c, 200, strict, {a \in Artifacts : a.task = call[c].req.arg})
    /\ UNCHANGED <<client, server, result, history>>

(* The artifact the path of the request leads to, when there is one.       *)
ServeArtifact(c) ==
    /\ Waiting(c, "DownloadTaskArtifact")
    /\ LET path == JoinPath(ArtifactPath(call[c].req.arg))
           there == {a \in Artifacts :
                        path = <<"v1", "tasks", a.task, "proofs", a.proof, "artifacts">> \o a.name}
       IN \/ \E a \in there : Answer(c, 200, TRUE, a)
          \/ there = {} /\ Answer(c, 404, TRUE, {})
    /\ UNCHANGED <<client, server, result, history>>

(* A proxy or the server answers with an error instead, and a body that    *)
(* decodes to nothing.                                                     *)
EmptyBody(op) == CASE op = "SubmitTask" -> ""
                   [] op = "TaskSnapshot" -> [Tasks |-> <<>>, Stalls |-> {}]
                   [] op = "FindProof" -> <<>>
                   [] OTHER -> {}

Fail(c) ==
    /\ call[c].op # "none" /\ call[c].answer = {}
    /\ Answer(c, 500, TRUE, EmptyBody(call[c].op))
    /\ UNCHANGED <<client, server, result, history>>

SetStatus(i, status) == tasks' = [tasks EXCEPT ![i].Status = status]

Run(i) ==
    /\ tasks[i].Status \in {"queued", "stalled"}
    /\ SetStatus(i, "running")
    /\ UNCHANGED <<client, stalls, proofs, call, result, created>>
    /\ Observed

(* A task that waits or runs is listed as stalled, its status as well or   *)
(* not, and later is not any more.                                         *)
Stall(i) ==
    /\ tasks[i].Status # "succeeded"
    /\ stalls' = stalls \cup {tasks[i].ID}
    /\ UNCHANGED tasks \/ SetStatus(i, "stalled")
    /\ UNCHANGED <<client, proofs, call, result, created>>
    /\ Observed

Unstall(i) ==
    /\ stalls' = stalls \ {tasks[i].ID}
    /\ UNCHANGED <<client, tasks, proofs, call, result, created>>
    /\ Observed

Prove(i, status) ==
    /\ tasks[i].Status = "running"
    /\ Len(proofs) < MaxProofs
    /\ proofs' = Append(proofs, [TaskID |-> tasks[i].ID, Status |-> status])
    /\ UNCHANGED <<client, tasks, stalls, call, result, created>>
    /\ Observed

Succeed(i) ==
    /\ tasks[i].Status = "running"
    /\ SetStatus(i, "succeeded")
    /\ UNCHANGED <<client, stalls, proofs, call, result, created>>
    /\ Observed

Next ==
    \/ \E config \in Configs : Construct(config)
    \/ \E c \in Callers :
          \/ \E req \in Requests : Send(c, req)
          \/ Return(c)
          \/ TimeOut(c)
          \/ ServeSubmit(c)
          \/ ServeLists(c)
          \/ ServeArtifact(c)
          \/ Fail(c)
    \/ \E i \in DOMAIN tasks :
          \/ Run(i)
          \/ Stall(i)
          \/ Unstall(i)
          \/ \E status \in {"accepted", "rejected"} : Prove(i, status)
          \/ Succeed(i)

Spec == Init /\ [][Next]_vars

(* The http package ends a call when its timeout has passed, and a method  *)
(* returns once it has its answer.  The server owes no answer.             *)
FairSpec == Spec /\ \A c \in Callers : WF_vars(TimeOut(c)) /\ WF_vars(Return(c))

-----------------------------------------------------------------------------
(* Properties.                                                             *)

(* Every call under way is one a caller could make, and a method that      *)
(* returns an error returns nothing else: no part of an artifact that is   *)
(* longer than allowed.                                                    *)
TypeOK ==
    /\ client.built \in BOOLEAN
    /\ \A c \in Callers : call[c].op # "none" => call[c].req \in Requests
    /\ \A c \in Callers : result[c].op # "none" =>
           /\ result[c].req \in Requests
           /\ ~result[c].ok => result[c].value = {}

(* A submission is reported as done, with the task it asked for, to the    *)
(* call for which the server created that task and to no other: not to a   *)
(* retry of an attempt whose answer was lost, nor to another caller with   *)
(* the same id (SubmitTask, doJSON).                                       *)
AcknowledgedIsQueued ==
    \A c \in Callers :
        (result[c].op = "SubmitTask" /\ result[c].ok) =>
            /\ result[c].value = {result[c].req.arg}
            /\ result[c].value \subseteq TaskIDs \cap created[c]

(* What a reading call returns was so, all of it together, at one moment   *)
(* between the sending of the call and its return: a snapshot does not show*)
(* the status of one moment with the stalls of another, or with those of   *)
(* another task, and no proof is returned that was not the task's first    *)
(* (TaskSnapshot, FindProof).                                              *)
ReadsOneMoment ==
    \A c \in Callers : \A v \in result[c].value :
        /\ result[c].op = "TaskSnapshot" => \E then \in seen[c] :
              /\ then.Status = IF v.found THEN {v.Status} ELSE {}
              /\ v.Stalls = IF then.stalled THEN {result[c].req.arg} ELSE {}
        /\ result[c].op = "FindProof" => \E then \in seen[c] :
              then.proof = IF v.found THEN {v.Status} ELSE {}

(* The artifact downloaded is the one the reference names, whatever its    *)
(* segments are: no path leads to another task, proof or name.  A download *)
(* that reports no error returns all of it, within the bound asked for,    *)
(* also when the bound is the largest int64.                               *)
FetchesNamedArtifact ==
    \A c \in Callers :
        (result[c].op = "DownloadTaskArtifact" /\ result[c].ok) =>
            LET ref == result[c].req.arg
            IN \A v \in result[c].value :
                  /\ v.artifact.task = ref[3] /\ v.artifact.proof = ref[5]
                  /\ v.artifact.name = SubSeq(ref, 6, Len(ref))
                  /\ v.length = v.artifact.size
                  /\ v.length <= result[c].req.maxBytes

(* Every call on a client whose transport NewClient made returns, although *)
(* the server may never answer: there is always a timeout.                 *)
CallsReturn ==
    \A c \in Callers : call[c].op # "none" ~> call[c].op = "none"
=============================================================================
