---------------------------- MODULE TaskClientProofs ----------------------------
(***************************************************************************)
(* Proofs about TaskClient for every set of callers, configurations,       *)
(* requests and artifacts, every width of an int64 and every bound.        *)
(***************************************************************************)
EXTENDS TaskClient, SequenceTheorems, WellFoundedInduction, TLAPS

-----------------------------------------------------------------------------
(* The strengthening: what an answer under way says was so on the server   *)
(* when it was given, which was after the call was sent.                   *)

Submitted == {req.arg : req \in {req \in Requests : req.op = "SubmitTask"}}

Statuses == {"queued", "running", "stalled", "succeeded"}

(* The server's lists: an id is listed once.                               *)
Listed(list) ==
    /\ list \in Seq([ID : Submitted, Status : Statuses])
    /\ \A i, j \in DOMAIN list : list[i].ID = list[j].ID => i = j

Recorded(proven) == proven \in Seq([TaskID : Submitted, Status : {"accepted", "rejected"}])

(* A call under way is one that a method sends.                            *)
CallsSent ==
    /\ DOMAIN call = Callers /\ DOMAIN result = Callers
    /\ DOMAIN seen = Callers /\ DOMAIN created = Callers
    /\ \A c \in Callers :
          \/ call[c] = NoCall
          \/ \E req \in Requests :
                /\ Sendable(req)
                /\ call[c] = [op |-> req.op, req |-> req, answer |-> call[c].answer]

(* The history of a reading call goes up to now.                           *)
UpToDate ==
    \A c \in Callers : call[c].op \in Reads =>
        View(tasks, stalls, proofs, call[c].req.arg) \in seen[c]

Named(artifact, ref) ==
    /\ artifact \in Artifacts
    /\ artifact.task = ref[3] /\ artifact.proof = ref[5]
    /\ artifact.name = SubSeq(ref, 6, Len(ref))

(* A snapshot, and a proof, say what was so at the moment of a view.       *)
Shows(v, view, id) ==
    /\ view.Status = IF v.found THEN {v.Status} ELSE {}
    /\ v.Stalls = IF view.stalled THEN {id} ELSE {}

Proves(v, view) == view.proof = IF v.found THEN {v.Status} ELSE {}

(* What an answer says was so at one of the views, or is so of the ids the *)
(* server has made for the call.                                           *)
TrueOf(op, arg, answer, views, ids) ==
    /\ op = "SubmitTask" /\ answer.code = 201 => answer.body = arg /\ arg \in ids
    /\ op = "TaskSnapshot" /\ answer.code = 200 =>
          \E view \in views : Shows(TaskSnapshot(answer.body, arg), view, arg)
    /\ op = "FindProof" /\ answer.code = 200 =>
          \E view \in views : Proves(FindProof(answer.body, arg), view)
    /\ op = "DownloadTaskArtifact" /\ answer.code = 200 => Named(answer.body, arg)

Made(c) == TaskIDs \cap created[c]

AnswersTrue ==
    \A c \in Callers : \A answer \in call[c].answer :
        TrueOf(call[c].op, call[c].req.arg, answer, seen[c], Made(c))

IInv == /\ TypeOK
        /\ CallsSent
        /\ Listed(tasks)
        /\ Recorded(proofs)
        /\ UpToDate
        /\ AnswersTrue
        /\ AcknowledgedIsQueued
        /\ ReadsOneMoment
        /\ FetchesNamedArtifact

-----------------------------------------------------------------------------
(* Paths.                                                                  *)

(* A nonempty set of natural numbers has a least element.                  *)
LEMMA LeastNat ==
    ASSUME NEW S \in SUBSET Nat, S # {}
    PROVE  \E m \in S : \A k \in S : m <= k
<1> DEFINE R == OpToRel(<, Nat)
<1>1. IsWellFoundedOn(R, Nat)
  BY NatLessThanWellFounded
<1>2. \A x, y \in Nat : <<x, y>> \in R <=> x < y
  BY DEF OpToRel
<1> HIDE DEF R
<1>3. \E x \in S : \A y \in S : ~ (<<y, x>> \in R)
  BY <1>1, WFMin
<1>4. PICK m \in S : \A y \in S : ~ (<<y, m>> \in R)
  BY <1>3
<1>5. \A k \in S : m <= k
  <2> SUFFICES ASSUME NEW k \in S
               PROVE  m <= k
    OBVIOUS
  <2>1. m \in Nat /\ k \in Nat
    OBVIOUS
  <2>2. ~ (k < m)
    BY <1>2, <1>4, <2>1
  <2> QED
    BY <2>1, <2>2
<1> QED
  BY <1>5

(* The equation that defines what JoinPath has cleaned of each prefix.     *)
Cleaned(path, clean) ==
    [i \in 0 .. Len(path) |->
        IF i = 0 THEN <<>>
        ELSE CASE path[i] \in Empty -> clean[i - 1]
               [] path[i] = ".." ->
                      IF clean[i - 1] = <<>> THEN <<>>
                      ELSE SubSeq(clean[i - 1], 1, Len(clean[i - 1]) - 1)
               [] OTHER -> Append(clean[i - 1], path[i])]

(* A prefix grows by the next segment.                                     *)
LEMMA NextPrefix ==
    ASSUME NEW S, NEW path \in Seq(S), NEW i \in 1 .. Len(path)
    PROVE  SubSeq(path, 1, i) = Append(SubSeq(path, 1, i - 1), path[i])
<1>1. Len(path) \in Nat /\ \A j \in 1 .. Len(path) : path[j] \in S
  BY ElementOfSeq
<1>2. /\ SubSeq(path, 1, i) \in Seq(S) /\ Len(SubSeq(path, 1, i)) = i
      /\ \A j \in 1 .. i : SubSeq(path, 1, i)[j] = path[j]
  BY <1>1, SubSeqProperties
<1> DEFINE s == SubSeq(path, 1, i - 1)
<1>3. /\ s \in Seq(S) /\ Len(s) = i - 1
      /\ \A j \in 1 .. i - 1 : s[j] = path[j]
  <2>1. i - 1 \in Int /\ \A j \in 1 .. i - 1 : path[j] \in S
    BY <1>1
  <2>2. /\ s \in Seq(S) /\ Len(s) = IF 1 <= i - 1 THEN (i - 1) - 1 + 1 ELSE 0
        /\ \A j \in 1 .. (i - 1) - 1 + 1 : s[j] = path[1 + j - 1]
    BY <2>1, SubSeqProperties
  <2>3. \A n \in Nat : n >= 1 =>
            /\ (IF 1 <= n - 1 THEN (n - 1) - 1 + 1 ELSE 0) = n - 1
            /\ (n - 1) - 1 + 1 = n - 1
            /\ \A j \in 1 .. n - 1 : 1 + j - 1 = j
    OBVIOUS
  <2> QED
    BY <2>2, <2>3
<1> HIDE DEF s
<1>4. /\ Append(s, path[i]) \in Seq(S) /\ Len(Append(s, path[i])) = i
      /\ \A j \in 1 .. i : Append(s, path[i])[j] = path[j]
  BY <1>1, <1>3, AppendProperties
<1> QED
  BY <1>2, <1>4, SeqEqual DEF s

(* A path without an empty or dot segment is left as it is.                *)
LEMMA JoinPathKeeps ==
    ASSUME NEW S, NEW path \in Seq(S),
           \A i \in 1 .. Len(path) : path[i] \notin Empty /\ path[i] # ".."
    PROVE  JoinPath(path) = path
<1> DEFINE pre == [i \in 0 .. Len(path) |-> SubSeq(path, 1, i)]
<1>0. Len(path) \in Nat
  OBVIOUS
<1>1. pre = Cleaned(path, pre)
  <2>1. \A i \in 0 .. Len(path) : pre[i] = Cleaned(path, pre)[i]
    <3> SUFFICES ASSUME NEW i \in 0 .. Len(path)
                 PROVE  pre[i] = Cleaned(path, pre)[i]
      OBVIOUS
    <3>1. CASE i = 0
      <4>1. SubSeq(path, 1, 0) = <<>>
        BY SubSeqEmpty
      <4> QED
        BY <1>0, <3>1, <4>1 DEF Cleaned
    <3>2. CASE i # 0
      <4>1. i \in 1 .. Len(path) /\ i - 1 \in 0 .. Len(path)
        BY <1>0, <3>2
      <4>2. pre[i] = Append(pre[i - 1], path[i])
        BY <4>1, NextPrefix
      <4>3. path[i] \notin Empty /\ path[i] # ".."
        BY <4>1
      <4> HIDE DEF pre
      <4>4. Cleaned(path, pre)[i] = Append(pre[i - 1], path[i])
        BY <3>2, <4>3 DEF Cleaned
      <4> QED
        BY <4>2, <4>4
    <3> QED
      BY <3>1, <3>2
  <2> QED
    BY <2>1 DEF Cleaned
<1>2. PICK clean : clean = Cleaned(path, clean) /\ JoinPath(path) = clean[Len(path)]
  <2> HIDE DEF pre
  <2> DEFINE clean == CHOOSE f : f = Cleaned(path, f)
  <2>1. clean = Cleaned(path, clean)
    BY <1>1
  <2>2. JoinPath(path) = clean[Len(path)]
    BY DEF JoinPath, Cleaned
  <2> QED
    BY <2>1, <2>2
<1>3. \A i \in 0 .. Len(path) : clean[i] = pre[i]
  <2> DEFINE Bad == {i \in 0 .. Len(path) : clean[i] # pre[i]}
  <2> SUFFICES ASSUME Bad # {}
               PROVE  FALSE
    OBVIOUS
  <2>1. Bad \in SUBSET Nat
    BY <1>0
  <2>2. PICK m \in Bad : \A k \in Bad : m <= k
    <3> HIDE DEF Bad
    <3> QED
      BY <2>1, LeastNat
  <2> HIDE DEF pre
  <2>3. clean[m] = Cleaned(path, clean)[m] /\ pre[m] = Cleaned(path, pre)[m]
    BY <1>1, <1>2
  <2>4. CASE m = 0
    BY <1>0, <2>3, <2>4 DEF Cleaned
  <2>5. CASE m # 0
    <3>1. m - 1 \in 0 .. Len(path) /\ m - 1 \in Nat /\ ~(m <= m - 1)
      BY <1>0, <2>5
    <3>2. clean[m - 1] = pre[m - 1]
      BY <2>2, <3>1
    <3> QED
      BY <2>3, <2>5, <3>2 DEF Cleaned
  <2> QED
    BY <2>4, <2>5
<1>4. pre[Len(path)] = path
  <2>1. SubSeq(path, 1, Len(path)) = path
    <3>1. \A i \in 1 .. Len(path) : path[i] \in S
      BY ElementOfSeq
    <3>2. /\ SubSeq(path, 1, Len(path)) \in Seq(S)
          /\ Len(SubSeq(path, 1, Len(path))) = Len(path)
          /\ \A i \in 1 .. Len(path) : SubSeq(path, 1, Len(path))[i] = path[i]
      BY <1>0, <3>1, SubSeqProperties
    <3> QED
      BY <3>2, SeqEqual
  <2> QED
    BY <1>0, <2>1
<1> QED
  BY <1>0, <1>2, <1>3, <1>4

(* Six segments and a name.                                                *)
LEMMA SixAndName ==
    ASSUME NEW S, NEW h \in Seq(S), Len(h) = 6, NEW n \in Seq(S)
    PROVE  /\ h \o n \in Seq(S)
           /\ Len(n) \in Nat /\ Len(h \o n) = 6 + Len(n)
           /\ \A i \in 1 .. 6 + Len(n) :
                 (h \o n)[i] = IF i <= 6 THEN h[i] ELSE n[i - 6]
<1>1. /\ h \o n \in Seq(S)
      /\ Len(h \o n) = Len(h) + Len(n)
      /\ \A i \in 1 .. Len(h) + Len(n) :
            (h \o n)[i] = IF i <= Len(h) THEN h[i] ELSE n[i - Len(h)]
  BY ConcatProperties, Zenon
<1>2. Len(n) \in Nat
  OBVIOUS
<1> QED
  BY <1>1, <1>2

(* A reference that was taken apart leads to the artifact it names.        *)
LEMMA PathLeadsToNamed ==
    ASSUME NEW ref \in Seq(STRING), taskArtifactRefParts(ref), NEW a \in Artifacts,
           JoinPath(ArtifactPath(ref))
             = <<"v1", "tasks", a.task, "proofs", a.proof, "artifacts">> \o a.name
    PROVE  Named(a, ref)
<1> DEFINE head == <<"v1", "tasks", ref[3], "proofs", ref[5], "artifacts">>
           name == SubSeq(ref, 6, Len(ref))
           path == head \o name
<1> DEFINE Fixed == {"v1", "tasks", "proofs", "artifacts"}
           S == STRING \cup Fixed
<1>1. STRING \subseteq S /\ Fixed \subseteq S
  OBVIOUS
<1> HIDE DEF S
<1>2. /\ ref \in Seq(S) /\ Len(ref) \in Nat /\ Len(ref) >= 6
      /\ \A i \in 1 .. Len(ref) : ref[i] \in S
      /\ ref[3] \in S /\ ref[5] \in S
  <2>1. ref \in Seq(S)
    BY <1>1, SeqMonotonic
  <2>2. Len(ref) \in Nat /\ Len(ref) >= 6
    BY <2>1 DEF taskArtifactRefParts
  <2>3. 3 \in 1 .. Len(ref) /\ 5 \in 1 .. Len(ref)
    BY <2>2
  <2> QED
    BY <2>1, <2>2, <2>3, ElementOfSeq
<1>3. \A i \in 1 .. Len(ref) :
          i \notin {2, 4} => ref[i] \notin Empty /\ ref[i] # ".."
  BY <1>2 DEF taskArtifactRefParts, BadSegments
<1>4. /\ {"v1", "tasks", "proofs", "artifacts"} \subseteq S
      /\ a.task \in S /\ a.proof \in S /\ a.name \in Seq(S)
  BY <1>1, ClientAssumption, SeqMonotonic
<1>5. \A s \in {"v1", "tasks", "proofs", "artifacts"} : s \notin Empty /\ s # ".."
  BY Zenon DEF Empty
<1>6. /\ name \in Seq(S) /\ Len(name) = Len(ref) - 5
      /\ \A i \in 1 .. Len(name) : name[i] = ref[i + 5]
  <2>1. \A i \in 6 .. Len(ref) : ref[i] \in S
    BY <1>2
  <2>2. /\ name \in Seq(S)
        /\ Len(name) = IF 6 <= Len(ref) THEN Len(ref) - 6 + 1 ELSE 0
        /\ \A i \in 1 .. Len(ref) - 6 + 1 : name[i] = ref[6 + i - 1]
    BY <1>2, <2>1, SubSeqProperties
  <2>3. \A n \in Nat : n >= 6 =>
            /\ (IF 6 <= n THEN n - 6 + 1 ELSE 0) = n - 5
            /\ n - 6 + 1 = n - 5
            /\ \A i \in 1 .. n - 5 : 6 + i - 1 = i + 5
    OBVIOUS
  <2> QED
    BY <1>2, <2>2, <2>3
<1>7. /\ head \in Seq(S) /\ Len(head) = 6
      /\ head[1] = "v1" /\ head[2] = "tasks" /\ head[3] = ref[3]
      /\ head[4] = "proofs" /\ head[5] = ref[5] /\ head[6] = "artifacts"
  BY <1>2, <1>4
<1> HIDE DEF head, name
<1>8. /\ path \in Seq(S) /\ Len(path) = Len(ref) + 1
      /\ \A i \in 1 .. Len(ref) + 1 :
            path[i] = IF i <= 6 THEN head[i] ELSE name[i - 6]
  <2>1. /\ path \in Seq(S) /\ Len(path) = 6 + Len(name)
        /\ \A i \in 1 .. 6 + Len(name) :
              path[i] = IF i <= 6 THEN head[i] ELSE name[i - 6]
    BY <1>6, <1>7, SixAndName
  <2>2. 6 + Len(name) = Len(ref) + 1
    BY <1>2, <1>6
  <2> QED
    BY <2>1, <2>2
<1>9. \A i \in 1 .. Len(path) : path[i] \notin Empty /\ path[i] # ".."
  <2> TAKE i \in 1 .. Len(path)
  <2>1. CASE i <= 6
    <3>1. i \in 1 .. 6 /\ path[i] = head[i]
      BY <1>2, <1>8, <2>1
    <3>2. 3 \in 1 .. Len(ref) /\ 5 \in 1 .. Len(ref)
      BY <1>2
    <3>3. head[i] \in {"v1", "tasks", "proofs", "artifacts", ref[3], ref[5]}
      BY <1>7, <3>1
    <3> QED
      BY <1>3, <1>5, <3>1, <3>2, <3>3
  <2>2. CASE ~(i <= 6)
    <3>1. i - 6 \in 1 .. Len(name) /\ path[i] = name[i - 6]
      BY <1>2, <1>6, <1>8, <2>2
    <3>2. path[i] = ref[(i - 6) + 5] /\ (i - 6) + 5 \in 1 .. Len(ref)
          /\ (i - 6) + 5 \notin {2, 4}
      BY <1>2, <1>6, <1>8, <2>2, <3>1
    <3> QED
      BY <1>3, <3>2
  <2> QED
    BY <2>1, <2>2
<1>10. ArtifactPath(ref) = path
  BY DEF ArtifactPath, head, name
<1>11. JoinPath(path) = path
  BY <1>8, <1>9, JoinPathKeeps
<1>12. path = <<"v1", "tasks", a.task, "proofs", a.proof, "artifacts">> \o a.name
  BY <1>10, <1>11
<1>13. PICK other : other = <<"v1", "tasks", a.task, "proofs", a.proof, "artifacts">>
  OBVIOUS
<1>14. /\ other \in Seq(S) /\ Len(other) = 6
       /\ other[3] = a.task /\ other[5] = a.proof
  BY <1>4, <1>13
<1>15. (\A i \in 1 .. 6 : head[i] = other[i]) /\ name = a.name
  <2>1. /\ Len(name) \in Nat /\ Len(path) = 6 + Len(name)
        /\ \A i \in 1 .. 6 + Len(name) :
              path[i] = IF i <= 6 THEN head[i] ELSE name[i - 6]
    BY <1>6, <1>7, SixAndName
  <2>2. /\ Len(a.name) \in Nat /\ Len(path) = 6 + Len(a.name)
        /\ \A i \in 1 .. 6 + Len(a.name) :
              path[i] = IF i <= 6 THEN other[i] ELSE a.name[i - 6]
    BY <1>4, <1>12, <1>13, <1>14, SixAndName
  <2> HIDE DEF path
  <2>3. Len(name) = Len(a.name)
    BY <2>1, <2>2
  <2>4. \A i \in 1 .. 6 : head[i] = other[i]
    <3> TAKE i \in 1 .. 6
    <3>1. i \in 1 .. 6 + Len(name) /\ i <= 6
      BY <2>1
    <3> QED
      BY <2>1, <2>2, <2>3, <3>1
  <2>5. \A i \in 1 .. Len(name) : name[i] = a.name[i]
    <3> TAKE i \in 1 .. Len(name)
    <3>1. i + 6 \in 1 .. 6 + Len(name) /\ ~(i + 6 <= 6) /\ (i + 6) - 6 = i
      BY <2>1
    <3> QED
      BY <2>1, <2>2, <2>3, <3>1
  <2> QED
    BY <1>4, <1>6, <2>3, <2>4, <2>5, SeqEqual
<1>16. a.task = ref[3] /\ a.proof = ref[5] /\ a.name = name
  <2>1. 3 \in 1 .. 6 /\ 5 \in 1 .. 6
    OBVIOUS
  <2> QED
    BY <1>7, <1>14, <1>15, <2>1
<1> QED
  BY <1>16 DEF Named, name
-----------------------------------------------------------------------------
(* What the client makes of an answer.                                     *)

(* A snapshot says of the task what is so of it on the lists it is made of.*)
LEMMA SnapshotShows ==
    ASSUME NEW list, Listed(list), NEW stalled, NEW proven, NEW id,
           NEW body, body.Tasks = list, body.Stalls = stalled
    PROVE  Shows(TaskSnapshot(body, id), View(list, stalled, proven, id), id)
<1> DEFINE own == {i \in DOMAIN list : list[i].ID = id}
           v == TaskSnapshot(body, id)
           view == View(list, stalled, proven, id)
<1>1. /\ v.found = (own # {}) /\ v.Stalls = stalled \cap {id}
      /\ v.Status = IF own = {} THEN "" ELSE list[First(own)].Status
  BY DEF TaskSnapshot
<1>2. view.Status = {list[i].Status : i \in own} /\ view.stalled = (id \in stalled)
  BY DEF View
<1> HIDE DEF v, view
<1>3. view.Status = IF v.found THEN {v.Status} ELSE {}
  <2>1. CASE own = {}
    BY <1>1, <1>2, <2>1
  <2>2. ASSUME NEW k \in own
        PROVE  view.Status = IF v.found THEN {v.Status} ELSE {}
    <3>1. own = {k} /\ k \in Nat
      BY DEF Listed
    <3> HIDE DEF own
    <3>2. First(own) = k
      BY <3>1 DEF First
    <3>3. {list[i].Status : i \in own} = {list[k].Status}
      BY <3>1
    <3> QED
      BY <1>1, <1>2, <3>1, <3>2, <3>3
  <2> QED
    BY <2>1, <2>2
<1>4. v.Stalls = IF view.stalled THEN {id} ELSE {}
  BY <1>1, <1>2
<1> QED
  BY <1>3, <1>4 DEF Shows, v, view

(* The proof that is found is the first about the task.                    *)
LEMMA ProofShows ==
    ASSUME NEW list, NEW stalled, NEW proven, Recorded(proven), NEW id
    PROVE  Proves(FindProof(proven, id), View(list, stalled, proven, id))
<1> DEFINE own == {i \in DOMAIN proven : proven[i].TaskID = id}
           v == FindProof(proven, id)
           view == View(list, stalled, proven, id)
<1>1. /\ v.found = (own # {})
      /\ v.Status = IF own = {} THEN "" ELSE proven[First(own)].Status
  BY DEF FindProof
<1>2. view.proof = {proven[i].Status : i \in
          {i \in DOMAIN proven : /\ proven[i].TaskID = id
                                 /\ \A j \in DOMAIN proven : j < i => proven[j].TaskID # id}}
  BY DEF View
<1>3. own \in SUBSET Nat /\ DOMAIN proven \subseteq Nat
  BY DEF Recorded
<1>4. CASE own = {}
  <2>1. view.proof = {}
    BY <1>2, <1>4
  <2> QED
    BY <1>1, <1>4, <2>1 DEF Proves
<1>5. CASE own # {}
  <2>1. PICK m \in own : \A k \in own : m <= k
    <3> HIDE DEF own
    <3> QED
      BY <1>3, <1>5, LeastNat
  <2>2. \A k \in own : (\A j \in own : k <= j) => k = m
    BY <1>3, <2>1
  <2>3. First(own) = m
    <3> HIDE DEF own
    <3> QED
      BY <2>1, <2>2 DEF First
  <2>4. {i \in DOMAIN proven : /\ proven[i].TaskID = id
                               /\ \A j \in DOMAIN proven : j < i => proven[j].TaskID # id}
        = {m}
    <3>1. ASSUME NEW i \in DOMAIN proven, proven[i].TaskID = id,
                 \A j \in DOMAIN proven : j < i => proven[j].TaskID # id
          PROVE  i = m
      BY <1>3, <2>1, <3>1
    <3>2. \A j \in DOMAIN proven : j < m => proven[j].TaskID # id
      BY <1>3, <2>1
    <3> QED
      BY <2>1, <3>1, <3>2
  <2>5. view.proof = {proven[m].Status}
    BY <1>2, <2>4
  <2> HIDE DEF own, v, view
  <2> QED
    BY <1>1, <1>5, <2>3, <2>5 DEF Proves, v, view
<1> QED
  BY <1>4, <1>5

(* A download that reports no error returns the whole artifact: a body of  *)
(* more than the bound shows by the byte that is read beyond it.           *)
LEMMA DownloadWhole ==
    ASSUME NEW answer, answer.body \in Artifacts,
           NEW maxBytes \in 1 .. MaxInt64, Download(answer, maxBytes).ok
    PROVE  /\ Download(answer, maxBytes).value =
                  {[artifact |-> answer.body, length |-> answer.body.size]}
           /\ answer.body.size <= maxBytes
<1> DEFINE size == answer.body.size
           length == Limited(size, readLimit(maxBytes))
<1>1. size \in 0 .. MaxInt64 /\ MaxInt64 \in Nat
  BY ClientAssumption
<1>2. length <= maxBytes
  BY DEF Download
<1>3. length = size /\ size <= maxBytes
  <2> HIDE DEF size
  <2>1. CASE maxBytes < MaxInt64
    BY <1>1, <1>2, <2>1 DEF Limited, readLimit
  <2>2. CASE ~(maxBytes < MaxInt64)
    BY <1>1, <1>2, <2>2 DEF Limited, readLimit
  <2> QED
    BY <2>1, <2>2
<1> HIDE DEF size
<1>4. Download(answer, maxBytes).value = {[artifact |-> answer.body, length |-> length]}
  BY <1>2 DEF Download, size
<1> QED
  BY <1>3, <1>4 DEF size
(* An error comes with no value, and a value says what the answer says.    *)
LEMMA OutcomeTrue ==
    ASSUME NEW req \in Requests, NEW answer
    PROVE  LET out == Outcome(req, answer)
           IN  /\ ~out.ok => out.value = {}
               /\ req.op = "SubmitTask" /\ out.ok
                  => answer.code = 201 /\ out.value = {answer.body}
               /\ req.op = "TaskSnapshot" /\ out.value # {}
                  => /\ answer.code = 200
                     /\ out.value = {TaskSnapshot(answer.body, req.arg)}
               /\ req.op = "FindProof" /\ out.value # {}
                  => /\ answer.code = 200
                     /\ out.value = {FindProof(answer.body, req.arg)}
               /\ req.op = "DownloadTaskArtifact" /\ out.ok
                  => /\ answer.code = 200
                     /\ Download(answer, req.maxBytes).ok
                     /\ out.value = Download(answer, req.maxBytes).value
<1> DEFINE out == Outcome(req, answer)
<1>1. req.op \in Methods
  BY ClientAssumption
<1>2. CASE req.op = "SubmitTask"
  <2>1. out = [ok |-> doJSON(answer, 201),
               value |-> IF doJSON(answer, 201) THEN {answer.body} ELSE {}]
    BY <1>2 DEF Outcome
  <2>2. doJSON(answer, 201) => answer.code = 201
    BY DEF doJSON
  <2> QED
    BY <1>2, <2>1, <2>2
<1>3. CASE req.op = "TaskSnapshot"
  <2>1. out = [ok |-> doJSON(answer, 200),
               value |-> IF doJSON(answer, 200)
                         THEN {TaskSnapshot(answer.body, req.arg)} ELSE {}]
    BY <1>3 DEF Outcome
  <2>2. doJSON(answer, 200) => answer.code = 200
    BY DEF doJSON
  <2> QED
    BY <1>3, <2>1, <2>2
<1>4. CASE req.op = "FindProof"
  <2>1. out = [ok |-> doJSON(answer, 200),
               value |-> IF doJSON(answer, 200) THEN {FindProof(answer.body, req.arg)}
                         ELSE {}]
    BY <1>4 DEF Outcome
  <2>2. doJSON(answer, 200) => answer.code = 200
    BY DEF doJSON
  <2> QED
    BY <1>4, <2>1, <2>2
<1>5. CASE req.op = "ListTaskArtifacts"
  <2>1. out = [ok |-> doJSON(answer, 200),
               value |-> IF doJSON(answer, 200) THEN {answer.body} ELSE {}]
    BY <1>5 DEF Outcome
  <2> QED
    BY <1>5, <2>1
<1>6. CASE req.op = "DownloadTaskArtifact"
  <2>1. out = IF answer.code = 200 THEN Download(answer, req.maxBytes)
              ELSE [ok |-> FALSE, value |-> {}]
    BY <1>6 DEF Outcome
  <2>2. ~Download(answer, req.maxBytes).ok => Download(answer, req.maxBytes).value = {}
    BY DEF Download
  <2> QED
    BY <1>6, <2>1, <2>2
<1> QED
  BY <1>1, <1>2, <1>3, <1>4, <1>5, <1>6 DEF Methods

-----------------------------------------------------------------------------
(* What a call has returned keeps the promises of the three properties.    *)

Promised(r, views, ids) ==
    /\ r.op = "SubmitTask" /\ r.ok => r.value = {r.req.arg} /\ r.value \subseteq ids
    /\ r.op = "TaskSnapshot" =>
          \A v \in r.value : \E view \in views : Shows(v, view, r.req.arg)
    /\ r.op = "FindProof" =>
          \A v \in r.value : \E view \in views : Proves(v, view)
    /\ r.op = "DownloadTaskArtifact" /\ r.ok =>
          \A v \in r.value :
              /\ v.artifact.task = r.req.arg[3] /\ v.artifact.proof = r.req.arg[5]
              /\ v.artifact.name = SubSeq(r.req.arg, 6, Len(r.req.arg))
              /\ v.length = v.artifact.size
              /\ v.length <= r.req.maxBytes

Promises == \A c \in Callers : Promised(result[c], seen[c], Made(c))

(* The three properties together say that every result keeps its promise.  *)
LEMMA PromisesKept ==
    Promises <=> AcknowledgedIsQueued /\ ReadsOneMoment /\ FetchesNamedArtifact
<1>1. Promises => AcknowledgedIsQueued /\ ReadsOneMoment /\ FetchesNamedArtifact
  BY DEF Promises, Promised, AcknowledgedIsQueued, ReadsOneMoment,
         FetchesNamedArtifact, Shows, Proves, Made
<1>2. AcknowledgedIsQueued /\ ReadsOneMoment /\ FetchesNamedArtifact => Promises
  <2> SUFFICES ASSUME AcknowledgedIsQueued, ReadsOneMoment, FetchesNamedArtifact,
                      NEW c \in Callers
               PROVE  Promised(result[c], seen[c], Made(c))
    BY DEF Promises
  <2>1. result[c].op = "SubmitTask" /\ result[c].ok =>
            result[c].value = {result[c].req.arg} /\ result[c].value \subseteq Made(c)
    BY DEF AcknowledgedIsQueued, Made
  <2>2. result[c].op = "TaskSnapshot" => \A v \in result[c].value :
            \E view \in seen[c] : Shows(v, view, result[c].req.arg)
    BY DEF ReadsOneMoment, Shows
  <2>3. result[c].op = "FindProof" => \A v \in result[c].value :
            \E view \in seen[c] : Proves(v, view)
    BY DEF ReadsOneMoment, Proves
  <2> QED
    BY <2>1, <2>2, <2>3 DEF Promised, FetchesNamedArtifact
<1> QED
  BY <1>1, <1>2

(* The same of the state after a step.                                     *)
LEMMA PromisesKeptNext ==
    Promises' <=> AcknowledgedIsQueued' /\ ReadsOneMoment' /\ FetchesNamedArtifact'
BY PromisesKept, PTL

(* An answer that is true lets the method keep its promise.                *)
LEMMA TrueAnswerKept ==
    ASSUME NEW req \in Requests, Sendable(req), NEW answer, NEW views, NEW ids,
           TrueOf(req.op, req.arg, answer, views, ids),
           NEW r, r.op = req.op, r.req = req,
           r.ok = Outcome(req, answer).ok, r.value = Outcome(req, answer).value
    PROVE  Promised(r, views, ids) /\ (~r.ok => r.value = {})
<1>1. /\ ~r.ok => r.value = {}
      /\ req.op = "SubmitTask" /\ r.ok => answer.code = 201 /\ r.value = {answer.body}
      /\ req.op = "TaskSnapshot" /\ r.value # {}
         => answer.code = 200 /\ r.value = {TaskSnapshot(answer.body, req.arg)}
      /\ req.op = "FindProof" /\ r.value # {}
         => answer.code = 200 /\ r.value = {FindProof(answer.body, req.arg)}
      /\ req.op = "DownloadTaskArtifact" /\ r.ok
         => /\ answer.code = 200
            /\ Download(answer, req.maxBytes).ok
            /\ r.value = Download(answer, req.maxBytes).value
  BY OutcomeTrue
<1>2. ASSUME req.op = "SubmitTask", r.ok
      PROVE  r.value = {req.arg} /\ r.value \subseteq ids
  BY <1>1, <1>2 DEF TrueOf
<1>3. ASSUME req.op = "TaskSnapshot", NEW v \in r.value
      PROVE  \E view \in views : Shows(v, view, req.arg)
  BY <1>1, <1>3 DEF TrueOf
<1>4. ASSUME req.op = "FindProof", NEW v \in r.value
      PROVE  \E view \in views : Proves(v, view)
  BY <1>1, <1>4 DEF TrueOf
<1>5. ASSUME req.op = "DownloadTaskArtifact", r.ok
      PROVE  \A v \in r.value :
                 /\ v.artifact.task = req.arg[3] /\ v.artifact.proof = req.arg[5]
                 /\ v.artifact.name = SubSeq(req.arg, 6, Len(req.arg))
                 /\ v.length = v.artifact.size
                 /\ v.length <= req.maxBytes
  <2>1. req.maxBytes \in 1 .. MaxInt64
    <3>1. req.maxBytes > 0
      BY <1>5 DEF Sendable
    <3> QED
      BY <1>5, <3>1, ClientAssumption
  <2>2. Named(answer.body, req.arg)
    BY <1>1, <1>5 DEF TrueOf
  <2>3. /\ r.value = {[artifact |-> answer.body, length |-> answer.body.size]}
        /\ answer.body.size <= req.maxBytes
    BY <1>1, <1>5, <2>1, <2>2, DownloadWhole DEF Named
  <2> QED
    BY <2>2, <2>3 DEF Named
<1> QED
  BY <1>1, <1>2, <1>3, <1>4, <1>5 DEF Promised

-----------------------------------------------------------------------------
(* The steps of the callers.                                               *)

(* Before any call the invariant holds.                                    *)
LEMMA InitIInv == Init => IInv
<1> SUFFICES ASSUME Init
             PROVE  IInv
  OBVIOUS
<1>1. \A c \in Callers : call[c] = NoCall /\ result[c] = NoResult
  BY DEF Init
<1>2. /\ NoCall.op = "none" /\ NoCall.answer = {} /\ NoResult.op = "none"
      /\ NoResult.value = {} /\ NoClient.built = FALSE
  BY DEF NoCall, NoResult, NoClient
<1>3. Listed(tasks) /\ Recorded(proofs)
  BY DEF Init, Listed, Recorded
<1>4. UpToDate
  BY <1>1, <1>2 DEF UpToDate, Reads
<1>5. AcknowledgedIsQueued /\ ReadsOneMoment /\ FetchesNamedArtifact
  BY <1>1, <1>2 DEF AcknowledgedIsQueued, ReadsOneMoment, FetchesNamedArtifact
<1> QED
  BY <1>1, <1>2, <1>3, <1>4, <1>5 DEF Init, IInv, TypeOK, CallsSent, AnswersTrue

(* A call under way has the fields of a call.                              *)
LEMMA CallFields ==
    ASSUME IInv, NEW c \in Callers, call[c].op # "none"
    PROVE  \E req \in Requests :
               /\ Sendable(req)
               /\ call[c] = [op |-> req.op, req |-> req, answer |-> call[c].answer]
               /\ call[c].op = req.op /\ call[c].req = req
<1>1. NoCall.op = "none"
  BY DEF NoCall
<1>2. PICK req \in Requests :
          /\ Sendable(req)
          /\ call[c] = [op |-> req.op, req |-> req, answer |-> call[c].answer]
  BY <1>1 DEF IInv, CallsSent
<1>3. call[c].op = req.op /\ call[c].req = req
  BY <1>2
<1> QED
  BY <1>2, <1>3

(* Sending a call asks nothing of the server yet.                          *)
LEMMA SendKeepsIInv ==
    ASSUME IInv, NEW c \in Callers, NEW req \in Requests, Send(c, req)
    PROVE  IInv'
<1> USE DEF IInv
<1>1. PICK new : new = [op |-> req.op, req |-> req, answer |-> {}]
  OBVIOUS
<1>2. /\ new.op = req.op /\ new.req = req /\ new.answer = {}
      /\ new = [op |-> req.op, req |-> req, answer |-> new.answer]
      /\ NoResult.op = "none" /\ NoResult.value = {}
  BY <1>1 DEF NoResult
<1>3. PICK views : views = IF req.op \in Reads
                           THEN {View(tasks, stalls, proofs, req.arg)} ELSE {}
  OBVIOUS
<1>4. /\ UNCHANGED <<client, tasks, stalls, proofs>>
      /\ DOMAIN call' = Callers /\ DOMAIN result' = Callers
      /\ DOMAIN seen' = Callers /\ DOMAIN created' = Callers
      /\ Sendable(req)
      /\ \A d \in Callers :
            /\ call'[d] = IF d = c THEN new ELSE call[d]
            /\ result'[d] = IF d = c THEN NoResult ELSE result[d]
            /\ seen'[d] = IF d = c THEN views ELSE seen[d]
            /\ created'[d] = IF d = c THEN {} ELSE created[d]
  <2>1. /\ call' = [call EXCEPT ![c] = new] /\ result' = [result EXCEPT ![c] = NoResult]
        /\ seen' = [seen EXCEPT ![c] = views] /\ created' = [created EXCEPT ![c] = {}]
        /\ UNCHANGED <<client, tasks, stalls, proofs>> /\ Sendable(req)
    BY <1>1, <1>3, Zenon DEF Send, server
  <2> QED
    BY <2>1 DEF CallsSent
<1>5. TypeOK' /\ CallsSent'
  BY <1>2, <1>4 DEF TypeOK, CallsSent
<1>6. AnswersTrue'
  <2>1. \A d \in Callers : d # c => Made(d)' = Made(d)
    BY <1>4 DEF Made, TaskIDs
  <2> QED
    BY <1>2, <1>4, <2>1 DEF AnswersTrue
<1>7. UpToDate'
  BY <1>2, <1>3, <1>4 DEF UpToDate
<1>8. Promises'
  <2>1. \A d \in Callers : d # c => Made(d)' = Made(d)
    BY <1>4 DEF Made, TaskIDs
  <2>2. \A views2, ids : Promised(NoResult, views2, ids)
    BY <1>2 DEF Promised
  <2>3. Promises
    BY PromisesKept
  <2> QED
    BY <1>4, <2>1, <2>2, <2>3 DEF Promises
<1>9. Listed(tasks)' /\ Recorded(proofs)'
  BY <1>4 DEF Listed, Recorded
<1> QED
  BY <1>5, <1>6, <1>7, <1>8, <1>9, PromisesKeptNext

(* The call of one caller ends with a result that keeps the promises.      *)
LEMMA EndKeepsIInv ==
    ASSUME IInv, NEW c \in Callers, NEW r, UNCHANGED <<client, server, history>>,
           call' = [call EXCEPT ![c] = NoCall],
           result' = [result EXCEPT ![c] = r],
           r.req \in Requests, ~r.ok => r.value = {}, Promised(r, seen[c], Made(c))
    PROVE  IInv'
<1> USE DEF IInv
<1>1. /\ UNCHANGED <<client, tasks, stalls, proofs, seen, created>>
      /\ DOMAIN call' = Callers /\ DOMAIN result' = Callers
      /\ \A d \in Callers :
            /\ call'[d] = IF d = c THEN NoCall ELSE call[d]
            /\ result'[d] = IF d = c THEN r ELSE result[d]
      /\ NoCall.op = "none" /\ NoCall.answer = {}
  BY DEF server, history, CallsSent, NoCall
<1>2. TypeOK' /\ CallsSent'
  BY <1>1 DEF TypeOK, CallsSent
<1>3. \A d \in Callers : Made(d)' = Made(d)
  BY <1>1 DEF Made, TaskIDs
<1>4. AnswersTrue'
  BY <1>1, <1>3 DEF AnswersTrue
<1>5. UpToDate'
  BY <1>1 DEF UpToDate, Reads
<1>6. Promises'
  <2>1. Promises
    BY PromisesKept
  <2> QED
    BY <1>1, <1>3, <2>1 DEF Promises
<1>7. Listed(tasks)' /\ Recorded(proofs)'
  BY <1>1 DEF Listed, Recorded
<1> QED
  BY <1>2, <1>4, <1>5, <1>6, <1>7, PromisesKeptNext

(* A method returns what it makes of an answer that was true when given.   *)
LEMMA ReturnKeepsIInv ==
    ASSUME IInv, NEW c \in Callers, Return(c)
    PROVE  IInv'
<1> USE DEF IInv
<1>1. PICK answer \in call[c].answer :
          LET out == Outcome(call[c].req, answer)
          IN  result' = [result EXCEPT ![c] =
                  [op |-> call[c].req.op, req |-> call[c].req,
                   ok |-> out.ok, value |-> out.value]]
  BY DEF Return
<1>2. call[c].op # "none"
  <2>1. call[c] # NoCall
    BY <1>1 DEF NoCall
  <2> QED
    BY <2>1, ClientAssumption DEF CallsSent, Methods
<1>3. PICK req \in Requests :
          Sendable(req) /\ call[c].op = req.op /\ call[c].req = req
  BY <1>2, CallFields
<1>4. PICK out : out = Outcome(req, answer)
  OBVIOUS
<1>5. PICK r : r = [op |-> req.op, req |-> req, ok |-> out.ok, value |-> out.value]
  OBVIOUS
<1>6. r.op = req.op /\ r.req = req /\ r.ok = out.ok /\ r.value = out.value
  BY <1>5
<1>7. TrueOf(req.op, req.arg, answer, seen[c], Made(c))
  BY <1>1, <1>3 DEF AnswersTrue
<1>8. Promised(r, seen[c], Made(c)) /\ (~r.ok => r.value = {})
  BY <1>3, <1>4, <1>6, <1>7, TrueAnswerKept
<1>9. result' = [result EXCEPT ![c] = r]
  BY <1>1, <1>3, <1>4, <1>5
<1>10. UNCHANGED <<client, server, history>> /\ call' = [call EXCEPT ![c] = NoCall]
  BY DEF Return
<1> QED
  BY <1>6, <1>8, <1>9, <1>10, EndKeepsIInv

(* A call that times out keeps the invariant.                              *)
LEMMA TimeOutKeepsIInv ==
    ASSUME IInv, NEW c \in Callers, TimeOut(c)
    PROVE  IInv'
<1>1. PICK req \in Requests : call[c].op = req.op /\ call[c].req = req
  BY CallFields DEF TimeOut
<1>2. PICK r : r = [op |-> req.op, req |-> req, ok |-> FALSE, value |-> {}]
  OBVIOUS
<1>3. r.req = req /\ ~r.ok /\ r.value = {} /\ Promised(r, seen[c], Made(c))
  BY <1>2 DEF Promised
<1>4. /\ UNCHANGED <<client, server, history>> /\ call' = [call EXCEPT ![c] = NoCall]
      /\ result' = [result EXCEPT ![c] = r]
  BY <1>1, <1>2 DEF TimeOut
<1> QED
  BY <1>3, <1>4, EndKeepsIInv

-----------------------------------------------------------------------------
(* The steps of the server.                                                *)

(* No task the server had is gone, its lists are lists still, and the      *)
(* history has grown up to the new state.                                  *)
Grows ==
    /\ UNCHANGED <<client, result>>
    /\ Listed(tasks') /\ Recorded(proofs') /\ TaskIDs \subseteq TaskIDs'
    /\ DOMAIN seen' = Callers /\ DOMAIN created' = Callers
    /\ \A c \in Callers :
          /\ seen[c] \subseteq seen'[c] /\ created[c] \subseteq created'[c]
          /\ call[c].op \in Reads =>
                View(tasks', stalls', proofs', call[c].req.arg) \in seen'[c]

(* A larger history makes nothing untrue.                                  *)
LEMMA TrueStays ==
    ASSUME NEW op, NEW arg, NEW answer, NEW views, NEW ids,
           TrueOf(op, arg, answer, views, ids),
           NEW more, views \subseteq more, NEW others, ids \subseteq others
    PROVE  TrueOf(op, arg, answer, more, others)
BY Zenon DEF TrueOf

(* Nor does it break a promise.                                            *)
LEMMA PromisedStays ==
    ASSUME NEW r, NEW views, NEW ids, Promised(r, views, ids),
           NEW more, views \subseteq more, NEW others, ids \subseteq others
    PROVE  Promised(r, more, others)
<1>1. r.value \subseteq ids => r.value \subseteq others
  OBVIOUS
<1>2. \A P : (\E view \in views : Shows(P, view, r.req.arg))
          => \E view \in more : Shows(P, view, r.req.arg)
  BY Zenon
<1>3. \A P : (\E view \in views : Proves(P, view)) => \E view \in more : Proves(P, view)
  BY Zenon
<1> QED
  BY <1>1, <1>2, <1>3, Zenon DEF Promised

(* What has been returned stays true while the server and the history grow.*)
LEMMA ResultsStay ==
    ASSUME IInv, Grows
    PROVE  /\ \A c \in Callers : Made(c) \subseteq Made(c)'
           /\ AcknowledgedIsQueued' /\ ReadsOneMoment' /\ FetchesNamedArtifact'
<1>1. \A c \in Callers : Made(c) \subseteq Made(c)'
  BY DEF Grows, Made
<1>2. Promises
  BY PromisesKept DEF IInv
<1>3. Promises'
  <2> SUFFICES ASSUME NEW c \in Callers
               PROVE  Promised(result[c], seen[c], Made(c))'
    BY DEF Promises
  <2>1. Promised(result[c], seen'[c], Made(c)')
    BY <1>1, <1>2, PromisedStays DEF Promises, Grows
  <2>2. result' = result
    BY DEF Grows
  <2> QED
    BY <2>1, <2>2
<1> QED
  BY <1>1, <1>3, PromisesKeptNext

(* A step of the server that answers no call.                              *)
LEMMA ServerKeepsIInv ==
    ASSUME IInv, Grows, UNCHANGED call
    PROVE  IInv'
<1>1. AnswersTrue'
  <2> SUFFICES ASSUME NEW c \in Callers, NEW answer \in call[c].answer
               PROVE  TrueOf(call[c].op, call[c].req.arg, answer, seen'[c], Made(c)')
    BY DEF AnswersTrue
  <2> QED
    BY ResultsStay, TrueStays DEF IInv, AnswersTrue, Grows
<1>2. TypeOK' /\ CallsSent' /\ UpToDate'
  BY DEF IInv, TypeOK, CallsSent, UpToDate, Grows
<1>3. Listed(tasks)' /\ Recorded(proofs)'
  BY DEF Grows, Listed, Recorded
<1> QED
  BY <1>1, <1>2, <1>3, ResultsStay DEF IInv

(* An answer that is true when it is given.                                *)
LEMMA AnswerKeepsIInv ==
    ASSUME IInv, Grows, NEW c \in Callers, call[c].op # "none",
           NEW code, NEW strict, NEW body, Answer(c, code, strict, body),
           \A a : a.code = code /\ a.body = body =>
               TrueOf(call[c].op, call[c].req.arg, a, seen'[c], Made(c)')
    PROVE  IInv'
<1> USE DEF IInv
<1>1. PICK a : a = [code |-> code, strict |-> strict, body |-> body]
  OBVIOUS
<1>2. a.code = code /\ a.body = body
  BY <1>1
<1>3. PICK req \in Requests :
          /\ Sendable(req)
          /\ call[c] = [op |-> req.op, req |-> req, answer |-> call[c].answer]
          /\ call[c].op = req.op /\ call[c].req = req
  BY CallFields
<1>4. PICK new : new = [call[c] EXCEPT !.answer = {a}]
  OBVIOUS
<1>5. /\ new = [op |-> req.op, req |-> req, answer |-> new.answer]
      /\ new.op = req.op /\ new.req = req /\ new.answer = {a}
  BY <1>3, <1>4
<1>6. /\ DOMAIN call' = Callers /\ UNCHANGED <<client, result>>
      /\ DOMAIN seen' = Callers /\ DOMAIN created' = Callers
      /\ \A d \in Callers : call'[d] = IF d = c THEN new ELSE call[d]
  BY <1>1, <1>4 DEF Answer, CallsSent, Grows
<1>7. TypeOK'
  BY <1>5, <1>6 DEF TypeOK
<1>8. CallsSent'
  BY <1>3, <1>5, <1>6 DEF CallsSent
<1>9. AnswersTrue'
  <2> SUFFICES ASSUME NEW d \in Callers, NEW answer \in call'[d].answer
               PROVE  TrueOf(call'[d].op, call'[d].req.arg, answer, seen'[d], Made(d)')
    BY DEF AnswersTrue
  <2>1. CASE d = c
    BY <1>2, <1>3, <1>5, <1>6, <2>1
  <2>2. CASE d # c
    <3>1. call'[d] = call[d]
      BY <1>6, <2>2
    <3>2. TrueOf(call[d].op, call[d].req.arg, answer, seen[d], Made(d))
      BY <3>1 DEF AnswersTrue
    <3> QED
      BY <3>1, <3>2, ResultsStay, TrueStays DEF Grows
  <2> QED
    BY <2>1, <2>2
<1>10. UpToDate'
  <2>1. \A d \in Callers : call'[d].op = call[d].op /\ call'[d].req = call[d].req
    BY <1>3, <1>5, <1>6
  <2> QED
    BY <2>1 DEF UpToDate, Grows
<1>11. Listed(tasks)' /\ Recorded(proofs)'
  BY DEF Grows, Listed, Recorded
<1> QED
  BY <1>7, <1>8, <1>9, <1>10, <1>11, ResultsStay

(* The history grows with what the server does.                            *)
LEMMA ObservedGrows ==
    ASSUME IInv, UNCHANGED <<client, result>>, Listed(tasks'), Recorded(proofs'),
           TaskIDs \subseteq TaskIDs', DOMAIN created' = Callers,
           \A c \in Callers : created[c] \subseteq created'[c], Observed
    PROVE  Grows
<1>1. /\ DOMAIN seen' = Callers
      /\ \A c \in Callers :
            seen'[c] = IF call[c].op \in Reads
                       THEN seen[c] \cup {View(tasks', stalls', proofs', call[c].req.arg)}
                       ELSE seen[c]
  BY DEF Observed
<1>2. \A c \in Callers : seen[c] \subseteq seen'[c]
  BY <1>1
<1>3. \A c \in Callers : call[c].op \in Reads =>
          View(tasks', stalls', proofs', call[c].req.arg) \in seen'[c]
  BY <1>1
<1> QED
  BY <1>1, <1>2, <1>3 DEF Grows

(* Nothing grows while the server only answers.                            *)
LEMMA StillGrows ==
    ASSUME IInv, UNCHANGED <<client, server, result, history>>
    PROVE  Grows
BY DEF IInv, Grows, server, history, TaskIDs, UpToDate, CallsSent, Listed, Recorded

(* Serving a submission keeps the invariant: the task is on the list, and  *)
(* made for this call, when the answer says so.                            *)
LEMMA ServeSubmitKeepsIInv ==
    ASSUME IInv, NEW c \in Callers, ServeSubmit(c)
    PROVE  IInv'
<1> USE DEF IInv
<1>1. /\ call[c].op = "SubmitTask" /\ UNCHANGED <<client, stalls, proofs, result>>
      /\ Observed
  BY DEF ServeSubmit, Waiting
<1>2. PICK req \in Requests : call[c].op = req.op /\ call[c].req = req
  BY <1>1, CallFields
<1>3. CASE /\ req.arg \notin TaskIDs
           /\ tasks' = Append(tasks, [ID |-> req.arg, Status |-> "queued"])
           /\ created' = [created EXCEPT ![c] = @ \cup {req.arg}]
           /\ \E strict \in BOOLEAN : Answer(c, 201, strict, req.arg)
  <2> DEFINE T == [ID : Submitted, Status : Statuses]
  <2>1. PICK task : task = [ID |-> req.arg, Status |-> "queued"]
    OBVIOUS
  <2>2. task \in T /\ task.ID = req.arg
    BY <1>1, <1>2, <2>1 DEF Submitted, Statuses
  <2>3. tasks \in Seq(T)
    BY DEF Listed
  <2> HIDE DEF T
  <2>4. /\ tasks' \in Seq(T) /\ Len(tasks) \in Nat
        /\ DOMAIN tasks = 1 .. Len(tasks)
        /\ DOMAIN tasks' = 1 .. Len(tasks) + 1
        /\ \A i \in DOMAIN tasks : tasks'[i] = tasks[i]
        /\ tasks'[Len(tasks) + 1] = task
    BY <1>3, <2>1, <2>2, <2>3
  <2>5. TaskIDs \subseteq TaskIDs' /\ req.arg \in TaskIDs'
    BY <2>2, <2>4 DEF TaskIDs
  <2>6. \A i, j \in DOMAIN tasks' : tasks'[i].ID = tasks'[j].ID => i = j
    <3>1. \A i \in DOMAIN tasks : tasks[i].ID # task.ID
      BY <1>3, <2>2 DEF TaskIDs
    <3>2. \A i \in DOMAIN tasks' : i = Len(tasks) + 1 \/ i \in DOMAIN tasks
      BY <2>4
    <3> QED
      BY <2>4, <3>1, <3>2 DEF Listed
  <2>7. Listed(tasks') /\ Recorded(proofs')
    BY <1>1, <2>4, <2>6 DEF Listed, Recorded, T
  <2>8. /\ DOMAIN created' = Callers
        /\ \A d \in Callers : created[d] \subseteq created'[d]
        /\ req.arg \in created'[c]
    BY <1>3 DEF CallsSent
  <2>9. Grows
    BY <1>1, <2>5, <2>7, <2>8, ObservedGrows
  <2>10. \A a : a.code = 201 /\ a.body = req.arg =>
             TrueOf(call[c].op, call[c].req.arg, a, seen'[c], Made(c)')
    BY <1>1, <1>2, <2>5, <2>8 DEF TrueOf, Made
  <2> QED
    BY <1>1, <1>3, <2>9, <2>10, AnswerKeepsIInv
<1>4. CASE /\ UNCHANGED <<tasks, created>>
           /\ \E body \in {"", req.arg} : Answer(c, 409, TRUE, body)
  <2>1. Grows
    <3>1. /\ Listed(tasks') /\ Recorded(proofs') /\ TaskIDs \subseteq TaskIDs'
          /\ DOMAIN created' = Callers /\ \A d \in Callers : created[d] \subseteq created'[d]
      BY <1>1, <1>4 DEF TaskIDs, CallsSent
    <3> QED
      BY <1>1, <3>1, ObservedGrows
  <2>2. PICK body : Answer(c, 409, TRUE, body)
    BY <1>4
  <2>3. \A a : a.code = 409 /\ a.body = body =>
            TrueOf(call[c].op, call[c].req.arg, a, seen'[c], Made(c)')
    BY <1>1 DEF TrueOf
  <2> QED
    BY <1>1, <2>1, <2>2, <2>3, AnswerKeepsIInv
<1> QED
  BY <1>2, <1>3, <1>4 DEF ServeSubmit

(* Reading and failing keep the invariant: an answer is made from the      *)
(* lists of that moment, and nothing on the server changes.                *)
LEMMA ReadsKeepIInv ==
    ASSUME IInv, NEW c \in Callers,
           ServeLists(c) \/ ServeArtifact(c) \/ Fail(c)
    PROVE  IInv'
<1> USE DEF IInv
<1>1. /\ UNCHANGED <<client, server, result, history>>
      /\ call[c].op # "none"
  BY DEF ServeLists, ServeArtifact, Fail, Waiting
<1>2. Grows
  BY <1>1, StillGrows
<1>3. PICK req \in Requests :
          Sendable(req) /\ call[c].op = req.op /\ call[c].req = req
  BY <1>1, CallFields
<1>4. PICK view : view = View(tasks, stalls, proofs, req.arg)
  OBVIOUS
<1>5. call[c].op \in Reads => view \in seen'[c]
  BY <1>1, <1>3, <1>4 DEF UpToDate, history
<1>6. CASE ServeLists(c)
  <2>1. CASE /\ call[c].op = "TaskSnapshot"
             /\ \E strict \in BOOLEAN :
                   Answer(c, 200, strict, [Tasks |-> tasks, Stalls |-> stalls])
    <3>1. PICK body : body = [Tasks |-> tasks, Stalls |-> stalls]
      OBVIOUS
    <3>2. body.Tasks = tasks /\ body.Stalls = stalls
      BY <3>1
    <3>3. Shows(TaskSnapshot(body, req.arg), view, req.arg)
      BY <1>4, <3>2, SnapshotShows
    <3>4. \A a : a.code = 200 /\ a.body = body =>
              TrueOf(call[c].op, call[c].req.arg, a, seen'[c], Made(c)')
      BY <1>3, <1>5, <2>1, <3>3 DEF TrueOf, Reads
    <3> QED
      BY <1>1, <1>2, <2>1, <3>1, <3>4, AnswerKeepsIInv
  <2>2. CASE call[c].op = "FindProof" /\ \E strict \in BOOLEAN : Answer(c, 200, strict, proofs)
    <3>1. Proves(FindProof(proofs, req.arg), view)
      BY <1>4, ProofShows
    <3>2. \A a : a.code = 200 /\ a.body = proofs =>
              TrueOf(call[c].op, call[c].req.arg, a, seen'[c], Made(c)')
      BY <1>3, <1>5, <2>2, <3>1 DEF TrueOf, Reads
    <3> QED
      BY <1>1, <1>2, <2>2, <3>2, AnswerKeepsIInv
  <2>3. CASE call[c].op = "ListTaskArtifacts" /\ \E strict, body : Answer(c, 200, strict, body)
    <3>1. \A a : TrueOf(call[c].op, call[c].req.arg, a, seen'[c], Made(c)')
      BY <2>3 DEF TrueOf
    <3> QED
      BY <1>1, <1>2, <2>3, <3>1, AnswerKeepsIInv
  <2> QED
    BY <1>6, <2>1, <2>2, <2>3 DEF ServeLists, Waiting
<1>7. CASE ServeArtifact(c)
  <2>1. call[c].op = "DownloadTaskArtifact"
    BY <1>7 DEF ServeArtifact, Waiting
  <2>2. taskArtifactRefParts(req.arg) /\ req.arg \in Seq(STRING)
    BY <1>3, <2>1, ClientAssumption DEF Sendable
  <2>3. ASSUME NEW a \in Artifacts,
               JoinPath(ArtifactPath(req.arg))
                 = <<"v1", "tasks", a.task, "proofs", a.proof, "artifacts">> \o a.name,
               Answer(c, 200, TRUE, a)
        PROVE  IInv'
    <3>1. Named(a, req.arg)
      BY <2>2, <2>3, PathLeadsToNamed
    <3>2. \A b : b.code = 200 /\ b.body = a =>
              TrueOf(call[c].op, call[c].req.arg, b, seen'[c], Made(c)')
      BY <1>3, <2>1, <3>1 DEF TrueOf
    <3> QED
      BY <1>1, <1>2, <2>3, <3>2, AnswerKeepsIInv
  <2>4. CASE Answer(c, 404, TRUE, {})
    <3>1. \A a : a.code = 404 /\ a.body = {} =>
              TrueOf(call[c].op, call[c].req.arg, a, seen'[c], Made(c)')
      BY <2>1 DEF TrueOf
    <3> QED
      BY <1>1, <1>2, <2>4, <3>1, AnswerKeepsIInv
  <2> QED
    BY <1>3, <1>7, <2>3, <2>4 DEF ServeArtifact
<1>8. CASE Fail(c)
  <2>1. PICK body : Answer(c, 500, TRUE, body)
    BY <1>8 DEF Fail
  <2>2. \A a : a.code = 500 /\ a.body = body =>
            TrueOf(call[c].op, call[c].req.arg, a, seen'[c], Made(c)')
    BY DEF TrueOf
  <2> QED
    BY <1>1, <1>2, <2>1, <2>2, AnswerKeepsIInv
<1> QED
  BY <1>6, <1>7, <1>8

(* A task that changes its status keeps its place and its id.              *)
LEMMA StatusChanged ==
    ASSUME IInv, NEW i \in DOMAIN tasks, NEW s \in Statuses, SetStatus(i, s)
    PROVE  Listed(tasks') /\ TaskIDs' = TaskIDs
<1> DEFINE T == [ID : Submitted, Status : Statuses]
<1>1. tasks \in Seq(T)
  BY DEF IInv, Listed
<1>2. tasks[i] \in T
  <2> HIDE DEF T
  <2> QED
    BY <1>1
<1>3. PICK new : new = [tasks[i] EXCEPT !.Status = s]
  OBVIOUS
<1>4. new \in T /\ new.ID = tasks[i].ID
  BY <1>2, <1>3
<1> HIDE DEF T
<1>5. tasks' = [tasks EXCEPT ![i] = new]
  BY <1>3 DEF SetStatus
<1>6. /\ tasks' \in Seq(T) /\ DOMAIN tasks' = DOMAIN tasks
      /\ \A j \in DOMAIN tasks : tasks'[j] = IF j = i THEN new ELSE tasks[j]
  BY <1>1, <1>4, <1>5
<1>7. \A j \in DOMAIN tasks : tasks'[j].ID = tasks[j].ID
  BY <1>4, <1>6
<1>8. TaskIDs' = TaskIDs
  BY <1>6, <1>7 DEF TaskIDs
<1>9. Listed(tasks')
  BY <1>6, <1>7 DEF Listed, IInv, T
<1> QED
  BY <1>8, <1>9

(* What becomes of a task keeps the invariant: no task leaves the list.    *)
LEMMA TaskStepKeepsIInv ==
    ASSUME IInv, NEW i \in DOMAIN tasks,
           \/ Run(i) \/ Stall(i) \/ Unstall(i) \/ Succeed(i)
           \/ \E status \in {"accepted", "rejected"} : Prove(i, status)
    PROVE  IInv'
<1> USE DEF IInv
<1>1. UNCHANGED <<client, call, result, created>> /\ Observed
  BY DEF Run, Stall, Unstall, Succeed, Prove
<1>2. Listed(tasks') /\ TaskIDs' = TaskIDs
  <2>1. CASE UNCHANGED tasks
    BY <2>1 DEF TaskIDs
  <2>2. CASE \E s \in Statuses : SetStatus(i, s)
    BY <2>2, StatusChanged
  <2> QED
    BY <2>1, <2>2 DEF Run, Stall, Unstall, Succeed, Prove, Statuses
<1>3. Recorded(proofs')
  <2>1. CASE UNCHANGED proofs
    BY <2>1
  <2>2. ASSUME NEW status \in {"accepted", "rejected"}, Prove(i, status)
        PROVE  Recorded(proofs')
    <3> DEFINE R == [TaskID : Submitted, Status : {"accepted", "rejected"}]
    <3>1. PICK new : new = [TaskID |-> tasks[i].ID, Status |-> status]
      OBVIOUS
    <3>2. tasks[i].ID \in Submitted
      <4> DEFINE T == [ID : Submitted, Status : Statuses]
      <4>1. tasks \in Seq(T)
        BY DEF Listed
      <4>2. tasks[i] \in T
        <5> HIDE DEF T
        <5> QED
          BY <4>1
      <4> QED
        BY <4>2
    <3>3. new \in R
      BY <3>1, <3>2
    <3>4. proofs' = Append(proofs, new) /\ proofs \in Seq(R)
      BY <2>2, <3>1 DEF Prove, Recorded
    <3> HIDE DEF R
    <3>5. proofs' \in Seq(R)
      BY <3>3, <3>4
    <3> QED
      BY <3>5 DEF Recorded, R
  <2> QED
    BY <2>1, <2>2 DEF Run, Stall, Unstall, Succeed
<1>4. Grows
  <2>1. /\ UNCHANGED <<client, result>> /\ TaskIDs \subseteq TaskIDs'
        /\ DOMAIN created' = Callers /\ \A d \in Callers : created[d] \subseteq created'[d]
    BY <1>1, <1>2 DEF CallsSent
  <2> QED
    BY <1>1, <1>2, <1>3, <2>1, ObservedGrows
<1> QED
  BY <1>1, <1>4, ServerKeepsIInv

(* The invariant holds in every reachable state.                           *)
THEOREM IInvHolds == Spec => []IInv
<1>1. IInv /\ [Next]_vars => IInv'
  <2> SUFFICES ASSUME IInv, [Next]_vars
               PROVE  IInv'
    OBVIOUS
  <2>1. ASSUME client'.built \in BOOLEAN, UNCHANGED <<server, call, result, history>>
        PROVE  IInv'
    <3>1. UNCHANGED <<tasks, stalls, proofs, call, result, seen, created>>
      BY <2>1 DEF server, history
    <3>2. /\ TypeOK' /\ CallsSent' /\ Listed(tasks)' /\ Recorded(proofs)'
          /\ UpToDate' /\ AnswersTrue'
      <4>1. TypeOK' /\ CallsSent'
        BY <2>1, <3>1 DEF IInv, TypeOK, CallsSent
      <4>2. Listed(tasks)' /\ Recorded(proofs)'
        BY <3>1 DEF IInv, Listed, Recorded
      <4>3. UpToDate' /\ AnswersTrue'
        BY <3>1 DEF IInv, UpToDate, AnswersTrue, Made, TaskIDs
      <4> QED
        BY <4>1, <4>2, <4>3
    <3>3. Promises'
      BY <3>1, PromisesKept DEF IInv, Promises, Made, TaskIDs
    <3> QED
      BY <3>2, <3>3, PromisesKeptNext DEF IInv
  <2>2. ASSUME NEW config \in Configs, Construct(config)
        PROVE  IInv'
    BY <2>1, <2>2 DEF Construct, NewClient
  <2>3. CASE UNCHANGED vars
    BY <2>1, <2>3 DEF vars, IInv, TypeOK
  <2> QED
    BY <2>2, <2>3, SendKeepsIInv, ReturnKeepsIInv, TimeOutKeepsIInv,
       ServeSubmitKeepsIInv, ReadsKeepIInv, TaskStepKeepsIInv
    DEF Next
<1> QED
  BY <1>1, InitIInv, PTL DEF Spec

(* The state has its type in every reachable state; a method that returns  *)
(* an error returns nothing else.                                          *)
THEOREM TypeCorrect == Spec => []TypeOK
<1>1. IInv => TypeOK
  BY DEF IInv
<1> QED
  BY <1>1, IInvHolds, PTL

(* A submission reported as done returns the task that was asked for, which*)
(* the server created for that very call, whatever was lost, late, retried *)
(* or served to other callers in between: only 201 is taken for done.      *)
THEOREM AcknowledgedHolds == Spec => []AcknowledgedIsQueued
<1>1. IInv => AcknowledgedIsQueued
  BY DEF IInv
<1> QED
  BY <1>1, IInvHolds, PTL

(* What a reading call returns was so at one moment since it was sent,     *)
(* status and stalls together, however the server moves on while the answer*)
(* is under way and whichever tasks it lists as stalled.                   *)
THEOREM ReadsHold == Spec => []ReadsOneMoment
<1>1. IInv => ReadsOneMoment
  BY DEF IInv
<1> QED
  BY <1>1, IInvHolds, PTL

(* No reference that taskArtifactRefParts accepts leads, once its path is  *)
(* cleaned, to another artifact than the one it names, and a download that *)
(* reports no error is the whole artifact, within the bound asked for.     *)
THEOREM FetchesNamed == Spec => []FetchesNamedArtifact
<1>1. IInv => FetchesNamedArtifact
  BY DEF IInv
<1> QED
  BY <1>1, IInvHolds, PTL

=============================================================================
