------------------------- MODULE AgentSelectionProofs -------------------------
(***************************************************************************)
(* Proofs about AgentSelection for every set of planners, every skew of    *)
(* their clocks, every list of agents and tasks and every length of lease; *)
(* and, in the last part, about the placement of RuntimePlacement, which   *)
(* decides whether a worker may be leased a task at all.                   *)
(***************************************************************************)
EXTENDS AgentSelection, RuntimePlacement, SequenceTheorems, WellFoundedInduction, TLAPS

(* The strengthening.  What a planner holds is about listed agents and     *)
(* tasks; a task that has, or had, a lease stays leased.                   *)
TaskIDs == {TaskList[i].ID : i \in DOMAIN TaskList}

Leased(id) == \E i \in DOMAIN tasks : tasks[i].ID = id /\ tasks[i].Status = "leased"

(* What the control plane lists of an agent besides its status.            *)
SameAgent(a, b) ==
    /\ a.ID = b.ID /\ a.OrgID = b.OrgID /\ a.PoolID = b.PoolID
    /\ a.Networks = b.Networks

Eligible(id) ==
    \E k \in DOMAIN AgentList :
        AgentList[k].ID = id /\ agentMatchesNetwork(AgentList[k], Org, Pool)

Shapes ==
    /\ DOMAIN tasks = DOMAIN TaskList
    /\ leases \in Seq(LeaseType)
    /\ DOMAIN choice = Planners /\ DOMAIN agentsSeen = Planners
    /\ DOMAIN leasesSeen = Planners /\ DOMAIN tasksSeen = Planners

AgentsListed ==
    \A p \in Planners : agentsSeen[p] # NoList =>
        \A i \in DOMAIN agentsSeen[p] : \E k \in DOMAIN AgentList :
            SameAgent(agentsSeen[p][i], AgentList[k])

TasksListed ==
    \A p \in Planners : tasksSeen[p] # NoList =>
        \A i \in DOMAIN tasksSeen[p] : tasksSeen[p][i].ID \in TaskIDs

LeasesGranted ==
    \A i \in DOMAIN leases : Leased(leases[i].TaskID) /\ Eligible(leases[i].WorkerID)

(* Leases are of one length, so the oldest, listed first, ends first.      *)
OldestFirst ==
    \A i, j \in DOMAIN leases : i < j => leases[i].left <= leases[j].left

(* A lease a planner holds ages as the listed one does, if it is listed.   *)
SeenAsListed ==
    \A p \in Planners : leasesSeen[p] # NoList =>
        \A k \in DOMAIN leasesSeen[p] :
            /\ Leased(leasesSeen[p][k].TaskID)
            /\ \A i \in DOMAIN leases :
                  leases[i].TaskID = leasesSeen[p][k].TaskID
                  => /\ leases[i].WorkerID = leasesSeen[p][k].WorkerID
                     /\ leases[i].left = leasesSeen[p][k].left

(* An agent that was selected has no lease, among those the planner had    *)
(* seen, with more left than the planner's clock is ahead.                 *)
ChoiceFree ==
    \A p \in Planners : choice[p] # NoList =>
        /\ Eligible(choice[p].agent.ID)
        /\ choice[p].task.ID \in TaskIDs
        /\ choice[p].seen \subseteq TaskIDs
        /\ \A id \in choice[p].seen : Leased(id)
        /\ \A i \in DOMAIN leases :
              /\ leases[i].TaskID \in choice[p].seen
              /\ leases[i].WorkerID = choice[p].agent.ID
              => leases[i].left <= Skew[p]

IInv == /\ TypeOK
        /\ Shapes
        /\ AgentsListed
        /\ TasksListed
        /\ LeasesGranted
        /\ OldestFirst
        /\ SeenAsListed
        /\ ChoiceFree
        /\ OverlapOnlyUnseenOrSkewed

-----------------------------------------------------------------------------
(* Lemmas about the operators.                                             *)

(* A task keeps its place, and all but its status.                         *)
LEMMA TaskKept ==
    ASSUME TypeOK, Shapes, NEW i \in DOMAIN tasks
    PROVE  /\ i \in DOMAIN TaskList
           /\ tasks[i].ID = TaskList[i].ID
           /\ tasks[i].ID \in TaskIDs
<1>1. i \in DOMAIN TaskList
  BY DEF Shapes
<1>2. [TaskList[i] EXCEPT !.Status = "leased"].ID = TaskList[i].ID
  OBVIOUS
<1>3. tasks[i].ID = TaskList[i].ID
  BY <1>2 DEF TypeOK
<1> QED
  BY <1>1, <1>3 DEF TaskIDs

(* An id names one task.                                                   *)
LEMMA OneTask ==
    ASSUME TypeOK, Shapes, NEW i \in DOMAIN tasks, NEW j \in DOMAIN tasks,
           tasks[i].ID = tasks[j].ID
    PROVE  i = j
BY TaskKept, ListsAssumption DEF Unique

(* A lease that ages loses at most one unit, and keeps the rest.           *)
LEMMA AgedLease ==
    ASSUME NEW list, NEW i \in DOMAIN list, list[i] \in LeaseType
    PROVE  /\ Aged(list)[i] \in LeaseType
           /\ Aged(list)[i].TaskID = list[i].TaskID
           /\ Aged(list)[i].WorkerID = list[i].WorkerID
           /\ Aged(list)[i].by = list[i].by
           /\ Aged(list)[i].seen = list[i].seen
           /\ Aged(list)[i].left =
                 IF list[i].left > -Floor THEN list[i].left - 1 ELSE list[i].left
<1> DEFINE l == list[i]
           n == IF l.left > -Floor THEN l.left - 1 ELSE l.left
<1>1. Aged(list)[i] = [l EXCEPT !.left = n]
  BY DEF Aged
<1>2. n \in -Floor .. LeaseTime
  BY SelectionAssumption DEF LeaseType
<1>3. l \in LeaseType
  OBVIOUS
<1> HIDE DEF l, n
<1>4. [l EXCEPT !.left = n] \in LeaseType
  BY <1>2, <1>3 DEF LeaseType
<1>5. /\ [l EXCEPT !.left = n].TaskID = l.TaskID
      /\ [l EXCEPT !.left = n].WorkerID = l.WorkerID
      /\ [l EXCEPT !.left = n].by = l.by
      /\ [l EXCEPT !.left = n].seen = l.seen
      /\ [l EXCEPT !.left = n].left = n
  BY <1>3 DEF LeaseType
<1> QED
  BY <1>1, <1>4, <1>5 DEF l, n

(* Aging a list of leases neither adds nor removes one.                    *)
LEMMA AgedDomain ==
    ASSUME NEW list
    PROVE  DOMAIN Aged(list) = DOMAIN list
BY DEF Aged

(* An agent is matched by what the control plane lists of it.              *)
LEMMA SameMatch ==
    ASSUME NEW a, NEW b, SameAgent(a, b), agentMatchesNetwork(a, Org, Pool)
    PROVE  agentMatchesNetwork(b, Org, Pool)
BY DEF SameAgent, agentMatchesNetwork

-----------------------------------------------------------------------------
(* The steps.                                                              *)

(* Before a planner has listed anything and a lease is granted, the        *)
(* invariant holds.                                                        *)
LEMMA InitIInv == Init => IInv
<1> SUFFICES ASSUME Init
             PROVE  IInv
  OBVIOUS
<1>1. leases = <<>> /\ tasks = TaskList
  BY DEF Init
<1>2. TypeOK
  <2>1. Statuses \cup {"online"} \subseteq AgentStatuses
    BY SelectionAssumption DEF AgentStatuses
  <2>2. status \in [Agents -> AgentStatuses]
    BY <2>1 DEF Init
  <2> QED
    BY <1>1, <2>2 DEF Init, TypeOK
<1>3. Shapes
  BY <1>1 DEF Init, Shapes
<1> QED
  BY <1>1, <1>2, <1>3
  DEF Init, IInv, AgentsListed, TasksListed, LeasesGranted, OldestFirst,
      SeenAsListed, ChoiceFree, OverlapOnlyUnseenOrSkewed

(* A planner's calls leave what the control plane holds as it is.          *)
LEMMA ListsKeepIInv ==
    ASSUME IInv, NEW p \in Planners,
           ListAgents(p) \/ ListLeases(p) \/ ListTasks(p)
    PROVE  IInv'
<1> USE DEF IInv
<1>0. UNCHANGED <<status, tasks, leases, choice>>
  BY DEF ListAgents, ListLeases, ListTasks
<1>1. LeasesGranted' /\ OldestFirst' /\ ChoiceFree' /\ OverlapOnlyUnseenOrSkewed'
  BY <1>0 DEF LeasesGranted, OldestFirst, ChoiceFree, OverlapOnlyUnseenOrSkewed,
              Leased
<1>2. CASE ListAgents(p)
  <2>1. \A i \in DOMAIN Listed : \E k \in DOMAIN AgentList :
            SameAgent(Listed[i], AgentList[k])
    BY DEF Listed, SameAgent
  <2>2. AgentsListed'
    BY <1>2, <2>1 DEF ListAgents, AgentsListed, Shapes
  <2> QED
    BY <1>0, <1>1, <1>2, <2>2
    DEF ListAgents, TypeOK, Shapes, TasksListed, SeenAsListed, Leased
<1>3. CASE ListLeases(p)
  <2>1. \A q \in Planners : leasesSeen'[q] = IF q = p THEN leases ELSE leasesSeen[q]
    BY <1>3 DEF ListLeases, Shapes
  <2>2. TypeOK'
    BY <1>0, <2>1 DEF TypeOK
  <2>3. SeenAsListed'
    BY <1>0, <2>1 DEF SeenAsListed, LeasesGranted, Leased, TypeOK
  <2> QED
    BY <1>0, <1>1, <1>3, <2>2, <2>3
    DEF ListLeases, Shapes, AgentsListed, TasksListed
<1>4. CASE ListTasks(p)
  <2>1. \A q \in Planners : tasksSeen'[q] = IF q = p THEN tasks ELSE tasksSeen[q]
    BY <1>4 DEF ListTasks, Shapes
  <2>2. TasksListed'
    BY <2>1, TaskKept DEF TasksListed
  <2> QED
    BY <1>0, <1>1, <1>4, <2>2
    DEF ListTasks, TypeOK, Shapes, AgentsListed, SeenAsListed, Leased
<1> QED
  BY <1>2, <1>3, <1>4

(* What is selected is free of the leases it was selected with: the busy   *)
(* check looks at every one of them.                                       *)
LEMMA SelectedFree ==
    ASSUME IInv, NEW p \in Planners,
           agentsSeen[p] # NoList, leasesSeen[p] # NoList,
           NEW a \in SelectIdleAgent(agentsSeen[p], leasesSeen[p], Skew[p]),
           NEW i \in DOMAIN leases, NEW k \in DOMAIN leasesSeen[p],
           leases[i].TaskID = leasesSeen[p][k].TaskID,
           leases[i].WorkerID = a.ID
    PROVE  leases[i].left <= Skew[p]
<1>1. ~Busy(a.ID, leasesSeen[p], Skew[p])
  BY DEF SelectIdleAgent, Selectable
<1>2. leasesSeen[p][k].WorkerID = a.ID /\ leasesSeen[p][k].left = leases[i].left
  BY DEF IInv, SeenAsListed
<1>3. leases[i].left \in Int /\ Skew[p] \in Int
  BY SelectionAssumption DEF IInv, TypeOK, LeaseType
<1> QED
  BY <1>1, <1>2, <1>3 DEF Busy

(* Selecting keeps the invariant: what is chosen is free among what the    *)
(* planner has seen.                                                       *)
LEMMA SelectKeepsIInv ==
    ASSUME IInv, NEW p \in Planners, Select(p)
    PROVE  IInv'
<1> USE DEF IInv
<1> DEFINE idle   == SelectIdleAgent(agentsSeen[p], leasesSeen[p], Skew[p])
           queued == FindQueuedTask(tasksSeen[p])
           seen   == {leasesSeen[p][i].TaskID : i \in DOMAIN leasesSeen[p]}
<1>0. /\ UNCHANGED <<status, tasks, leases>>
      /\ agentsSeen[p] # NoList /\ leasesSeen[p] # NoList /\ tasksSeen[p] # NoList
      /\ \A q \in Planners :
            /\ agentsSeen'[q] = IF q = p THEN NoList ELSE agentsSeen[q]
            /\ leasesSeen'[q] = IF q = p THEN NoList ELSE leasesSeen[q]
            /\ tasksSeen'[q] = IF q = p THEN NoList ELSE tasksSeen[q]
  BY DEF Select, Shapes
<1>1. PICK c : /\ choice' = [choice EXCEPT ![p] = c]
               /\ \/ c = NoList
                  \/ \E a \in idle, t \in queued :
                        c = [agent |-> a, task |-> t, seen |-> seen]
  BY DEF Select
<1>2. \A q \in Planners : choice'[q] = IF q = p THEN c ELSE choice[q]
  BY <1>1 DEF Shapes
<1>3. ASSUME c # NoList
      PROVE  /\ Eligible(c.agent.ID)
             /\ c.task.ID \in TaskIDs
             /\ c.seen \subseteq TaskIDs
             /\ \A id \in c.seen : Leased(id)
             /\ \A i \in DOMAIN leases :
                   /\ leases[i].TaskID \in c.seen
                   /\ leases[i].WorkerID = c.agent.ID
                   => leases[i].left <= Skew[p]
  <2>1. PICK a \in idle, t \in queued : c = [agent |-> a, task |-> t, seen |-> seen]
    BY <1>1, <1>3
  <2>2. c.agent = a /\ c.task = t /\ c.seen = seen
    BY <2>1
  <2>3. Eligible(a.ID)
    <3>1. PICK i \in DOMAIN agentsSeen[p] :
              a = agentsSeen[p][i] /\ agentMatchesNetwork(a, Org, Pool)
      BY DEF SelectIdleAgent, Selectable
    <3>2. PICK k \in DOMAIN AgentList : SameAgent(a, AgentList[k])
      BY <1>0, <3>1 DEF AgentsListed
    <3>3. agentMatchesNetwork(AgentList[k], Org, Pool) /\ AgentList[k].ID = a.ID
      BY <3>1, <3>2, SameMatch DEF SameAgent
    <3> QED
      BY <3>3 DEF Eligible
  <2>4. t.ID \in TaskIDs
    BY <1>0 DEF FindQueuedTask, TasksListed
  <2>5. seen \subseteq TaskIDs /\ \A id \in seen : Leased(id)
    BY <1>0 DEF TypeOK, LeaseType, TaskIDs, SeenAsListed
  <2>6. \A i \in DOMAIN leases :
            leases[i].TaskID \in seen /\ leases[i].WorkerID = a.ID
            => leases[i].left <= Skew[p]
    BY <1>0, SelectedFree
  <2> QED
    BY <2>2, <2>3, <2>4, <2>5, <2>6
<1>4. ChoiceFree'
  BY <1>0, <1>2, <1>3 DEF ChoiceFree, Leased
<1>5. Shapes'
  BY <1>0, <1>1 DEF Shapes, Select
<1>6. TypeOK' /\ SeenAsListed' /\ AgentsListed' /\ TasksListed'
  BY <1>0 DEF TypeOK, SeenAsListed, AgentsListed, TasksListed, Leased
<1>7. LeasesGranted' /\ OldestFirst' /\ OverlapOnlyUnseenOrSkewed'
  BY <1>0 DEF LeasesGranted, OldestFirst, OverlapOnlyUnseenOrSkewed, Leased
<1> QED
  BY <1>4, <1>5, <1>6, <1>7

(* A granted lease is for a task that was queued, so no planner has seen a *)
(* lease of it; the planner that asked has the agent free of what it saw.  *)
LEMMA GrantKeepsIInv ==
    ASSUME IInv, NEW p \in Planners, Grant(p)
    PROVE  IInv'
<1> USE DEF IInv
<1>. PICK c : c = choice[p]
  OBVIOUS
<1>0. /\ c = choice[p] /\ c # NoList
      /\ UNCHANGED <<status, agentsSeen, leasesSeen, tasksSeen>>
      /\ DOMAIN choice' = Planners
      /\ \A q \in Planners : choice'[q] = IF q = p THEN NoList ELSE choice[q]
  BY DEF Grant, Shapes
<1>1. PICK i \in DOMAIN tasks :
          /\ i = CHOOSE k \in DOMAIN tasks : tasks[k].ID = choice[p].task.ID
          /\ tasks[i].ID = c.task.ID
  <2>1. c.task.ID \in TaskIDs
    BY <1>0 DEF ChoiceFree
  <2>2. PICK n \in DOMAIN TaskList : TaskList[n].ID = c.task.ID
    BY <2>1 DEF TaskIDs
  <2>3. n \in DOMAIN tasks /\ tasks[n].ID = c.task.ID
    BY <2>2, TaskKept DEF Shapes
  <2> DEFINE i == CHOOSE k \in DOMAIN tasks : tasks[k].ID = choice[p].task.ID
  <2>4. i \in DOMAIN tasks /\ tasks[i].ID = c.task.ID
    BY <1>0, <2>3
  <2> QED
    BY <2>4
<1>2. CASE tasks[i].Status # "queued"
  <2>1. UNCHANGED <<tasks, leases>>
    BY <1>1, <1>2 DEF Grant
  <2> QED
    BY <1>0, <2>1
    DEF TypeOK, Shapes, AgentsListed, TasksListed, LeasesGranted, OldestFirst,
        SeenAsListed, ChoiceFree, OverlapOnlyUnseenOrSkewed, Leased
<1>3. CASE tasks[i].Status = "queued"
  <2>1. tasks' = [tasks EXCEPT ![i].Status = "leased"]
    BY <1>0, <1>1, <1>3 DEF Grant
  <2>2. PICK ok \in BOOLEAN :
            leases' = Append(leases,
                [TaskID |-> tasks[i].ID, WorkerID |-> c.agent.ID,
                 left |-> LeaseTime, wellFormed |-> ok, by |-> p, seen |-> c.seen])
    BY <1>0, <1>1, <1>3 DEF Grant
  <2>a. PICK l :
            l = [TaskID |-> tasks[i].ID, WorkerID |-> c.agent.ID,
                 left |-> LeaseTime, wellFormed |-> ok, by |-> p, seen |-> c.seen]
    OBVIOUS
  <2>3. /\ l.TaskID = tasks[i].ID /\ l.WorkerID = c.agent.ID
        /\ l.left = LeaseTime /\ l.by = p /\ l.seen = c.seen
    BY <2>a
  <2>4. l \in LeaseType /\ Eligible(l.WorkerID)
    <3>1. Eligible(c.agent.ID) /\ c.seen \subseteq TaskIDs
      BY <1>0 DEF ChoiceFree
    <3>2. c.agent.ID \in Agents
      BY <3>1 DEF Eligible, Agents
    <3>3. tasks[i].ID \in TaskIDs
      BY <1>1, TaskKept
    <3>4. LeaseTime \in -Floor .. LeaseTime
      BY SelectionAssumption
    <3> QED
      BY <2>a, <2>3, <3>1, <3>2, <3>3, <3>4 DEF LeaseType, TaskIDs
  <2>5. /\ Len(leases) \in Nat
        /\ leases' \in Seq(LeaseType)
        /\ DOMAIN leases = 1 .. Len(leases)
        /\ DOMAIN leases' = 1 .. Len(leases) + 1
        /\ \A j \in DOMAIN leases : leases'[j] = leases[j]
        /\ leases'[Len(leases) + 1] = l
    BY <2>2, <2>a, <2>4 DEF Shapes
  <2>6. /\ DOMAIN tasks' = DOMAIN tasks
        /\ \A k \in DOMAIN tasks :
              tasks'[k] = IF k = i THEN [tasks[i] EXCEPT !.Status = "leased"] ELSE tasks[k]
    BY <1>1, <2>1
  <2>7. \A k \in DOMAIN tasks :
            /\ tasks'[k] \in {TaskList[k], [TaskList[k] EXCEPT !.Status = "leased"]}
            /\ tasks'[k].ID = tasks[k].ID
            /\ tasks'[k].Status = IF k = i THEN "leased" ELSE tasks[k].Status
    <3> TAKE k \in DOMAIN tasks
    <3> DEFINE was == TaskList[k]
    <3>0. was \in [ID : STRING, OrgID : STRING, PoolID : STRING, Status : STRING]
      <4> DEFINE T == [ID : STRING, OrgID : STRING, PoolID : STRING, Status : STRING]
      <4>1. TaskList \in Seq(T)
        BY ListsAssumption
      <4> HIDE DEF T
      <4>2. k \in DOMAIN TaskList
        BY DEF Shapes
      <4>3. TaskList[k] \in T
        BY <4>1, <4>2
      <4> QED
        BY <4>3 DEF T
    <3>1. tasks[k] \in {was, [was EXCEPT !.Status = "leased"]}
      BY DEF TypeOK
    <3> HIDE DEF was
    <3>2. /\ [tasks[k] EXCEPT !.Status = "leased"] = [was EXCEPT !.Status = "leased"]
          /\ [tasks[k] EXCEPT !.Status = "leased"].ID = tasks[k].ID
          /\ [tasks[k] EXCEPT !.Status = "leased"].Status = "leased"
      BY <3>0, <3>1
    <3> QED
      BY <2>6, <3>1, <3>2 DEF was
  <2>8. \A id : Leased(id) => Leased(id)'
    BY <2>6, <2>7 DEF Leased
  <2>9. ~Leased(l.TaskID)
    BY <1>1, <1>3, <2>3, OneTask DEF Leased
  <2>9a. Leased(l.TaskID)'
    BY <1>1, <2>3, <2>6, <2>7 DEF Leased
  <2>10. TypeOK'
    <3>1. \A j \in DOMAIN leases : leases[j].TaskID # l.TaskID
      BY <2>3, <2>9 DEF LeasesGranted
    <3>2. \A j, k \in DOMAIN leases' : leases'[j].TaskID = leases'[k].TaskID => j = k
      BY <2>5, <3>1 DEF TypeOK
    <3>3. LeaseTime > -Floor
      BY SelectionAssumption
    <3>4. \A j \in DOMAIN leases' : leases'[j] \in LeaseType /\ leases'[j].left > -Floor
      BY <2>3, <2>4, <2>5, <3>3 DEF TypeOK
    <3> QED
      BY <1>0, <2>6, <2>7, <3>2, <3>4 DEF TypeOK
  <2>11. Shapes'
    BY <1>0, <2>5, <2>6 DEF Shapes
  <2>12. LeasesGranted'
    <3>1. \A j \in DOMAIN leases' : j = Len(leases) + 1 \/ j \in DOMAIN leases
      BY <2>5
    <3> QED
      BY <2>3, <2>4, <2>5, <2>8, <2>9a, <3>1 DEF LeasesGranted, Eligible
  <2>13. OldestFirst'
    <3>1. \A j \in DOMAIN leases : leases[j].left <= LeaseTime
      BY DEF TypeOK, LeaseType
    <3> QED
      BY <2>3, <2>5, <3>1, SelectionAssumption DEF OldestFirst
  <2>14. SeenAsListed'
    <3>1. \A q \in Planners : leasesSeen[q] # NoList =>
              \A k \in DOMAIN leasesSeen[q] : leasesSeen[q][k].TaskID # l.TaskID
      BY <2>3, <2>9 DEF SeenAsListed
    <3>2. \A j \in DOMAIN leases' : j = Len(leases) + 1 \/ j \in DOMAIN leases
      BY <2>5
    <3> QED
      BY <1>0, <2>5, <2>8, <3>1, <3>2 DEF SeenAsListed
  <2>15. ChoiceFree'
    <3>1. \A q \in Planners : choice'[q] # NoList =>
              choice'[q] = choice[q] /\ l.TaskID \notin choice[q].seen
      BY <1>0, <2>3, <2>9 DEF ChoiceFree
    <3>2. \A j \in DOMAIN leases' : j = Len(leases) + 1 \/ j \in DOMAIN leases
      BY <2>5
    <3> QED
      BY <2>5, <2>8, <3>1, <3>2 DEF ChoiceFree, Eligible
  <2>16. OverlapOnlyUnseenOrSkewed'
    <3>1. \A k \in DOMAIN leases :
              leases[k].WorkerID = l.WorkerID /\ leases[k].TaskID \in l.seen
              => leases[k].left + (LeaseTime - l.left) <= Skew[l.by]
      BY <1>0, <2>3, SelectionAssumption DEF ChoiceFree, TypeOK, LeaseType
    <3>2. \A j \in DOMAIN leases' : j = Len(leases) + 1 \/ j \in DOMAIN leases
      BY <2>5
    <3>3. \A k, j \in DOMAIN leases' : k < j => k \in DOMAIN leases
      BY <2>5
    <3> QED
      BY <2>5, <3>1, <3>2, <3>3 DEF OverlapOnlyUnseenOrSkewed
  <2> QED
    BY <1>0, <2>10, <2>11, <2>12, <2>13, <2>14, <2>15, <2>16
    DEF AgentsListed, TasksListed
<1> QED
  BY <1>2, <1>3

(* A nonempty set of natural numbers has a least element.                  *)
LEMMA LeastNat ==
    ASSUME NEW S \in SUBSET Nat, S # {}
    PROVE  \E m \in S : \A k \in S : m <= k
<1> DEFINE R == OpToRel(<, Nat)
<1>1. IsWellFoundedOn(R, Nat)
  BY NatLessThanWellFounded
<1>2. \A x, y \in Nat : <<x, y>> \in R <=> x < y
  BY DEF OpToRel
<1> HIDE DEF R
<1>3. \E x \in S : \A y \in S : ~ (<<y, x>> \in R)
  BY <1>1, WFMin
<1>4. PICK m \in S : \A y \in S : ~ (<<y, m>> \in R)
  BY <1>3
<1>5. \A k \in S : m <= k
  <2> SUFFICES ASSUME NEW k \in S
               PROVE  m <= k
    OBVIOUS
  <2>1. m \in Nat /\ k \in Nat
    OBVIOUS
  <2>2. ~ (k < m)
    BY <1>2, <1>4, <2>1
  <2> QED
    BY <2>1, <2>2
<1> QED
  BY <1>5

(* Time can always pass: the leases the control plane purges come first.   *)
LEMMA PurgeExists ==
    ASSUME IInv
    PROVE  \E gone \in 0 .. Len(leases) :
               \A i \in DOMAIN leases : Aged(leases)[i].left > -Floor <=> i > gone
<1> DEFINE A == Aged(leases)
           n == Len(leases)
<1>1. n \in Nat /\ DOMAIN leases = 1 .. n
  BY DEF IInv, Shapes
<1>2. \A i \in 1 .. n : leases[i].left \in Int /\ A[i].left = leases[i].left - 1
  <2>1. \A i \in 1 .. n : leases[i] \in LeaseType /\ leases[i].left > -Floor
    BY <1>1 DEF IInv, TypeOK
  <2>2. \A i \in 1 .. n : leases[i].left \in Int
    BY <2>1, SelectionAssumption DEF LeaseType
  <2> QED
    BY <1>1, <2>1, <2>2, AgedLease
<1>3. \A i, j \in 1 .. n : i < j => leases[i].left <= leases[j].left
  BY <1>1 DEF IInv, OldestFirst
<1> HIDE DEF A, n
<1> DEFINE S == {i \in 1 .. n + 1 : i = n + 1 \/ A[i].left > -Floor}
<1>4. S \in SUBSET Nat /\ n + 1 \in S
  BY <1>1
<1>5. PICK m \in S : \A k \in S : m <= k
  <2> HIDE DEF S
  <2> QED
    BY <1>4, LeastNat
<1>6. m \in 1 .. n + 1 /\ m - 1 \in 0 .. n
  BY <1>1, <1>5
<1>7. ASSUME NEW i \in 1 .. n
      PROVE  A[i].left > -Floor <=> i > m - 1
  <2>1. ASSUME A[i].left > -Floor
        PROVE  i > m - 1
    <3>1. i \in S
      BY <1>1, <2>1
    <3> QED
      BY <1>1, <1>5, <1>6, <3>1
  <2>2. ASSUME i > m - 1
        PROVE  A[i].left > -Floor
    <3>1. m \in 1 .. n /\ m <= i
      BY <1>1, <1>6, <2>2
    <3>2. A[m].left > -Floor
      BY <1>1, <1>5, <3>1
    <3>3. leases[m].left <= leases[i].left
      BY <1>2, <1>3, <3>1
    <3> QED
      BY <1>2, <3>1, <3>2, <3>3, SelectionAssumption
  <2> QED
    BY <2>1, <2>2
<1> QED
  BY <1>1, <1>6, <1>7 DEF A, n

(* What is listed after time passed was listed before it, with one more    *)
(* unit left.                                                              *)
LEMMA TickAges ==
    ASSUME IInv, Tick
    PROVE  /\ leases' \in Seq(LeaseType)
           /\ \E gone \in 0 .. Len(leases) :
                 /\ DOMAIN leases' = 1 .. Len(leases) - gone
                 /\ \A j \in DOMAIN leases' :
                       /\ j + gone \in DOMAIN leases
                       /\ leases'[j] \in LeaseType
                       /\ leases'[j].left > -Floor
                       /\ leases'[j].left = leases[j + gone].left - 1
                       /\ leases'[j].TaskID = leases[j + gone].TaskID
                       /\ leases'[j].WorkerID = leases[j + gone].WorkerID
                       /\ leases'[j].by = leases[j + gone].by
                       /\ leases'[j].seen = leases[j + gone].seen
<1> USE DEF IInv
<1>1. PICK gone \in 0 .. Len(leases) :
          /\ \A i \in DOMAIN leases : Aged(leases)[i].left > -Floor <=> i > gone
          /\ leases' = SubSeq(Aged(leases), gone + 1, Len(leases))
  BY DEF Tick
<1>2. /\ Len(leases) \in Nat /\ DOMAIN leases = 1 .. Len(leases)
      /\ \A i \in DOMAIN leases : leases[i] \in LeaseType /\ leases[i].left > -Floor
  BY DEF Shapes, TypeOK
<1> DEFINE A == Aged(leases)
<1>3. /\ DOMAIN A = DOMAIN leases
      /\ \A i \in DOMAIN leases :
            /\ A[i] \in LeaseType
            /\ A[i].left = leases[i].left - 1
            /\ A[i].TaskID = leases[i].TaskID /\ A[i].WorkerID = leases[i].WorkerID
            /\ A[i].by = leases[i].by /\ A[i].seen = leases[i].seen
  BY <1>2, AgedLease, AgedDomain
<1>4. A \in Seq(LeaseType) /\ Len(A) = Len(leases)
  <2>1. A = [i \in 1 .. Len(leases) |-> A[i]]
    BY <1>2 DEF Aged
  <2> HIDE DEF A
  <2>2. A \in [1 .. Len(leases) -> LeaseType]
    BY <1>2, <1>3, <2>1
  <2>3. A \in Seq(LeaseType)
    BY <1>2, <2>2, IsASeq
  <2> QED
    BY <1>2, <1>3, <2>3
<1> HIDE DEF A
<1>5. /\ leases' \in Seq(LeaseType)
      /\ Len(leases') = Len(leases) - gone
      /\ \A j \in 1 .. Len(leases) - gone : leases'[j] = A[j + gone]
  <2>1. leases' = SubSeq(A, gone + 1, Len(leases))
    BY <1>1 DEF A
  <2>2. \A i \in gone + 1 .. Len(leases) : A[i] \in LeaseType
    BY <1>2, <1>3
  <2>3. /\ SubSeq(A, gone + 1, Len(leases)) \in Seq(LeaseType)
        /\ Len(SubSeq(A, gone + 1, Len(leases))) =
              IF gone + 1 <= Len(leases) THEN Len(leases) - (gone + 1) + 1 ELSE 0
        /\ \A j \in 1 .. Len(leases) - (gone + 1) + 1 :
              SubSeq(A, gone + 1, Len(leases))[j] = A[gone + 1 + j - 1]
    BY <1>2, <2>2, SubSeqProperties
  <2>4. Len(leases') = Len(leases) - gone
    <3>1. gone \in Nat /\ gone <= Len(leases)
      BY <1>1, <1>2
    <3> QED
      <4>1. Len(leases') = IF gone + 1 <= Len(leases)
                           THEN Len(leases) - (gone + 1) + 1 ELSE 0
        BY <2>1, <2>3
      <4>2. \A n, g \in Nat : g <= n =>
                (IF g + 1 <= n THEN n - (g + 1) + 1 ELSE 0) = n - g
        OBVIOUS
      <4> QED
        BY <1>2, <3>1, <4>1, <4>2
  <2>5. \A j \in 1 .. Len(leases) - gone : gone + 1 + j - 1 = j + gone
    BY <1>2
  <2>6. 1 .. Len(leases) - (gone + 1) + 1 = 1 .. Len(leases) - gone
    BY <1>2
  <2> QED
    BY <2>1, <2>3, <2>4, <2>5, <2>6
<1>6. \A j \in 1 .. Len(leases) - gone :
          j + gone \in DOMAIN leases /\ A[j + gone].left > -Floor
  <2> TAKE j \in 1 .. Len(leases) - gone
  <2>1. j + gone \in 1 .. Len(leases) /\ j + gone > gone
    BY <1>2
  <2> QED
    BY <1>1, <1>2, <2>1 DEF A
<1>7. DOMAIN leases' = 1 .. Len(leases) - gone
  BY <1>5
<1> QED
  BY <1>3, <1>5, <1>6, <1>7

(* What a planner holds ages as what is listed does, and an agent that was *)
(* free stays free.                                                        *)
LEMMA TickKeepsIInv ==
    ASSUME IInv, Tick
    PROVE  IInv'
<1> USE DEF IInv
<1>1. PICK gone \in 0 .. Len(leases) :
          /\ DOMAIN leases' = 1 .. Len(leases) - gone
          /\ \A j \in DOMAIN leases' :
                /\ j + gone \in DOMAIN leases
                /\ leases'[j] \in LeaseType
                /\ leases'[j].left > -Floor
                /\ leases'[j].left = leases[j + gone].left - 1
                /\ leases'[j].TaskID = leases[j + gone].TaskID
                /\ leases'[j].WorkerID = leases[j + gone].WorkerID
                /\ leases'[j].by = leases[j + gone].by
                /\ leases'[j].seen = leases[j + gone].seen
  BY TickAges
<1>2. leases' \in Seq(LeaseType)
  BY TickAges
<1>3. /\ UNCHANGED <<status, tasks, agentsSeen, tasksSeen, choice>>
      /\ DOMAIN leasesSeen' = Planners
      /\ \A q \in Planners : leasesSeen'[q] # NoList =>
            leasesSeen[q] # NoList /\ leasesSeen'[q] = Aged(leasesSeen[q])
  BY DEF Tick
<1>4. /\ \A j \in DOMAIN leases' : j \in Nat
      /\ \A i \in DOMAIN leases : leases[i].left \in Int /\ leases[i].left > -Floor
      /\ gone \in Nat
  BY <1>1, SelectionAssumption DEF Shapes, TypeOK, LeaseType
<1>5. ASSUME NEW q \in Planners, leasesSeen'[q] # NoList
      PROVE  /\ DOMAIN leasesSeen'[q] = DOMAIN leasesSeen[q]
             /\ \A k \in DOMAIN leasesSeen[q] :
                  /\ leasesSeen'[q][k] \in LeaseType
                  /\ leasesSeen'[q][k].TaskID = leasesSeen[q][k].TaskID
                  /\ leasesSeen'[q][k].WorkerID = leasesSeen[q][k].WorkerID
                  /\ leasesSeen[q][k].left > -Floor =>
                        leasesSeen'[q][k].left = leasesSeen[q][k].left - 1
  BY <1>3, <1>5, AgedLease, AgedDomain DEF TypeOK
<1>6. TypeOK'
  <2>1. \A j, k \in DOMAIN leases' : leases'[j].TaskID = leases'[k].TaskID => j = k
    <3> TAKE j, k \in DOMAIN leases'
    <3> HAVE leases'[j].TaskID = leases'[k].TaskID
    <3>1. j + gone = k + gone
      BY <1>1 DEF TypeOK
    <3> QED
      BY <1>4, <3>1
  <2> QED
    BY <1>1, <1>3, <1>5, <2>1 DEF TypeOK
<1>7. Shapes'
  BY <1>2, <1>3 DEF Shapes
<1>8. LeasesGranted'
  BY <1>1, <1>3 DEF LeasesGranted, Leased
<1>9. OldestFirst'
  <2> SUFFICES ASSUME NEW j \in DOMAIN leases', NEW k \in DOMAIN leases', j < k
               PROVE  leases'[j].left <= leases'[k].left
    BY DEF OldestFirst
  <2>1. j + gone < k + gone
    BY <1>4
  <2>2. leases[j + gone].left <= leases[k + gone].left
    BY <1>1, <2>1 DEF OldestFirst
  <2> QED
    BY <1>1, <1>4, <2>2
<1>10. SeenAsListed'
  <2> SUFFICES ASSUME NEW q \in Planners, leasesSeen'[q] # NoList,
                      NEW k \in DOMAIN leasesSeen'[q]
               PROVE  /\ Leased(leasesSeen'[q][k].TaskID)
                      /\ \A i \in DOMAIN leases' :
                           leases'[i].TaskID = leasesSeen'[q][k].TaskID
                           => /\ leases'[i].WorkerID = leasesSeen'[q][k].WorkerID
                              /\ leases'[i].left = leasesSeen'[q][k].left
    BY <1>3 DEF SeenAsListed, Leased
  <2>1. leasesSeen[q] # NoList /\ k \in DOMAIN leasesSeen[q]
    BY <1>3, <1>5
  <2>2. ASSUME NEW i \in DOMAIN leases',
               leases'[i].TaskID = leasesSeen'[q][k].TaskID
        PROVE  /\ leases'[i].WorkerID = leasesSeen'[q][k].WorkerID
               /\ leases'[i].left = leasesSeen'[q][k].left
    <3>1. /\ leases[i + gone].WorkerID = leasesSeen[q][k].WorkerID
          /\ leases[i + gone].left = leasesSeen[q][k].left
      BY <1>1, <1>5, <2>1, <2>2 DEF SeenAsListed
    <3> QED
      BY <1>1, <1>4, <1>5, <2>1, <3>1
  <2> QED
    BY <1>5, <2>1, <2>2 DEF SeenAsListed
<1>11. ChoiceFree'
  <2>1. \A q \in Planners : Skew[q] \in Int
    BY SelectionAssumption
  <2> QED
    BY <1>1, <1>3, <1>4, <2>1 DEF ChoiceFree, Leased
<1>12. OverlapOnlyUnseenOrSkewed'
  <2> SUFFICES ASSUME NEW i \in DOMAIN leases', NEW j \in DOMAIN leases', i < j,
                      leases'[i].WorkerID = leases'[j].WorkerID,
                      leases'[i].TaskID \in leases'[j].seen
               PROVE  leases'[i].left + (LeaseTime - leases'[j].left)
                        <= Skew[leases'[j].by]
    BY DEF OverlapOnlyUnseenOrSkewed
  <2>1. i + gone < j + gone
    BY <1>4
  <2>2. leases[i + gone].left + (LeaseTime - leases[j + gone].left)
          <= Skew[leases[j + gone].by]
    BY <1>1, <2>1 DEF OverlapOnlyUnseenOrSkewed
  <2>3. leases'[i].left + (LeaseTime - leases'[j].left)
          = leases[i + gone].left + (LeaseTime - leases[j + gone].left)
    BY <1>1, <1>4, SelectionAssumption
  <2> QED
    BY <1>1, <2>2, <2>3
<1> QED
  BY <1>3, <1>6, <1>7, <1>8, <1>9, <1>10, <1>11, <1>12
  DEF AgentsListed, TasksListed

(* The invariant holds in every reachable state.                           *)
THEOREM IInvHolds == Spec => []IInv
<1>1. IInv /\ [Next]_vars => IInv'
  <2> SUFFICES ASSUME IInv, [Next]_vars
               PROVE  IInv'
    OBVIOUS
  <2>1. ASSUME NEW a \in Agents, NEW s \in Statuses, ChangeStatus(a, s)
        PROVE  IInv'
    <3>1. status' \in [Agents -> AgentStatuses]
      BY <2>1, SelectionAssumption DEF ChangeStatus, IInv, TypeOK
    <3> QED
      BY <2>1, <3>1
      DEF ChangeStatus, IInv, TypeOK, Shapes, AgentsListed, TasksListed,
          LeasesGranted, OldestFirst, SeenAsListed, ChoiceFree,
          OverlapOnlyUnseenOrSkewed, Leased
  <2>2. CASE UNCHANGED vars
    BY <2>2
    DEF vars, IInv, TypeOK, Shapes, AgentsListed, TasksListed, LeasesGranted,
        OldestFirst, SeenAsListed, ChoiceFree, OverlapOnlyUnseenOrSkewed, Leased
  <2> QED
    BY <2>1, <2>2, ListsKeepIInv, SelectKeepsIInv, GrantKeepsIInv, TickKeepsIInv
    DEF Next, Poll
<1> QED
  BY <1>1, InitIInv, PTL DEF Spec

(* The state has its type in every reachable state: leases are for listed  *)
(* agents and tasks, a task is leased once, and purged leases are gone.    *)
THEOREM TypeCorrect == Spec => []TypeOK
<1>1. IInv => TypeOK
  BY DEF IInv
<1> QED
  BY <1>1, IInvHolds, PTL

(* However the planners' calls, their selections and the passing of time   *)
(* interleave, leases of one agent overlap only where the later planner's  *)
(* lease list was fetched before the earlier grant, or by the skew of its  *)
(* clock.                                                                  *)
THEOREM OverlapBounded == Spec => []OverlapOnlyUnseenOrSkewed
<1>1. IInv => OverlapOnlyUnseenOrSkewed
  BY DEF IInv
<1> QED
  BY <1>1, IInvHolds, PTL

(* An agent that disabled the network without naming a product, and serves *)
(* it under no enabled profile, has no lease there, whatever planners race *)
(* for it: agentMatchesNetwork takes the implicit default only if no       *)
(* explicit profile without a product is there.                            *)
THEOREM OptOutHolds == Spec => []OptedOutNeverLeased
<1>1. IInv => OptedOutNeverLeased
  <2> SUFFICES ASSUME IInv, NEW i \in DOMAIN leases, NEW k \in DOMAIN AgentList,
                      AgentList[k].ID = leases[i].WorkerID,
                      NEW m \in DOMAIN AgentList[k].Networks,
                      Trimmed[AgentList[k].Networks[m].OrgID] = Trimmed[Org],
                      Trimmed[AgentList[k].Networks[m].PoolID] = Trimmed[Pool],
                      AgentList[k].Networks[m].Disabled,
                      Trimmed[AgentList[k].Networks[m].ProductID] = ""
               PROVE  \E n \in DOMAIN AgentList[k].Networks :
                          /\ Trimmed[AgentList[k].Networks[n].OrgID] = Trimmed[Org]
                          /\ Trimmed[AgentList[k].Networks[n].PoolID] = Trimmed[Pool]
                          /\ ~AgentList[k].Networks[n].Disabled
    BY DEF OptedOutNeverLeased
  <2>1. Eligible(leases[i].WorkerID)
    BY DEF IInv, LeasesGranted
  <2>2. agentMatchesNetwork(AgentList[k], Org, Pool)
    BY <2>1, ListsAssumption DEF Eligible, Unique
  <2>3. \/ Trimmed[AgentList[k].OrgID] # Trimmed[Org]
        \/ Trimmed[AgentList[k].PoolID] # Trimmed[Pool]
        \/ \E n \in DOMAIN AgentList[k].Networks :
              /\ Trimmed[AgentList[k].Networks[n].ProductID] = ""
              /\ Trimmed[AgentList[k].Networks[n].OrgID] = Trimmed[AgentList[k].OrgID]
              /\ Trimmed[AgentList[k].Networks[n].PoolID] = Trimmed[AgentList[k].PoolID]
    OBVIOUS
  <2> QED
    BY <2>2, <2>3 DEF agentMatchesNetwork
<1> QED
  BY <1>1, IInvHolds, PTL

-----------------------------------------------------------------------------
(* Placement, the check that comes before a lease: RuntimePlacement for    *)
(* every list of reports and statuses, all hardware and every requirement. *)

(* What a derivation left behind: the executors or providers of published  *)
(* reports, at a time that has passed.                                     *)
ExecutorsFrom(e) ==
    /\ e.from \in ReportLists /\ e.at \in 1 .. now
    /\ e.set = RuntimeBackendReportsSupportedExecutors(e.from, e.at)

ProvidersFrom(p) ==
    /\ p.from \in ReportLists /\ p.at \in 1 .. now
    /\ p.set = ProviderCapabilityReportsFromRuntimeBackends(p.from, p.at)
    /\ p.own \in DeclaredLists /\ p.hw \in HardwareSets /\ p.hwNow \in {0, p.at}

CapsOf(e, p) ==
    [Executors |-> e.set, Providers |-> p.set, own |-> p.own,
     ExecutionTiers |-> DeclaredTiers, ProofTiers |-> DeclaredProofs,
     CapabilityTags |-> DeclaredTags]

(* What the checks of Place accepted, at some time since the providers were*)
(* derived.                                                                *)
Fits(req, e, p, t) ==
    /\ req \in Requests
    /\ ExecutorsFrom(e) /\ ProvidersFrom(p)
    /\ t \in p.at .. now
    /\ ValidatePlacement(req, CapsOf(e, p))
    /\ HardwareSatisfies(req, p.hw, p.hwNow, t)
    /\ LimitsEnforceable(req, CapsOf(e, p))

WorkerPublishes ==
    /\ now \in 1 .. MaxNow
    /\ reports \in ReportLists /\ declared \in DeclaredLists /\ hardware \in HardwareSets

(* The strengthening: what is derived, and what a placement rests on, is   *)
(* what the functions return for the reports it names.                     *)
PlacementIInv ==
    /\ WorkerPublishes
    /\ executors # Nothing => ExecutorsFrom(executors)
    /\ providers # Nothing => ProvidersFrom(providers)
    /\ placed # Nothing =>
          \E t \in Nat : Fits(placed.req, placed.executors, placed.providers, t)

(* Reports that are replaced and time that passes leave alone what was     *)
(* derived.                                                                *)
LEMMA PlacementStep ==
    ASSUME PlacementIInv, [PlacementNext]_placementVars
    PROVE  PlacementIInv'
<1>1. ASSUME UNCHANGED placementVars
      PROVE  PlacementIInv'
  BY <1>1 DEF placementVars, PlacementIInv, WorkerPublishes, ExecutorsFrom,
     ProvidersFrom, Fits
<1>2. ASSUME NEW list \in ReportLists, NEW own \in DeclaredLists, placed = Nothing,
             Publish(list, own)
      PROVE  PlacementIInv'
  BY <1>2 DEF Publish, PlacementIInv, WorkerPublishes, ExecutorsFrom,
     ProvidersFrom
<1>3. ASSUME NEW hw \in HardwareSets, placed = Nothing, Attest(hw)
      PROVE  PlacementIInv'
  BY <1>3
  DEF Attest, PlacementIInv, WorkerPublishes, ExecutorsFrom, ProvidersFrom
<1>4. ASSUME placed = Nothing, DeriveExecutors
      PROVE  PlacementIInv'
  BY <1>4 DEF DeriveExecutors, PlacementIInv, WorkerPublishes,
     ExecutorsFrom, ProvidersFrom
<1>5. ASSUME NEW hwNow \in {0, now}, placed = Nothing, DeriveProviders(hwNow)
      PROVE  PlacementIInv'
  BY <1>5 DEF DeriveProviders, PlacementIInv, WorkerPublishes,
     ExecutorsFrom, ProvidersFrom
<1>6. ASSUME NEW req \in Requests, placed = Nothing, Place(req)
      PROVE  PlacementIInv'
  <2>1. Fits(req, executors, providers, now)
    BY <1>6 DEF Place, Caps, PlacementIInv, WorkerPublishes,
       Fits, CapsOf,
       ExecutorsFrom, ProvidersFrom
  <2>2. Fits(req, executors, providers, now)'
    BY <1>6, <2>1 DEF Place, Fits, ExecutorsFrom, ProvidersFrom
  <2> QED
    BY <1>6, <2>2 DEF Place, PlacementIInv, WorkerPublishes, ExecutorsFrom,
       ProvidersFrom
<1>7. ASSUME placed = Nothing, PlacementTick
      PROVE  PlacementIInv'
  BY <1>7, PlacementAssumption DEF PlacementTick,
     PlacementAssumption, PlacementIInv, WorkerPublishes, ExecutorsFrom,
     ProvidersFrom
<1> QED
  BY <1>1, <1>2, <1>3, <1>4, <1>5, <1>6, <1>7 DEF PlacementNext

(* The placement invariant holds in every reachable state.                 *)
THEOREM PlacementInvariant ==
    PlacementSpec => []PlacementIInv
<1>1. ASSUME PlacementInit PROVE PlacementIInv
  BY <1>1, PlacementAssumption
  DEF PlacementInit, PlacementAssumption, PlacementIInv, WorkerPublishes
<1>2. PlacementIInv /\ [PlacementNext]_placementVars => PlacementIInv'
  BY PlacementStep
<1> QED
  BY <1>1, <1>2, PTL DEF PlacementSpec

(* A report that is usable at t shows support at t.                        *)
LEMMA SupportShown ==
    ASSUME NEW list, NEW t, NEW r \in UsableReports(list, t)
    PROVE  /\ \E i \in DOMAIN list : list[i] = r
           /\ r.wellFormed
           /\ \A x \in ExecutorsOf(r) : ValidExecutor(x)
           /\ ShowsSupport(r, t)
<1>1. PICK i \in DOMAIN list :
          list[i] = r /\ r.Status = "supported" /\ ValidReport(r, t)
  BY DEF UsableReports
<1>2. /\ RequiredEvidence \subseteq r.Evidence
      /\ r.InstallBurden = "bundled" => r.Bundle # NoBundle
  BY <1>1 DEF ValidReport
<1>3. ASSUME r.Bundle # NoBundle
      PROVE  r.Bundle.subject.Family = r.Family /\ r.Bundle.ValidUntil > t
  BY <1>1, <1>3 DEF ValidReport, ValidBundle
<1>4. r.wellFormed /\ \A k \in DOMAIN r.Executors : ValidExecutor(r.Executors[k])
  BY <1>1 DEF ValidReport
<1>5. \A x \in ExecutorsOf(r) : ValidExecutor(x)
  BY <1>4 DEF ExecutorsOf
<1> QED
  BY <1>1, <1>2, <1>3, <1>4, <1>5 DEF ShowsSupport

(* A set of positions of a list has a first one.                           *)
LEMMA FirstOf ==
    ASSUME NEW Entry, NEW own \in Seq(Entry), NEW mine \in SUBSET DOMAIN own,
           NEW k \in mine
    PROVE  \E first \in mine :
              /\ first \in 1 .. k /\ own[first] \in Entry
              /\ \A j \in mine : first <= j
<1>1. DOMAIN own = 1 .. Len(own) /\ Len(own) \in Nat
  OBVIOUS
<1>2. mine \in SUBSET Nat /\ mine # {}
  BY <1>1
<1>3. PICK first \in mine : \A j \in mine : first <= j
  BY <1>2, LeastNat
<1> QED
  BY <1>1, <1>3

(* A provider that is not refused is not declared, or is declared supported*)
(* first.                                                                  *)
LEMMA FirstDeclared ==
    ASSUME NEW own \in DeclaredLists, NEW derived,
           NEW p, p # "",
           Unrefused(providerCapabilityReportForProvider(own, derived, p))
    PROVE  DeclaredUsable(own, p)
<1> SUFFICES ASSUME NEW k \in DOMAIN own, own[k].Provider = p
             PROVE  \E first \in 1 .. k :
                        own[first] = [Provider |-> p, Status |-> "supported"]
  BY DEF DeclaredUsable
<1> DEFINE mine == {i \in DOMAIN own : own[i].Provider = p}
<1>1. own \in Seq([Provider : STRING, Status : STRING])
  BY PlacementAssumption DEF PlacementAssumption, PublishedDocuments
<1>2. mine \in SUBSET DOMAIN own /\ k \in mine
  OBVIOUS
<1>3. PICK first \in mine :
          /\ first \in 1 .. k /\ own[first] \in [Provider : STRING, Status : STRING]
          /\ \A j \in mine : first <= j
  <2> HIDE DEF mine
  <2> QED
    BY <1>1, <1>2, FirstOf
<1>4. own[first].Status \in providerCapabilityReportForProvider(own, derived, p)
  BY <1>3 DEF providerCapabilityReportForProvider
<1>5. own[first].Status = "supported"
  BY <1>4 DEF Unrefused
<1>6. own[first] = [Provider |-> p, Status |-> "supported"]
  BY <1>3, <1>5
<1> QED
  BY <1>3, <1>6

(* The executor that met the requirements is one backend's, and its        *)
(* provider is usable.                                                     *)
LEMMA MatchOfOneBackend ==
    ASSUME NEW req, NEW e, NEW p, NEW t, Fits(req, e, p, t), e.set # {}
    PROVE  \E i \in DOMAIN e.from :
              /\ ShowsSupport(e.from[i], e.at)
              /\ \E x \in ExecutorsOf(e.from[i]) :
                    /\ x \in e.set
                    /\ ExecutorMatches(x, req)
                    /\ DeclaredUsable(p.own, x.Provider)
<1>1. ExecutorCapabilitiesHaveSupportedMatch(req, CapsOf(e, p))
  BY DEF Fits, ValidatePlacement, CapsOf
<1>2. PICK x \in e.set :
          /\ ExecutorMatches(x, req)
          /\ Unrefused(
                providerCapabilityReportForProvider(p.own, p.set, x.Provider))
  BY <1>1 DEF ExecutorCapabilitiesHaveSupportedMatch, CapsOf
<1>3. PICK r \in UsableReports(e.from, e.at) : x \in ExecutorsOf(r)
  BY <1>2 DEF Fits, ExecutorsFrom, RuntimeBackendReportsSupportedExecutors
<1>4. PICK i \in DOMAIN e.from : e.from[i] = r
  BY <1>3, SupportShown
<1>5. ValidExecutor(x)
  BY <1>3, SupportShown
<1>6. DeclaredUsable(p.own, x.Provider)
  BY <1>2, <1>5, FirstDeclared DEF Fits, ProvidersFrom, ValidExecutor
<1> QED
  BY <1>2, <1>3, <1>4, <1>6, SupportShown

(* An executor that meets a tier besides the requirements enforces limits if*)
(* any executor of that tier does: the two checks need not pick the same.  *)
LEMMA OneBackend ==
    ASSUME PlacementIInv
    PROVE  OneBackendMatches
<1> SUFFICES ASSUME placed # Nothing, placed.executors.set # {}
             PROVE  OneBackendMatches
  BY DEF OneBackendMatches, CapabilitiesOfOneBackend,
     LimitsHeldByMatch
<1> DEFINE req == placed.req
           e == placed.executors
           p == placed.providers
<1>1. PICK t \in Nat : Fits(req, e, p, t)
  BY DEF PlacementIInv
<1>2. PICK i \in DOMAIN e.from :
          /\ ShowsSupport(e.from[i], e.at)
          /\ \E x \in ExecutorsOf(e.from[i]) :
                /\ x \in e.set
                /\ ExecutorMatches(x, req)
                /\ DeclaredUsable(p.own, x.Provider)
  BY <1>1, MatchOfOneBackend
<1>3. PICK x \in ExecutorsOf(e.from[i]) :
          /\ x \in e.set
          /\ ExecutorMatches(x, req)
          /\ DeclaredUsable(p.own, x.Provider)
  BY <1>2
<1>4. CapabilitiesOfOneBackend
  BY <1>2, <1>3 DEF CapabilitiesOfOneBackend, ExecutorMatches
<1>5. ASSUME req.limited, req.ExecutionSecurityTier # ""
      PROVE  req.ExecutionSecurityTier # "trusted-native"
  <2>1. LimitsEnforceable(req, CapsOf(e, p))
    BY <1>1 DEF Fits
  <2>2. PICK y \in e.set :
            /\ ExecutorMatches(y, req)
            /\ ExecutionTierSupportsResourceLimits(y.ExecutionSecurityTier)
    BY <1>5, <2>1 DEF LimitsEnforceable, CapsOf
  <2> QED
    BY <1>5, <2>2
    DEF ExecutorMatches, ExecutionTierSupportsResourceLimits
<1>6. LimitsHeldByMatch
  BY <1>3, <1>5 DEF LimitsHeldByMatch, ExecutorMatches
<1> QED
  BY <1>4, <1>6 DEF OneBackendMatches

(* The provider and the attestation come from the same derivation, whose   *)
(* instant is never after the one the attestation was checked at.          *)
LEMMA OnEvidence ==
    ASSUME PlacementIInv
    PROVE  PlacedOnEvidence
<1> SUFFICES ASSUME placed # Nothing
             PROVE  PlacedOnEvidence
  BY DEF PlacedOnEvidence, NamedProviderBacked,
     ConfidentialNeedsAttestation
<1> DEFINE req == placed.req
           e == placed.executors
           p == placed.providers
<1>1. PICK t \in Nat : Fits(req, e, p, t)
  BY DEF PlacementIInv
<1>2. ASSUME req.ExecutorProvider # ""
      PROVE  \E i \in DOMAIN p.from :
                /\ ShowsSupport(p.from[i], p.at)
                /\ req.ExecutorProvider \in p.from[i].ExecutorProviders
                      \cup {x.Provider : x \in ExecutorsOf(p.from[i])}
  <2>1. req.ExecutorProvider \in p.set
    BY <1>1, <1>2 DEF Fits, ValidatePlacement, CapsOf
  <2>2. PICK r \in UsableReports(p.from, p.at) :
            req.ExecutorProvider \in r.ExecutorProviders
                \cup {x.Provider : x \in ExecutorsOf(r)}
    BY <1>1, <2>1 DEF Fits, ProvidersFrom,
       ProviderCapabilityReportsFromRuntimeBackends
  <2> QED
    BY <2>2, SupportShown
<1>3. NamedProviderBacked
  BY <1>2 DEF NamedProviderBacked
<1>4. ASSUME req.ExecutionSecurityTier \in Confidential
      PROVE  \E a \in p.hw.Attestations :
                /\ a.Verified /\ a.Class = RequiredHardwareClass(req)
                /\ a.ExpiresAt = 0 \/ a.ExpiresAt > p.at
  <2> DEFINE class == RequiredHardwareClass(req)
             u == IF p.hwNow = 0 THEN t ELSE p.hwNow
  <2>1. class # ""
    BY <1>4 DEF RequiredHardwareClass, Confidential
  <2>2. \E a \in p.hw.Attestations : LiveAttestation(a, class, u)
    BY <1>1, <1>4, <2>1 DEF Fits, HardwareSatisfies
  <2>3. PICK a \in p.hw.Attestations : LiveAttestation(a, class, u)
    BY <2>2
  <2>4. u \in Nat /\ p.at \in Nat /\ u >= p.at
    BY <1>1 DEF Fits, ProvidersFrom, PlacementIInv, WorkerPublishes
  <2>5. a.ExpiresAt \in Nat
    BY <1>1, PlacementAssumption
    DEF Fits, ProvidersFrom, PlacementAssumption, PublishedDocuments
  <2> QED
    BY <2>3, <2>4, <2>5 DEF LiveAttestation
<1>5. ConfidentialNeedsAttestation
  BY <1>4 DEF ConfidentialNeedsAttestation
<1> QED
  BY <1>3, <1>5 DEF PlacedOnEvidence

(* Usable reports have valid executors and no empty provider.              *)
LEMMA PlacementTyped ==
    ASSUME PlacementIInv
    PROVE  PlacementTypeOK
<1>1. ASSUME executors # Nothing
      PROVE  \A x \in executors.set : ValidExecutor(x)
  <2> TAKE x \in executors.set
  <2>1. PICK r \in UsableReports(executors.from, executors.at) :
            x \in ExecutorsOf(r)
    BY <1>1 DEF PlacementIInv, ExecutorsFrom,
       RuntimeBackendReportsSupportedExecutors
  <2> QED
    BY <2>1, SupportShown
<1>2. ASSUME providers # Nothing
      PROVE  "" \notin providers.set
  <2> SUFFICES ASSUME NEW r \in UsableReports(providers.from, providers.at),
                      "" \in r.ExecutorProviders
                          \cup {x.Provider : x \in ExecutorsOf(r)}
               PROVE  FALSE
    BY <1>2 DEF PlacementIInv, ProvidersFrom,
       ProviderCapabilityReportsFromRuntimeBackends
  <2>1. \A x \in ExecutorsOf(r) : x.Provider # ""
    BY SupportShown DEF ValidExecutor
  <2>2. PICK i \in DOMAIN providers.from : providers.from[i] = r
    BY SupportShown
  <2>3. providers.from \in ReportLists /\ providers.from[i].wellFormed
    BY <1>2, <2>2, SupportShown DEF PlacementIInv, ProvidersFrom
  <2>4. "" \notin r.ExecutorProviders
    BY <2>2, <2>3, PlacementAssumption
    DEF PlacementAssumption, PublishedDocuments
  <2> QED
    BY <2>1, <2>4
<1> QED
  BY <1>1, <1>2 DEF PlacementTypeOK, PlacementIInv, WorkerPublishes, ExecutorsFrom,
     ProvidersFrom, Fits

(* Derived executors are valid, derived providers are named, and both are  *)
(* of published reports at a time that has passed, in every reachable state*)
(* of RuntimePlacement.                                                    *)
THEOREM PlacementTypeCorrect == PlacementSpec => []PlacementTypeOK
<1>1. PlacementIInv => PlacementTypeOK
  BY PlacementTyped
<1> QED
  BY <1>1, PlacementInvariant, PTL

(* A placement that names a provider rests on a backend that showed full   *)
(* evidence for it, and one of a confidential tier on an attestation that  *)
(* had not expired, when the capabilities were derived; for every number of*)
(* reports, replacements and expiries between derivation and placement.    *)
THEOREM PlacementRests == PlacementSpec => []PlacedOnEvidence
<1>1. PlacementIInv => PlacedOnEvidence
  BY OnEvidence
<1> QED
  BY <1>1, PlacementInvariant, PTL

(* Unless no executor was derived, one backend meets all requirements, its *)
(* provider usable and its tier able to enforce the limits asked for: the  *)
(* checks of ValidatePlacementRequirementsAgainstCapabilities, made apart, *)
(* never combine capabilities of two backends.                             *)
THEOREM PlacementOfOneBackend == PlacementSpec => []OneBackendMatches
<1>1. PlacementIInv => OneBackendMatches
  BY OneBackend
<1> QED
  BY <1>1, PlacementInvariant, PTL
=============================================================================
