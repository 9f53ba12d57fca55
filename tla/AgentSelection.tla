--------------------------- MODULE AgentSelection ---------------------------
(***************************************************************************)
(* Choosing an agent for a queued task: the list calls of                  *)
(* protocol/client.go and SelectIdleAgent, agentMatchesNetwork and         *)
(* FindQueuedTask of protocol/types.go.  A planner lists agents, leases and*)
(* tasks in separate HTTP calls, each of which may fail, then selects from *)
(* what it has and asks the control plane for a lease.  The control plane, *)
(* which answers the calls and grants leases, is external.                 *)
(*                                                                         *)
(* A lease is modelled by the time it has left, ExpiresAt minus the control*)
(* plane's clock, which needs no bound on the clocks; a planner's clock is *)
(* Skew ahead of the control plane's.                                      *)
(***************************************************************************)
EXTENDS Integers, Sequences, FiniteSets

CONSTANTS
    Planners,
    Skew,        \* how far ahead each planner's clock is
    AgentList,   \* agents in the order the control plane lists them
    TaskList,    \* tasks in the order the control plane lists them
    Org, Pool,   \* the network the planners select for
    Trimmed,     \* strings.TrimSpace on the names in use
    Steady,      \* the agents that stay online
    Statuses,    \* the statuses the other agents take
    LeaseTime,   \* the length of a lease
    Floor,       \* leases that expired this long ago are purged
    NoList       \* a list that was not fetched

VARIABLES
    status,      \* the status of every agent
    tasks,       \* the status of every task, in listing order
    leases,      \* leases the control plane lists
    agentsSeen, leasesSeen, tasksSeen,  \* what each planner last fetched
    choice       \* the agent and task each planner has selected

vars == <<status, tasks, leases, agentsSeen, leasesSeen, tasksSeen, choice>>

Agents == {AgentList[i].ID : i \in DOMAIN AgentList}

AgentStatuses == {"", "online", "draining", "offline"}

ASSUME SelectionAssumption ==
    /\ Skew \in [Planners -> Int]
    /\ LeaseTime \in Nat \ {0} /\ Floor \in Nat
    /\ \A p \in Planners : Skew[p] > -Floor
    /\ Steady \subseteq Agents
    /\ Statuses \subseteq AgentStatuses

(* The lists name every agent and every task once: the control plane       *)
(* refuses an id it has.                                                   *)
Unique(list) == \A i, j \in DOMAIN list : list[i].ID = list[j].ID => i = j

ASSUME ListsAssumption ==
    /\ Unique(AgentList) /\ Unique(TaskList)
    /\ TaskList \in Seq([ID : STRING, OrgID : STRING, PoolID : STRING, Status : STRING])

-----------------------------------------------------------------------------
(* Selection.                                                              *)

(* A slip: the implicit default is matched first, explicit or not.         *)
agentMatchesNetwork_DefaultFirst(agent, org, pool) ==
    \/ Trimmed[agent.OrgID] = Trimmed[org] /\ Trimmed[agent.PoolID] = Trimmed[pool]
    \/ \E i \in DOMAIN agent.Networks :
          /\ ~agent.Networks[i].Disabled
          /\ Trimmed[agent.Networks[i].OrgID] = Trimmed[org]
          /\ Trimmed[agent.Networks[i].PoolID] = Trimmed[pool]

(* An explicit profile without a product replaces the agent's own default. *)
agentMatchesNetwork(agent, org, pool) ==
    LET At(n, o, q) == Trimmed[n.OrgID] = Trimmed[o] /\ Trimmed[n.PoolID] = Trimmed[q]
    IN  \/ \E i \in DOMAIN agent.Networks :
              ~agent.Networks[i].Disabled /\ At(agent.Networks[i], org, pool)
        \/ /\ At(agent, org, pool)
           /\ ~ \E i \in DOMAIN agent.Networks :
                  /\ Trimmed[agent.Networks[i].ProductID] = ""
                  /\ At(agent.Networks[i], agent.OrgID, agent.PoolID)

(* A slip: the lease's start is compared with now, not its end.            *)
Busy_ByLeasedAt(a, list, skew) ==
    \E i \in DOMAIN list : list[i].WorkerID = a /\ list[i].left - LeaseTime > skew

(* A lease of the agent expires after the planner's now.                   *)
Busy(a, list, skew) ==
    \E i \in DOMAIN list : list[i].WorkerID = a /\ list[i].left > skew

Selectable(agent, list, skew) ==
    /\ agent.Status = "online"
    /\ agentMatchesNetwork(agent, Org, Pool)
    /\ ~Busy(agent.ID, list, skew)

(* A slip: the zero Agent is returned as if it had been selected.          *)
SelectIdleAgent_ZeroAgent(agents, list, skew) ==
    LET idle == {i \in DOMAIN agents : Selectable(agents[i], list, skew)}
    IN  IF idle = {} THEN {[ID |-> "", OrgID |-> "", PoolID |-> "", Networks |-> <<>>, Status |-> ""]}
        ELSE {agents[i] : i \in {i \in idle : \A j \in idle : i <= j}}

(* The first selectable agent of the list, if any.                         *)
SelectIdleAgent(agents, list, skew) ==
    {agents[i] : i \in {i \in DOMAIN agents :
        /\ Selectable(agents[i], list, skew)
        /\ \A j \in 1 .. i - 1 : ~Selectable(agents[j], list, skew)}}

(* A slip: the first task of the network, whatever its status.             *)
FindQueuedTask_AnyStatus(list) ==
    LET Ours(t) == t.OrgID = Org /\ t.PoolID = Pool
    IN  {list[i] : i \in {i \in DOMAIN list :
            Ours(list[i]) /\ \A j \in 1 .. i - 1 : ~Ours(list[j])}}

(* The first queued task of the network, whose names are not trimmed.      *)
FindQueuedTask(list) ==
    LET Queued(t) == t.OrgID = Org /\ t.PoolID = Pool /\ t.Status = "queued"
    IN  {list[i] : i \in {i \in DOMAIN list :
            Queued(list[i]) /\ \A j \in 1 .. i - 1 : ~Queued(list[j])}}

(* Lease.Validate as ListLeases applies it; the syntax of the remaining    *)
(* fields is in wellFormed.                                                *)
ValidLease(l) == l.wellFormed /\ l.WorkerID # "" /\ l.TaskID # ""

-----------------------------------------------------------------------------
Init ==
    /\ status \in [Agents -> Statuses \cup {"online"}]
    /\ \A a \in Steady : status[a] = "online"
    /\ tasks = TaskList
    /\ leases = <<>>
    /\ agentsSeen = [p \in Planners |-> NoList]
    /\ leasesSeen = [p \in Planners |-> NoList]
    /\ tasksSeen = [p \in Planners |-> NoList]
    /\ choice = [p \in Planners |-> NoList]

Listed == [i \in DOMAIN AgentList |->
              [ID |-> AgentList[i].ID, OrgID |-> AgentList[i].OrgID,
               PoolID |-> AgentList[i].PoolID, Networks |-> AgentList[i].Networks,
               Status |-> status[AgentList[i].ID]]]

(* The three calls return a list or an error; after an error the planner   *)
(* has no more than before, so a failed call is a stuttering step.         *)
ListAgents(p) ==
    /\ choice[p] = NoList /\ agentsSeen[p] = NoList
    /\ agentsSeen' = [agentsSeen EXCEPT ![p] = Listed]
    /\ UNCHANGED <<status, tasks, leases, leasesSeen, tasksSeen, choice>>

(* One lease that does not validate fails the whole list.                  *)
ListLeases(p) ==
    /\ choice[p] = NoList /\ leasesSeen[p] = NoList
    /\ \A i \in DOMAIN leases : ValidLease(leases[i])
    /\ leasesSeen' = [leasesSeen EXCEPT ![p] = leases]
    /\ UNCHANGED <<status, tasks, leases, agentsSeen, tasksSeen, choice>>

ListTasks(p) ==
    /\ choice[p] = NoList /\ tasksSeen[p] = NoList
    /\ tasksSeen' = [tasksSeen EXCEPT ![p] = tasks]
    /\ UNCHANGED <<status, tasks, leases, agentsSeen, leasesSeen, choice>>

(* The planner selects from the three lists it holds, and drops them.  The *)
(* selection remembers, as history, the tasks whose leases it had seen.    *)
Select(p) ==
    /\ choice[p] = NoList
    /\ NoList \notin {agentsSeen[p], leasesSeen[p], tasksSeen[p]}
    /\ LET idle   == SelectIdleAgent(agentsSeen[p], leasesSeen[p], Skew[p])
           queued == FindQueuedTask(tasksSeen[p])
           seen   == {leasesSeen[p][i].TaskID : i \in DOMAIN leasesSeen[p]}
       IN  choice' \in {[choice EXCEPT ![p] = c] : c \in
               IF idle = {} \/ queued = {} THEN {NoList}
               ELSE {[agent |-> a, task |-> t, seen |-> seen] : a \in idle, t \in queued}}
    /\ agentsSeen' = [agentsSeen EXCEPT ![p] = NoList]
    /\ leasesSeen' = [leasesSeen EXCEPT ![p] = NoList]
    /\ tasksSeen' = [tasksSeen EXCEPT ![p] = NoList]
    /\ UNCHANGED <<status, tasks, leases>>

(* The control plane grants the lease if the task is still queued, and     *)
(* refuses it otherwise; the lease it stores may lack a field.             *)
Grant(p) ==
    /\ choice[p] # NoList
    /\ choice' = [choice EXCEPT ![p] = NoList]
    /\ LET i == CHOOSE i \in DOMAIN tasks : tasks[i].ID = choice[p].task.ID
       IN  IF tasks[i].Status = "queued"
           THEN /\ tasks' = [tasks EXCEPT ![i].Status = "leased"]
                /\ \E ok \in BOOLEAN :
                     leases' = Append(leases,
                         [TaskID |-> tasks[i].ID, WorkerID |-> choice[p].agent.ID,
                          left |-> LeaseTime, wellFormed |-> ok,
                          by |-> p, seen |-> choice[p].seen])
           ELSE UNCHANGED <<tasks, leases>>
    /\ UNCHANGED <<status, agentsSeen, leasesSeen, tasksSeen>>

ChangeStatus(a, s) ==
    /\ a \notin Steady
    /\ status' = [status EXCEPT ![a] = s]
    /\ UNCHANGED <<tasks, leases, agentsSeen, leasesSeen, tasksSeen, choice>>

(* Time passes for every lease, listed or held by a planner; the control   *)
(* plane purges a lease once it expired Floor ago.  Leases are of one      *)
(* length, so those that are purged come first.                            *)
Aged(list) == [i \in DOMAIN list |->
                  [list[i] EXCEPT !.left = IF @ > -Floor THEN @ - 1 ELSE @]]

Tick ==
    /\ \E gone \in 0 .. Len(leases) :
          /\ \A i \in DOMAIN leases : Aged(leases)[i].left > -Floor <=> i > gone
          /\ leases' = SubSeq(Aged(leases), gone + 1, Len(leases))
    /\ leasesSeen' = [p \in Planners |->
                         IF leasesSeen[p] = NoList THEN NoList ELSE Aged(leasesSeen[p])]
    /\ UNCHANGED <<status, tasks, agentsSeen, tasksSeen, choice>>

(* A planner is one process that never stops: it makes the calls it still  *)
(* needs in some order, each answered in the end if the control plane can  *)
(* answer it, then selects, and asks for what it selected.                 *)
Poll(p) ==
    \/ ListAgents(p) \/ ListLeases(p) \/ ListTasks(p)
    \/ Select(p)
    \/ Grant(p)

Next ==
    \/ \E p \in Planners : Poll(p)
    \/ \E a \in Agents, s \in Statuses : ChangeStatus(a, s)
    \/ Tick

Spec == Init /\ [][Next]_vars

FairSpec ==
    /\ Spec
    /\ WF_vars(Tick)
    /\ \A p \in Planners : WF_vars(Poll(p))

-----------------------------------------------------------------------------
(* Properties.                                                             *)

LeaseType ==
    [TaskID : {TaskList[i].ID : i \in DOMAIN TaskList}, WorkerID : Agents,
     left : -Floor .. LeaseTime, wellFormed : BOOLEAN, by : Planners,
     seen : SUBSET {TaskList[i].ID : i \in DOMAIN TaskList}]

(* The state has its type: in particular every lease is for a listed agent *)
(* and task, a task is leased once, and a purged lease is gone.            *)
TypeOK ==
    /\ status \in [Agents -> AgentStatuses]
    /\ \A i \in DOMAIN tasks : tasks[i] \in {TaskList[i], [TaskList[i] EXCEPT !.Status = "leased"]}
    /\ \A i \in DOMAIN leases : leases[i] \in LeaseType /\ leases[i].left > -Floor
    /\ \A i, j \in DOMAIN leases : leases[i].TaskID = leases[j].TaskID => i = j
    /\ \A p \in Planners : leasesSeen[p] # NoList =>
          \A i \in DOMAIN leasesSeen[p] : leasesSeen[p][i] \in LeaseType

(* Two leases of one agent overlap only if the later planner fetched its   *)
(* leases before the earlier lease was granted, or by no more than the     *)
(* planner's clock runs ahead: the busy check of SelectIdleAgent looks at  *)
(* every lease of the agent, and an answer that was late stays safe.       *)
OverlapOnlyUnseenOrSkewed ==
    \A i, j \in DOMAIN leases :
        /\ i < j
        /\ leases[i].WorkerID = leases[j].WorkerID
        /\ leases[i].TaskID \in leases[j].seen
        => leases[i].left + (LeaseTime - leases[j].left) <= Skew[leases[j].by]

(* An agent that disabled the network without naming a product, and serves *)
(* it under no enabled profile, is never given a lease there, even if its  *)
(* own OrgID and PoolID name the network (hasExplicitDefault).             *)
OptedOutNeverLeased ==
    \A i \in DOMAIN leases : \A k \in DOMAIN AgentList :
        LET Here == {n \in {AgentList[k].Networks[m] : m \in DOMAIN AgentList[k].Networks} :
                        /\ Trimmed[n.OrgID] = Trimmed[Org]
                        /\ Trimmed[n.PoolID] = Trimmed[Pool]}
        IN  /\ AgentList[k].ID = leases[i].WorkerID
            /\ \E n \in Here : n.Disabled /\ Trimmed[n.ProductID] = ""
            => \E n \in Here : ~n.Disabled

(* Every queued task of the network is leased in the end, if some agent of *)
(* the network stays online: expired leases stop counting, a malformed     *)
(* lease blinds ListLeases only until it is purged, planners that race for *)
(* a task try again, and FindQueuedTask gets past tasks that are taken.    *)
QueuedEventuallyLeased ==
    <>(\A i \in DOMAIN tasks :
           tasks[i].OrgID = Org /\ tasks[i].PoolID = Pool => tasks[i].Status = "leased")

=============================================================================
