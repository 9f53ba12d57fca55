-------------------------- MODULE MCAgentSelection --------------------------
(* An instance of AgentSelection: two planners with skewed clocks that     *)
(* share the pool and race for its two tasks.                              *)
EXTENDS AgentSelection, TLC

CONSTANTS Ahead, Behind,  \* how far the clocks of planners A and B are off
    Wanted          \* how many tasks are queued for the pool

MCTrimmed == ("" :> "" @@ "org" :> "org" @@ "pool" :> "pool" @@ " pool" :> "pool"
              @@ "other" :> "other" @@ "p1" :> "p1")
MCSkew == [p \in Planners |-> IF p = "A" THEN Ahead ELSE -Behind]

Profile(product, pool, disabled) ==
    [ProductID |-> product, OrgID |-> "org", PoolID |-> pool, Disabled |-> disabled]

(* w1 opted out of its default network, w2 serves it without saying so     *)
(* (with a disabled product), w3 is a member of it by an explicit profile. *)
MCAgentList ==
    <<[ID |-> "w1", OrgID |-> "org", PoolID |-> "pool",
       Networks |-> <<Profile("", " pool", TRUE)>>],
      [ID |-> "w2", OrgID |-> "org", PoolID |-> " pool",
       Networks |-> <<Profile("p1", "pool", TRUE)>>],
      [ID |-> "w3", OrgID |-> "org", PoolID |-> "other",
       Networks |-> <<Profile("", "other", TRUE), Profile("p1", "pool", FALSE)>>]>>

Queued(id, pool) == [ID |-> id, OrgID |-> "org", PoolID |-> pool, Status |-> "queued"]
MCTaskList ==
    <<Queued("t0", "other")>> \o [i \in 1 .. Wanted |-> Queued(<<"t1", "t2", "t3">>[i], "pool")]

=============================================================================
