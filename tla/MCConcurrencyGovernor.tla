----------------------- MODULE MCConcurrencyGovernor -----------------------
(* Instances of ConcurrencyGovernor: two workflow runs, the first a fan-out *)
(* of two, and at most one slot of the main agent.                          *)
EXTENDS ConcurrencyGovernor

MCRuns == {"A", "B"}
MCObserver == "main"
MCRequests == {"a1", "a2", "b1"}
MCRequestsObserved == {"a1", "a2", "b1", "m1"}
MCRunOf == [r \in MCRequests |-> IF r = "b1" THEN "B" ELSE "A"]
MCRunOfObserved ==
    [r \in MCRequestsObserved |->
        CASE r = "b1" -> "B" [] r = "m1" -> MCObserver [] OTHER -> "A"]
MCNone == {}
=============================================================================
