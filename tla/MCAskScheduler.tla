--------------------------- MODULE MCAskScheduler ---------------------------
(* Instances of AskScheduler.                                              *)
EXTENDS AskScheduler

\* Two asks of subagent A and one of B, in two branches of the script: the second ask of A
\* waits for the answer of B.
MCActors == {"A", "B"}
MCActorOrder == <<"A", "B">>
MCAsks == {"a1", "a2", "b1"}
MCActorOf == [a \in MCAsks |-> IF a = "b1" THEN "B" ELSE "A"]
MCAfter == [a \in MCAsks |-> IF a = "a2" THEN {"b1"} ELSE {}]
MCNeeded == {"a1", "b1"}
MCTyped == {"a1"}
MCDiverging == {"b1"}
MCNone == {}
=============================================================================
