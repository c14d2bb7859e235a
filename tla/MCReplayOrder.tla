---------------------------- MODULE MCReplayOrder ----------------------------
(* Instances of ReplayOrder.                                               *)
EXTENDS ReplayOrder

\* Three branches: an ask, then a note at a site they share, one of them goes on to
\* another ask; boards are declared by two of them.
MCScript == << <<"work", "note", "check">>, <<"work", "board", "note">>, <<"work", "note">> >>
MCKind == [s \in {"work", "note", "board", "check"} |->
             CASE s \in {"work", "check"} -> "ask" [] s = "note" -> "report" [] s = "board" -> "declare"]
Uneven == [b \in 1..3 |-> IF b = 1 THEN 1 ELSE 0]
=============================================================================
