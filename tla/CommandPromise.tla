--------------------------- MODULE CommandPromise ---------------------------
(***************************************************************************)
(* What the command inbox promises of the inputs of a conversation,        *)
(* whatever is repeated, forgotten, reloaded or lost on the way: each of   *)
(* them is carried out once.  An input that was accepted ends in the       *)
(* transcript, or is removed by the user, or is lost with the process, and *)
(* from none of these ends is it ever carried out again.  Only a command   *)
(* whose execution failed may be tried anew.                               *)
(***************************************************************************)
CONSTANT Inputs

VARIABLE phase

Phases == {"fresh", "running", "accepted", "entered", "removed", "lost",
           "failed", "retrying", "reaccepted"}

Init == phase = [k \in Inputs |-> "fresh"]

Move(k, from, to) ==
    /\ phase[k] \in from
    /\ phase' = [phase EXCEPT ![k] = to]

Begin(k) == Move(k, {"fresh"}, "running") \/ Move(k, {"failed"}, "retrying")
Accept(k) == Move(k, {"running"}, "accepted") \/ Move(k, {"retrying"}, "reaccepted")
Enter(k) == Move(k, {"running", "accepted", "retrying", "reaccepted"}, "entered")
Remove(k) == Move(k, {"running", "accepted"}, "removed")

\* A retry that comes to nothing, for whatever reason, has failed as the first try did.
Fail(k) == Move(k, {"running", "retrying", "reaccepted"}, "failed")

\* The process dies, or the session is reopened, with inputs still open.
Lose ==
    \E K \in SUBSET Inputs :
        /\ \A k \in K : phase[k] \in {"running", "accepted", "retrying", "reaccepted"}
        /\ phase' = [k \in Inputs |->
                        IF k \notin K THEN phase[k]
                        ELSE IF phase[k] \in {"running", "accepted"} THEN "lost" ELSE "failed"]

Next ==
    \/ Lose
    \/ \E k \in Inputs :
          Begin(k) \/ Accept(k) \/ Enter(k) \/ Remove(k) \/ Fail(k)

Spec == Init /\ [][Next]_phase
=============================================================================
