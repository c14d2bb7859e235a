--------------------------- MODULE AskTranscript ---------------------------
(***************************************************************************)
(* What the ask scheduler promises to a workflow script, whatever happens  *)
(* to the process: the conversation of a subagent is a list of asks that   *)
(* only grows at its end; it is answered from the front; an answer, once   *)
(* given, never changes.  A run that is stopped or crashes and is resumed  *)
(* continues the same conversations.                                       *)
(***************************************************************************)
EXTENDS Integers, FiniteSets

CONSTANTS
    Asks,     \* the ask instances of a script, `siteId@ordinal`
    Actors,   \* its subagents
    ActorOf   \* the subagent each ask is addressed to

Nowhere == -1
Outcomes == {"completed", "failed"}

VARIABLES
    place,    \* the position of an ask in its subagent's conversation
    answer    \* its outcome

tvars == <<place, answer>>

Conversation(x) == {a \in Asks : ActorOf[a] = x /\ place[a] # Nowhere}

TInit ==
    /\ place = [a \in Asks |-> Nowhere]
    /\ answer = [a \in Asks |-> "none"]

Put(a) ==
    /\ place[a] = Nowhere
    /\ place' = [place EXCEPT ![a] = Cardinality(Conversation(ActorOf[a]))]
    /\ UNCHANGED answer

Answer(a) ==
    /\ place[a] # Nowhere /\ answer[a] = "none"
    /\ \A b \in Conversation(ActorOf[a]) : place[b] < place[a] => answer[b] # "none"
    /\ \E o \in Outcomes : answer' = [answer EXCEPT ![a] = o]
    /\ UNCHANGED place

TNext == \E a \in Asks : Put(a) \/ Answer(a)

TSpec == TInit /\ [][TNext]_tvars
=============================================================================
