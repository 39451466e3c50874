----------------------------- MODULE SourceQueue -----------------------------
(***************************************************************************)
(* What the assistant's conversation queue promises of an accepted message, *)
(* whatever happens to the native turns, the connection and the process:    *)
(* it waits, runs, may go back to waiting, and ends in exactly one of three *)
(* ways, of which its owner is told; the messages of one conversation start *)
(* in the order they arrived.  AssistantTurns implements this module.      *)
(***************************************************************************)
EXTENDS Integers

CONSTANTS
    Items,          \* messages: numbers, in order of arrival
    Groups,         \* conversations
    None            \* the group of internal items

VARIABLES
    stage,          \* where each item is
    group           \* the conversation each item belongs to

Stages == {"new", "waiting", "running", "answered", "excused", "replaced"}

Moves == {<<"new", "waiting">>, <<"new", "running">>,
          <<"waiting", "running">>, <<"running", "waiting">>,
          <<"running", "answered">>, <<"running", "excused">>, <<"running", "replaced">>}

Init == /\ stage = [i \in Items |-> "new"]
        /\ group \in [Items -> Groups \cup {None}]

\* Nothing that waits is overtaken by a later item of its conversation.
InOrder ==
    \A i, j \in Items :
      (/\ j < i /\ group[j] = group[i] /\ group[i] \in Groups
       /\ stage[i] = "waiting" /\ stage'[i] = "running")
      => ~(stage[j] = "waiting" /\ stage'[j] = "waiting")

\* Items move together: one turn carries several of them.
Move ==
    /\ stage' \in [Items -> Stages]
    /\ \A i \in Items : stage'[i] = stage[i] \/ <<stage[i], stage'[i]>> \in Moves
    /\ group' \in [Items -> Groups \cup {None}]
    /\ \A i \in Items : stage[i] # "new" => group'[i] = group[i]
    /\ InOrder

Spec == Init /\ [][Move]_<<stage, group>>
=============================================================================
