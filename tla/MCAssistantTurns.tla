--------------------------- MODULE MCAssistantTurns ---------------------------
(***************************************************************************)
(* AssistantTurns for TLC.  Conversations are model values and differ only  *)
(* in their names, so the safety runs use them as a symmetry set.          *)
(***************************************************************************)
EXTENDS AssistantTurns, TLC

ConversationSymmetry == Permutations(Conversations)

\* Faults come in pairs: every two kinds meet, in either order, and a third
\* does not follow.
AtMostTwoFaults == used.crashes + used.losses + used.errors + used.readErrors <= 2

\* A third attempt only follows a failed submission and a bad read, the two
\* faults that suffice for a recovery that revisits an earlier turn.
ThirdAttempt ==
    db.att[MaxAttempts].state # "absent" => used.errors > 0 /\ used.readErrors > 0

RestartBounds == AtMostTwoFaults /\ ThirdAttempt
=============================================================================
