--------------------------- MODULE NativeSession ---------------------------
(***************************************************************************)
(* src/src/sessions/native-session-state.ts: what the application holds    *)
(* true of one managed thread.  A session is [view, dead, asked]: the      *)
(* view, the turns seen terminal in the endpoint's generation, and the     *)
(* revisions at which a notification asked for a refresh.  Turn 0 is no    *)
(* turn.  Background work is left out.                                     *)
(***************************************************************************)
EXTENDS Naturals

Statuses == {"unknown", "idle", "active", "error"}

Token(s) == [gen |-> s.view.gen, rev |-> s.view.rev]

\* apply
Apply(s, status, turn) == [s EXCEPT !.view.status = status, !.view.turn = turn, !.view.rev = s.view.rev + 1]

\* register, for a generation that was just published.
Registered(s, gen) ==
    [s EXCEPT !.view = [ready |-> TRUE, status |-> "unknown", turn |-> 0, gen |-> gen, rev |-> 0]]

\* invalidateEndpoint
Invalidated(s) == [Apply(s, "unknown", 0) EXCEPT !.view.ready = FALSE, !.dead = {}]

Fits(s, token) == s.view.ready /\ Token(s) = token

\* applyRefresh.  A turn already seen terminal is not the one that runs.
RefreshedUnfenced(s, token, status, turn) ==
    IF ~Fits(s, token) THEN s
    ELSE Apply(s, status, IF status # "active" THEN 0 ELSE IF turn = 0 THEN s.view.turn ELSE turn)

Refreshed(s, token, status, turn) ==
    LET t == IF status # "active" THEN 0 ELSE IF turn = 0 THEN s.view.turn ELSE turn
    IN  IF ~Fits(s, token) THEN s
        ELSE IF t # 0 /\ t \in s.dead THEN Apply(s, "idle", 0)
        ELSE Apply(s, status, t)

\* applyStartResponse, and whether it asks for a refresh.
StartRefused(s, token, turn) ==
    \/ ~s.view.ready \/ s.view.gen # token.gen
    \/ turn \in s.dead
    \/ s.view.status = "active" /\ s.view.turn = turn

StartOvertaken(s, token, turn) == ~StartRefused(s, token, turn) /\ s.view.rev # token.rev

StartAnswered(s, token, turn) ==
    IF StartRefused(s, token, turn) \/ s.view.rev # token.rev THEN s ELSE Apply(s, "active", turn)

\* observe, one operator per method; Asking is its answer refreshRequired.
Asking(s) == [s EXCEPT !.asked = s.asked \cup {s.view.rev}]

\* turn/started, and an item of a turn that executes
Executing(s, turn) == IF ~s.view.ready \/ turn \in s.dead THEN s ELSE Apply(s, "active", turn)

\* turn/completed: another turn that may be active is kept.
Completed(s, turn) ==
    LET d == [s EXCEPT !.dead = s.dead \cup {turn}]
    IN  IF ~s.view.ready THEN s
        ELSE IF s.view.turn = turn \/ s.view.status = "idle" THEN Apply(d, "idle", 0)
        ELSE Asking(Apply(d, s.view.status, s.view.turn))

\* thread/status/changed
StatusChanged(s, status) ==
    LET a == Apply(s, status, IF status = "active" THEN s.view.turn ELSE 0)
    IN  IF ~s.view.ready THEN s
        ELSE IF status = "active" /\ s.view.turn = 0 THEN Asking(a) ELSE a

\* repairActiveTurnIdentity (native-session-probe.ts): whether a repair asks
\* the history at all ("rev" 0: no revision is expected), ...
Repairable(s, rev) ==
    /\ s.view.ready
    /\ IF rev # 0 THEN s.view.rev = rev ELSE s.view.status = "active" /\ s.view.turn = 0

\* ... and what it applies: "before" is the view it began with, "latest" the
\* turn that the history names as executing.
Repaired(s, before, latest) ==
    LET turn == IF latest # 0 THEN latest ELSE before.turn
        status == IF turn # 0 THEN "active" ELSE IF before.status = "active" THEN "unknown" ELSE before.status
    IN  Refreshed(s, [gen |-> before.gen, rev |-> before.rev], status, turn)

=============================================================================
