-------------------------- MODULE ConversationStore --------------------------
(***************************************************************************)
(* The durable half of the assistant conversation queue: the tables        *)
(* source_contexts, assistant_attempts and assistant_attempt_sources of    *)
(* src/src/storage/conversation-store.ts, together with the terminal        *)
(* transactions of src/src/assistant/runtime.ts that write the same rows.  *)
(*                                                                         *)
(* The database is one record `db`; every store method is an operator that *)
(* maps a database to a database (each runs in one SQLite transaction).    *)
(* The module has no variables: AssistantTurns composes these operators    *)
(* into the handlers of the dispatcher.                                    *)
(*                                                                         *)
(* A source id is its arrival sequence number, an attempt id is its        *)
(* creation order and a turn id is the position of the turn in the native  *)
(* thread, so `ORDER BY arrival_sequence` is the order of the numbers.     *)
(* Timestamps are left out: whether a retry is due or a deadline has       *)
(* passed is a choice of the caller.                                       *)
(***************************************************************************)
EXTENDS Integers, FiniteSets

CONSTANTS
    Conversations,      \* chat conversations: an adapter id and a conversation key
    Internal,           \* the "conversation" of internal sources (none)
    MaxSources,         \* bound on source_contexts rows
    MaxAttempts,        \* bound on assistant_attempts rows
    MaxReconcile,       \* reconciliationMaxAttempts (6 in the code)
    MaxEffectFree       \* maxEffectFreeAttempts (3 in the code)

ASSUME InternalIsNoConversation == Internal \notin Conversations
ASSUME BoundsAssumption ==
    /\ MaxSources \in Nat \ {0} /\ MaxAttempts \in Nat
    /\ MaxReconcile \in Nat /\ MaxEffectFree \in Nat \ {0}

Sources  == 1..MaxSources
Attempts == 1..MaxAttempts
Turns    == Attempts    \* a start is applied at most once: no more turns than attempts
NoTurn   == 0           \* turn_id IS NULL

SourceStates  == {"absent", "pending", "active", "completed", "superseded"}
AttemptStates == {"absent", "active", "completed", "failed"}
Unresolved    == {"start_submitting", "steer_submitting", "uncertain"}
Live          == Unresolved \cup {"submitted"}
MemberStates  == Live \cup {"none", "completed", "failed", "superseded"}

SourceRows  == [state : SourceStates, conv : Conversations \cup {Internal}, released : BOOLEAN]
AttemptRows == [state : AttemptStates, primary : Sources, turn : {NoTurn} \cup Turns,
                accepting : BOOLEAN, tries : 0..MaxReconcile]
MemberRows  == [state : MemberStates, observed : BOOLEAN, tries : 0..MaxReconcile]

\* The deliveries this subsystem prepares, by their deterministic id.
Notices == [kind : {"queued", "needs_attention", "exhausted"}, id : Sources]
             \cup [kind : {"final", "terminal_needs_attention"}, id : Attempts]

Databases == [src : [Sources -> SourceRows],
              att : [Attempts -> AttemptRows],
              mem : [Attempts -> [Sources -> MemberRows]],
              out : SUBSET Notices]

NoMember == [state |-> "none", observed |-> FALSE, tries |-> 0]

EmptyDatabase ==
    [src |-> [s \in Sources |-> [state |-> "absent", conv |-> Internal, released |-> FALSE]],
     att |-> [a \in Attempts |-> [state |-> "absent", primary |-> 1, turn |-> NoTurn,
                                  accepting |-> FALSE, tries |-> 0]],
     mem |-> [a \in Attempts |-> [s \in Sources |-> NoMember]],
     out |-> {}]

-----------------------------------------------------------------------------
(* Queries *)

Chat(db, s) == db.src[s].conv \in Conversations

SameConversation(db, s, z) == Chat(db, s) /\ db.src[s].conv = db.src[z].conv

Pending(db) == {s \in Sources : db.src[s].state = "pending"}

Least(S) == CHOOSE x \in S : \A y \in S : x <= y

\* The next row id: ids are handed out in order.
NextSource(db)  == {s \in Sources : /\ db.src[s].state = "absent"
                                    /\ \A z \in 1..(s - 1) : db.src[z].state # "absent"}
NextAttempt(db) == {a \in Attempts : /\ db.att[a].state = "absent"
                                     /\ \A b \in 1..(a - 1) : db.att[b].state # "absent"}

IsStart(db, a, s) == db.att[a].primary = s
Members(db, a, S) == {s \in Sources : db.mem[a][s].state \in S}

UnresolvedSubmissions(db) ==
    {m \in Attempts \X Sources : db.mem[m[1]][m[2]].state \in Unresolved}

\* attemptForTurn: the active attempt bound to turn t, as a set of at most one.
AttemptForTurn(db, t) ==
    LET bound == {a \in Attempts : db.att[a].state = "active" /\ db.att[a].turn = t}
    IN  {a \in bound : \A b \in bound : b <= a}

\* disposition: a source waits in the queue of another conversation's attempt.
Queued(db, s, current) ==
    /\ current \in Attempts
    /\ ~SameConversation(db, db.att[current].primary, s)

-----------------------------------------------------------------------------
(* Acceptance *)

QueueNotices(db, S) ==
    [db EXCEPT !.out = @ \cup {[kind |-> "queued", id |-> s] : s \in S}]

InsertSource(db, s, c) ==
    [db EXCEPT !.src[s] = [state |-> "pending", conv |-> c, released |-> FALSE]]

AcceptChatSource(db, s, c, current) ==
    LET new == IF db.src[s].state = "absent" THEN InsertSource(db, s, c) ELSE db
    IN  IF Queued(new, s, current) THEN QueueNotices(new, {s}) ELSE new

CreateAttempt(db, a, s) ==
    LET others == {z \in Pending(db) : Chat(db, z) /\ ~SameConversation(db, s, z)}
    IN  QueueNotices(
          [db EXCEPT !.att[a] = [state |-> "active", primary |-> s, turn |-> NoTurn,
                                 accepting |-> TRUE, tries |-> 0]],
          others)

-----------------------------------------------------------------------------
(* Reservation of a native submission *)

Reserve(db, a, s, as) ==
    [db EXCEPT !.mem[a][s] = [NoMember EXCEPT !.state = as],
               !.src[s].state = "active"]

HasUnresolved(db, a) == Members(db, a, Unresolved) # {}

NextSteerOfAnyConversation(db, a) ==        \* mutant: the conversation is not compared
    {s \in Pending(db) : db.att[a].state = "active" /\ db.att[a].accepting
                         /\ db.att[a].turn # NoTurn /\ ~HasUnresolved(db, a)}

\* The source reserveNextSteer picks, as a set of at most one.
NextSteer(db, a) ==
    LET fits == {s \in Pending(db) :
                    /\ SameConversation(db, db.att[a].primary, s)
                    /\ \A b \in Attempts : db.mem[b][s].state \notin Live}
    IN  IF /\ db.att[a].state = "active" /\ db.att[a].accepting
           /\ db.att[a].turn # NoTurn /\ ~HasUnresolved(db, a)
        THEN {s \in fits : \A z \in fits : s <= z} ELSE {}

-----------------------------------------------------------------------------
(* Confirmation: what a response, a notification or history says about a submission *)

Terminalize(db, a) == [db EXCEPT !.att[a].accepting = FALSE]

StartConfirmation(db, a, s, t, terminal) ==
    LET m == db.mem[a][s]  r == db.att[a]
    IN  IF ~IsStart(db, a, s) \/ m.state = "none" THEN "conflict"
        ELSE IF r.state # "active"
        THEN IF m.state \in {"completed", "failed"} /\ r.turn = t /\ m.observed
             THEN "already_terminal_same" ELSE "conflict"
        ELSE IF m.state = "submitted"
        THEN IF r.turn # t THEN "conflict"
             ELSE IF terminal \/ ~r.accepting THEN "already_terminal_same" ELSE "already_same"
        ELSE IF m.state \in Unresolved /\ r.turn = NoTurn THEN "bound" ELSE "conflict"

ConfirmStart(db, a, s, t, terminal) ==
    LET c == StartConfirmation(db, a, s, t, terminal)
        b == [db EXCEPT !.att[a].turn = t,
                        !.mem[a][s].state = "submitted", !.mem[a][s].observed = TRUE]
    IN  CASE c = "bound" -> IF terminal THEN Terminalize(b, a) ELSE b
          [] c = "already_terminal_same" /\ db.att[a].state = "active" -> Terminalize(db, a)
          [] OTHER -> db

SteerConfirmation(db, a, s, t) ==
    LET m == db.mem[a][s]  r == db.att[a]
    IN  IF r.state # "active" \/ IsStart(db, a, s) \/ r.turn = NoTurn \/ r.turn # t
           \/ m.state \notin Live THEN "conflict"
        ELSE IF ~r.accepting THEN "already_terminal_same"
        ELSE IF m.state = "submitted" THEN "already_same" ELSE "bound"

\* A steer confirmed on a terminalizing attempt completes its source at once.
ConfirmSteer(db, a, s, t) ==
    IF SteerConfirmation(db, a, s, t) = "conflict" \/ db.mem[a][s].state = "submitted" THEN db
    ELSE IF db.att[a].accepting
    THEN [db EXCEPT !.mem[a][s].state = "submitted", !.mem[a][s].observed = TRUE]
    ELSE [db EXCEPT !.mem[a][s].state = "completed", !.mem[a][s].observed = TRUE,
                    !.src[s].state = "completed", !.src[s].released = TRUE]

-----------------------------------------------------------------------------
(* Uncertainty and its bounded reconciliation *)

CanMarkUncertainWhileAccepting(db, a, s) == \* mutant: not once the turn has ended
    db.att[a].accepting /\ db.mem[a][s].state \in {"start_submitting", "steer_submitting"}

CanMarkUncertain(db, a, s) ==
    /\ db.att[a].state = "active"
    /\ db.mem[a][s].state \in {"start_submitting", "steer_submitting"}
    /\ IsStart(db, a, s) <=> db.att[a].turn = NoTurn

MarkUncertain(db, a, s) == [db EXCEPT !.mem[a][s].state = "uncertain"]

MarkUncertainIfUnresolved(db, a, s) ==
    IF CanMarkUncertain(db, a, s) THEN MarkUncertain(db, a, s) ELSE db

CanObserveUnknownTerminal(db, a, s) ==
    /\ db.att[a].state = "active" /\ IsStart(db, a, s) /\ db.att[a].turn = NoTurn
    /\ db.mem[a][s].state \in {"start_submitting", "uncertain"}

ObserveUnknownStartTerminal(db, a, s) ==
    IF CanObserveUnknownTerminal(db, a, s) THEN MarkUncertain(db, a, s) ELSE db

ReconcileDecisionsUnbounded(db, a, s) ==    \* mutant: the budget is not compared
    {"needs_attention", "ready"}

\* What beginReconciliation may answer: the deadline may have passed, the
\* budget may be spent, and a retry that is not the first may not be due yet.
ReconcileDecisions(db, a, s) ==
    IF db.mem[a][s].tries >= MaxReconcile THEN {"needs_attention"}
    ELSE {"needs_attention", "ready"} \cup IF db.mem[a][s].tries > 0 THEN {"wait"} ELSE {}

MarkNeedsAttention(db, a, s) ==
    [db EXCEPT !.mem[a][s].state = "failed",
               !.src[s] = [@ EXCEPT !.state = "completed", !.released = TRUE],
               !.att[a] = IF IsStart(db, a, s)
                          THEN [@ EXCEPT !.state = "failed", !.accepting = FALSE] ELSE @,
               !.out = @ \cup {[kind |-> "needs_attention", id |-> s]}]

BeginReconciliation(db, a, s, decision) ==
    CASE decision = "needs_attention" -> MarkNeedsAttention(db, a, s)
      [] decision = "ready" -> [db EXCEPT !.mem[a][s].tries = @ + 1]
      [] OTHER -> db

RestorePendingKeepsMember(db, a, s) ==      \* mutant: the submission stays open
    [db EXCEPT !.src[s].state = "pending"]

RestorePending(db, a, s) ==
    [db EXCEPT !.mem[a][s].state = "failed", !.src[s].state = "pending"]

FailUnstartedAttempt(db, a) ==
    IF db.att[a].state = "active" /\ Members(db, a, {"submitted"}) = {}
    THEN [db EXCEPT !.att[a].state = "failed"] ELSE db

FailOrphanedUnstartedAttempts(db) ==
    [db EXCEPT !.att = [a \in Attempts |->
        IF @[a].state = "active" /\ @[a].turn = NoTurn /\ Members(db, a, MemberStates \ {"none"}) = {}
        THEN [@[a] EXCEPT !.state = "failed", !.accepting = FALSE] ELSE @[a]]]

-----------------------------------------------------------------------------
(* Terminal reconciliation of an attempt whose turn ended *)

Terminalizing(db) ==
    {a \in Attempts : db.att[a].state = "active" /\ db.att[a].turn # NoTurn /\ ~db.att[a].accepting}

TerminalDecisions(db, a) ==
    IF db.att[a].tries >= MaxReconcile THEN {"needs_attention"}
    ELSE {"needs_attention", "ready"} \cup IF db.att[a].tries > 0 THEN {"wait"} ELSE {}

CompleteSources(db, S) ==
    [db EXCEPT !.src = [s \in Sources |->
        IF s \in S THEN [@[s] EXCEPT !.state = "completed", !.released = TRUE] ELSE @[s]]]

MoveMembers(db, a, from, to) ==
    [db EXCEPT !.mem[a] = [s \in Sources |->
        IF @[s].state \in from THEN [@[s] EXCEPT !.state = to] ELSE @[s]]]

MarkTerminalNeedsAttentionOpen(db, a) ==    \* mutant: the attempt is not closed
    LET held == {s \in Members(db, a, {"submitted"}) : db.src[s].state = "active"}
    IN  [CompleteSources(MoveMembers(db, a, {"submitted"}, "failed"), held)
            EXCEPT !.out = @ \cup {[kind |-> "terminal_needs_attention", id |-> a]}]

MarkTerminalNeedsAttention(db, a) ==
    LET held == {s \in Members(db, a, {"submitted"}) : db.src[s].state = "active"}
        d1   == CompleteSources(MoveMembers(db, a, {"submitted"}, "failed"), held)
    IN  [d1 EXCEPT !.att[a] = [@ EXCEPT !.state = "failed", !.accepting = FALSE],
                   !.out = @ \cup {[kind |-> "terminal_needs_attention", id |-> a]}]

BeginTerminalReconciliation(db, a, decision) ==
    CASE decision = "needs_attention" -> MarkTerminalNeedsAttention(db, a)
      [] decision = "ready" -> [db EXCEPT !.att[a].tries = @ + 1]
      [] OTHER -> db

-----------------------------------------------------------------------------
(* AssistantRuntime.handleTerminal: the attempt's last transaction *)

\* memberContextIds
Carried(db, a) ==
    LET S == Members(db, a, {"submitted", "completed"})
    IN  IF S # {} THEN S ELSE {db.att[a].primary}

CloseAttemptForgets(db, a, as) ==           \* mutant: a closed attempt loses its turn
    [db EXCEPT !.att[a] = [@ EXCEPT !.state = as, !.accepting = FALSE, !.turn = NoTurn]]

CloseAttempt(db, a, as) == [db EXCEPT !.att[a] = [@ EXCEPT !.state = as, !.accepting = FALSE]]

CompleteAttempt(db, a) ==
    LET d1 == MoveMembers(CloseAttempt(db, a, "completed"), a, {"submitted"}, "completed")
        d2 == CompleteSources(d1, Carried(db, a))
    IN  IF Chat(db, db.att[a].primary)
        THEN [d2 EXCEPT !.out = @ \cup {[kind |-> "final", id |-> a]}] ELSE d2

\* failedAttempts: attempts of s that failed after their turn was observed.
FailedAttempts(db, s) ==
    Cardinality({a \in Attempts : /\ db.att[a].state = "failed" /\ db.att[a].turn # NoTurn
                                  /\ db.mem[a][s].observed})

SpentTooLate(db, a) ==                      \* mutant: this failure is not counted
    {s \in Carried(db, a) : FailedAttempts(db, s) >= MaxEffectFree}

\* The sources that have failed maxEffectFreeAttempts times with this one.
Spent(db, a) == {s \in Carried(db, a) : FailedAttempts(db, s) + 1 >= MaxEffectFree}

\* failAttemptGroup without side effects: retry, or give up with a warning.
RetryAttempt(db, a) ==
    LET all   == Carried(db, a)
        spent == Spent(db, a)
        d1    == MoveMembers(CloseAttempt(db, a, "failed"), a,
                             MemberStates \ {"none", "completed", "superseded"}, "failed")
        d2    == CompleteSources(d1, spent)
    IN  [d2 EXCEPT !.src = [s \in Sources |-> IF s \in all \ spent
                                              THEN [@[s] EXCEPT !.state = "pending"] ELSE @[s]],
                   !.out = @ \cup {[kind |-> "exhausted", id |-> s] : s \in spent}]

\* failAttemptGroup with side effects: an internal recovery source r takes over.
SupersedeAttempt(db, a, r) ==
    LET all == Carried(db, a)
        d1  == MoveMembers(CloseAttempt(db, a, "failed"), a, {"submitted"}, "superseded")
    IN  [d1 EXCEPT !.src = [s \in Sources |->
            IF s = r THEN [state |-> "pending", conv |-> Internal, released |-> FALSE]
            ELSE IF s \in all THEN [@[s] EXCEPT !.state = "superseded", !.released = TRUE]
            ELSE @[s]]]
=============================================================================
