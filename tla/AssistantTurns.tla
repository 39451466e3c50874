---------------------------- MODULE AssistantTurns ----------------------------
(***************************************************************************)
(* The assistant's conversation turns: ConversationDispatcher              *)
(* (src/src/assistant/conversation-dispatcher.ts), the terminal processing  *)
(* of src/src/production-app.ts and AssistantRuntime, over the database of  *)
(* ConversationStore and a native thread (the app-server).                 *)
(*                                                                         *)
(* The dispatcher runs its handlers one at a time (`post`); between them   *)
(* lie the awaited native calls.  A handler is an operator from a world    *)
(* (database, dispatcher, in-flight call, outstanding read, terminal       *)
(* processing) to a world, or to the set of worlds it may leave behind.    *)
(* The recovery handler is cut at its transactions (read.stage), so that a *)
(* crash can fall between two of them; no other handler runs meanwhile.    *)
(*                                                                         *)
(* An input of the native thread is a pair <<attempt, source>>: it stands  *)
(* for the clientUserMessageId derived from the attempt and the ordinal.   *)
(***************************************************************************)
EXTENDS ConversationStore, Sequences

CONSTANTS
    MaxStale,           \* bound on outstanding superseded reads
    MaxCrashes,         \* bound on crashes and stops of the process
    MaxLosses,          \* bound on losses of the app-server connection
    MaxErrors,          \* bound on failed native submissions
    MaxReadErrors,      \* bound on failed or incomplete history reads
    MaxEvents           \* bound on event batches

ASSUME RunBoundsAssumption ==
    /\ MaxStale \in Nat /\ MaxCrashes \in Nat /\ MaxLosses \in Nat
    /\ MaxErrors \in Nat /\ MaxReadErrors \in Nat /\ MaxEvents \in Nat

VARIABLES
    db,         \* the database (ConversationStore)
    disp,       \* the dispatcher's volatile fields
    call,       \* the native submission in flight
    read,       \* the history read of the current recovery generation
    settle,     \* terminalProcessing of production-app.ts: a stage for each turn
    turns,      \* the native thread
    notes,      \* lifecycle notifications on their way
    link,       \* the process and its connection to the app-server
    used        \* what the run has consumed of its bounds

vars == <<db, disp, call, read, settle, turns, notes, link, used>>

NoAttempt == 0
NoSource  == 0
Submissions == Attempts \X Sources

\* down: the connection is lost; stalled: it is open but was not recovered.
Links == {"crashed", "booting", "down", "opening", "stalled", "up"}

NoCall == [kind |-> "none", att |-> NoAttempt, src |-> NoSource, stage |-> "none",
           turn |-> NoTurn, stale |-> FALSE, early |-> {}]
NoRead == [kind |-> "none", att |-> NoAttempt, src |-> NoSource, stage |-> "none",
           view |-> "none", members |-> {}, attempts |-> {}, blocked |-> {}, retry |-> FALSE]

NewDispatcher ==
    [cur |-> NoAttempt, busy |-> FALSE, paused |-> FALSE, steerPause |-> NoAttempt,
     timer |-> FALSE, wake |-> FALSE, ready |-> FALSE, admission |-> "none", stale |-> 0,
     published |-> {}]

Dispatchers == [cur : {NoAttempt} \cup Attempts, busy : BOOLEAN, paused : BOOLEAN,
                steerPause : {NoAttempt} \cup Attempts, timer : BOOLEAN, wake : BOOLEAN,
                ready : BOOLEAN, admission : {"none", "asking", "granted", "waiting"},
                stale : 0..MaxStale, published : SUBSET Turns]
Calls == [kind : {"none", "start", "steer"}, att : {NoAttempt} \cup Attempts,
          src : {NoSource} \cup Sources,
          stage : {"none", "sent", "ok", "refused", "unsaved", "error"},
          turn : {NoTurn} \cup Turns, stale : BOOLEAN, early : SUBSET Turns]
Reads == [kind : {"none", "recover", "failure"}, att : {NoAttempt} \cup Attempts,
          src : {NoSource} \cup Sources,
          stage : {"none", "waiting", "members", "attempts"},
          view : {"none", "failed", "full", "window", "blind"},
          members : SUBSET Submissions, attempts : SUBSET Attempts,
          blocked : SUBSET Attempts, retry : BOOLEAN]
NativeTurns == [status : {"active", "ended"}, inputs : SUBSET Submissions]

Budgets == [crashes : 0..MaxCrashes, losses : 0..MaxLosses, errors : 0..MaxErrors,
            readErrors : 0..MaxReadErrors, events : 0..MaxEvents]

World == [db |-> db, d |-> disp, call |-> call, read |-> read, settle |-> settle, used |-> used]

Becomes(w) ==
    /\ w.d.stale <= MaxStale
    /\ db' = w.db /\ disp' = w.d /\ call' = w.call /\ read' = w.read
    /\ settle' = w.settle /\ used' = w.used

\* No handler is being executed, and none waits that a handler has posted:
\* `post` is a queue, so what happens later is handled later.
Between == read.stage \in {"none", "waiting"}
Serial  == Between /\ \A t \in Turns : settle[t] # "queued"

Running == link # "crashed"

-----------------------------------------------------------------------------
(* Small steps shared by the handlers *)

Outstanding(w) == (IF w.call.kind # "none" THEN 1 ELSE 0) + w.d.stale
                  + (IF w.read.kind # "none" THEN 1 ELSE 0)
                  + (IF w.d.admission = "asking" THEN 1 ELSE 0)

SettledQuietly(w) == w      \* mutant: the last settled call posts no pump

\* launch: the settled call leaves networkCount; the last one posts a pump.
Settled(w) == IF Outstanding(w) = 0 THEN [w EXCEPT !.d.wake = TRUE] ELSE w

\* ++recoveryGeneration: the answer of an outstanding read will be ignored.
NewGeneration(w) ==
    IF w.read.kind = "none" THEN w
    ELSE [w EXCEPT !.read = NoRead, !.d.stale = @ + 1]

LaunchRead(w, kind, a, s) ==
    [NewGeneration(w) EXCEPT !.read = [NoRead EXCEPT !.kind = kind, !.att = a, !.src = s,
                                                      !.stage = "waiting"]]

NotePresence(w) ==
    [NewGeneration(w) EXCEPT !.d.ready = TRUE, !.d.timer = FALSE]

PublishForgets(w, t) ==     \* mutant: onTerminal is not called
    [w EXCEPT !.d.published = @ \cup {t}]

\* publishTerminal: onTerminal starts the terminal processing unless it runs.
Publish(w, t) ==
    IF t \in w.d.published THEN w
    ELSE [w EXCEPT !.d.published = @ \cup {t},
                   !.settle[t] = IF @ = "idle" THEN "queued" ELSE @]

\* No attempt occupies the thread any more.
Free(w) == [w EXCEPT !.d = [@ EXCEPT !.cur = NoAttempt, !.busy = FALSE, !.steerPause = NoAttempt]]

DropCurrent(w, a) == IF w.d.cur = a THEN [w EXCEPT !.d.cur = NoAttempt] ELSE w

CurTurn(w) == IF w.d.cur = NoAttempt THEN NoTurn ELSE w.db.att[w.d.cur].turn

-----------------------------------------------------------------------------
(* pump *)

Connected == link \in {"booting", "opening", "stalled", "up"}

\* A request on a closed connection is rejected at once.
NewCall(kind, a, s, t) ==
    [NoCall EXCEPT !.kind = kind, !.att = a, !.src = s, !.turn = t,
                   !.stage = IF Connected THEN "sent" ELSE "error"]

\* The start of source s in a fresh attempt.  The dispatch checkpoint runs
\* before the request leaves and may fail to be written.
LaunchStart(w, a, s) ==
    LET sent == [w EXCEPT !.db = Reserve(CreateAttempt(@, a, s), a, s, "start_submitting"),
                          !.d = [@ EXCEPT !.cur = a, !.busy = TRUE, !.admission = "none"],
                          !.call = NewCall("start", a, s, NoTurn)]
    IN  {sent} \cup IF w.used.errors = MaxErrors THEN {}
                    ELSE {[sent EXCEPT !.call.stage = "unsaved", !.used.errors = @ + 1]}

CandidatesNewestFirst(w) == \* mutant: the queue is a stack
    {s \in Pending(w.db) : \A z \in Pending(w.db) : z <= s}

\* The oldest pending source, or an event batch that the scheduler finds
\* eligible (and forced, when a source is pending too).
Candidates(w) ==
    {s \in Pending(w.db) : s = Least(Pending(w.db))}
      \cup IF w.used.events < MaxEvents THEN NextSource(w.db) ELSE {}

WithCandidate(w, s) ==
    IF w.db.src[s].state = "absent"
    THEN [w EXCEPT !.db = InsertSource(@, s, Internal), !.used.events = @ + 1] ELSE w

StartNext(w) ==
    LET admitted == UNION {LaunchStart(WithCandidate(w, s), a, s)
                             : a \in NextAttempt(w.db), s \in Candidates(w)}
        none == IF Pending(w.db) = {} THEN {w} ELSE {}
    IN  none \cup
        IF Candidates(w) = {} THEN {}
        ELSE IF NextAttempt(w.db) = {} THEN {w}      \* the bound of the run
        ELSE CASE w.d.admission = "granted" -> admitted
               [] w.d.admission = "none"    -> {[w EXCEPT !.d.admission = "asking"]}
               [] OTHER                     -> {w}

\* The reservation of a source that already has a row in this attempt breaks
\* the primary key of assistant_attempt_sources.
CanSteer(w) == /\ w.d.cur # NoAttempt
               /\ w.d.steerPause # w.d.cur

PrimaryKeyConflict(w) ==
    /\ CanSteer(w)
    /\ \E s \in NextSteer(w.db, w.d.cur) : w.db.mem[w.d.cur][s].state # "none"

SteerNext(w) ==
    LET a == w.d.cur
    IN  IF ~CanSteer(w) \/ PrimaryKeyConflict(w) \/ NextSteer(w.db, a) = {} THEN {w}
        ELSE {[w EXCEPT !.db = Reserve(@, a, s, "steer_submitting"),
                        !.call = NewCall("steer", a, s, w.db.att[a].turn)]
                : s \in NextSteer(w.db, a)}

PumpBlocked(w) == \/ Outstanding(w) > 0
                  \/ w.d.paused
                  \/ (w.d.busy /\ w.d.cur = NoAttempt)

Pump(w) == IF PumpBlocked(w) THEN {w}
           ELSE IF w.d.cur = NoAttempt THEN StartNext(w) ELSE SteerNext(w)

-----------------------------------------------------------------------------
(* What a native turn shows of a submission *)

UnresolvedStart(w, a) ==
    {s \in Sources : /\ w.db.att[a].state # "absent" /\ IsStart(w.db, a, s)
                     /\ w.db.mem[a][s].state \in {"start_submitting", "uncertain"}}

\* correlatedUnresolvedStart, as a set of at most one submission.
Correlated(w, t, shown) ==
    LET seen(a) == {s \in UnresolvedStart(w, a) : shown /\ <<a, s>> \in turns[t].inputs}
        all     == {m \in Submissions : m[2] \in seen(m[1])}
    IN  IF w.d.cur # NoAttempt /\ CurTurn(w) = NoTurn /\ seen(w.d.cur) # {}
        THEN {<<w.d.cur, s>> : s \in seen(w.d.cur)}
        ELSE IF Cardinality(all) = 1 THEN all ELSE {}

PauseIdentityConflict(w, a) ==
    LET steers == {s \in Members(w.db, a, {"steer_submitting"}) : CanMarkUncertain(w.db, a, s)}
    IN  [w EXCEPT !.db.mem[a] = [s \in Sources |->
                        IF s \in steers THEN [@[s] EXCEPT !.state = "uncertain"] ELSE @[s]],
                  !.d.paused = TRUE, !.d.timer = @ \/ steers # {},
                  !.d.steerPause = IF w.d.cur = a THEN a ELSE @]

\* started.  early: the terminal of this turn was buffered before its start.
Started(w0, t, shown) ==
    LET w == [NotePresence(w0) EXCEPT !.d.busy = TRUE]
        m == Correlated(w, t, shown)
    IN  IF m = {} THEN {w}
        ELSE LET a == (CHOOSE x \in m : TRUE)[1]
                 s == (CHOOSE x \in m : TRUE)[2]
                 early == w.call.att = a /\ t \in w.call.early
                 c  == StartConfirmation(w.db, a, s, t, early)
                 w1 == [w EXCEPT !.d.cur = a, !.call.early = IF early THEN {} ELSE @]
                 w2 == [w1 EXCEPT !.db = ConfirmStart(@, a, s, t, early)]
             IN  IF c = "conflict" THEN {PauseIdentityConflict(w1, a)}
                 ELSE IF early THEN {Publish(Free(w2), t)}
                 ELSE Pump(w2)

\* terminal
Terminal(w0, t, shown) ==
    LET w == [NotePresence(w0) EXCEPT !.d.paused = FALSE]
        inFlight == w.call.kind = "start" /\ w.call.att = w.d.cur
        m == IF inFlight THEN {<<w.d.cur, s>> : s \in UnresolvedStart(w, w.d.cur)}
             ELSE Correlated(w, t, shown)
    IN  IF w.d.cur # NoAttempt /\ CurTurn(w) = t
        THEN {Publish(Free([w EXCEPT !.db = Terminalize(@, w.d.cur)]), t)}
        ELSE IF w.d.cur = NoAttempt \/ CurTurn(w) # NoTurn
        THEN Pump([w EXCEPT !.d.busy = FALSE])
        ELSE IF m = {} THEN {w}
        ELSE LET a == (CHOOSE x \in m : TRUE)[1]
                 s == (CHOOSE x \in m : TRUE)[2]
                 w1 == [w EXCEPT !.d.cur = a]
                 c  == StartConfirmation(w.db, a, s, t, TRUE)
             IN  IF shown /\ <<a, s>> \in turns[t].inputs
                 THEN IF c = "conflict" THEN {PauseIdentityConflict(w1, a)}
                      ELSE {Publish(Free([w1 EXCEPT !.db = ConfirmStart(@, a, s, t, TRUE)]), t)}
                 ELSE {[w1 EXCEPT !.db = ObserveUnknownStartTerminal(@, a, s),
                                  !.call.early = IF inFlight THEN @ \cup {t} ELSE @]}

-----------------------------------------------------------------------------
(* The answer to a native submission *)

\* handleSubmissionFailure for an error that leaves the outcome open.
Uncertain(w0, a, s) ==
    LET w == NewGeneration(w0)
        u == [w EXCEPT !.db = MarkUncertain(@, a, s)]
        decided(d) == [u EXCEPT !.db = BeginReconciliation(@, a, s, d)]
    IN  IF ~CanMarkUncertain(w.db, a, s) THEN {w}
        ELSE {CASE d = "needs_attention" -> DropCurrent(decided(d), a)
                [] d = "wait"  -> [decided(d) EXCEPT !.d.timer = TRUE]
                [] d = "ready" -> LaunchRead(decided(d), "failure", a, s)
                : d \in ReconcileDecisions(u.db, a, s)}

\* The dispatch checkpoint was not written: the start never left.
Unsaved(w, a, s) ==
    LET restored == FailUnstartedAttempt(RestorePending(w.db, a, s), a)
    IN  [w EXCEPT !.db = restored,
                  !.d = [@ EXCEPT !.paused = TRUE, !.cur = NoAttempt, !.busy = FALSE, !.timer = TRUE]]

\* The turn takes no steering: the source goes back to the queue.
NotSteerable(w, a, s) ==
    IF w.db.mem[a][s].state \in {"steer_submitting", "uncertain"}
    THEN [w EXCEPT !.db = RestorePending(@, a, s), !.d.steerPause = a] ELSE w

StartAnswered(w, a, s, t, early, reported) ==
    LET terminal == early \/ reported
        c  == StartConfirmation(w.db, a, s, t, terminal)
        w1 == [w EXCEPT !.db = ConfirmStart(@, a, s, t, terminal),
                        !.d.cur = IF c = "bound" THEN a ELSE @]
    IN  IF c = "conflict" THEN PauseIdentityConflict(w, a)
        ELSE IF ~terminal /\ c # "already_terminal_same" THEN w1
        ELSE IF terminal THEN Publish(Free(w1), t) ELSE Free(w1)

SteerAnswered(w, a, s, t) ==
    IF SteerConfirmation(w.db, a, s, t) = "conflict" THEN PauseIdentityConflict(w, a)
    ELSE [w EXCEPT !.db = ConfirmSteer(@, a, s, t)]

\* The handler of the answer, in a world where the call is no longer in flight.
Answered(w, c, reported) ==
    CASE c.stage = "unsaved" -> {Unsaved(w, c.att, c.src)}
      [] c.stage = "refused" -> {NotSteerable(w, c.att, c.src)}
      [] c.stage = "error" \/ (c.stage = "ok" /\ c.stale) -> Uncertain(w, c.att, c.src)
      [] c.stage = "ok" /\ ~c.stale /\ c.kind = "start" ->
            {StartAnswered(w, c.att, c.src, c.turn, c.turn \in c.early, reported)}
      [] c.stage = "ok" /\ ~c.stale /\ c.kind = "steer" ->
            {SteerAnswered(w, c.att, c.src, c.turn)}

-----------------------------------------------------------------------------
(* Reading the native history back *)

\* A completion whose notification is still on its way happened after the
\* thread was read: an earlier one would have been delivered, and would have
\* superseded the read.
ShownEnded(t) ==
    turns[t].status = "ended" /\ ~\E i \in 1..Len(notes) : notes[i] = <<"completed", t>>

Announced(t) == ~\E i \in 1..Len(notes) : notes[i] = <<"started", t>>

\* A bounded window lists the newest turn only; a read out of its budget
\* lists the ended turns without their items.
Listed(view) == IF view = "window" THEN {t \in 1..Len(turns) : t = Len(turns)} ELSE 1..Len(turns)
Shows(view, t, m) ==
    t \in Listed(view) /\ (view = "blind" => ~ShownEnded(t)) /\ m \in turns[t].inputs

PositiveNewest(db0, view, a, s) ==  \* mutant: the newest turn, whatever it carries
    {t \in Listed(view) : \A u \in Listed(view) : u <= t}

Positive(db0, view, a, s) ==
    IF IsStart(db0, a, s) THEN {t \in Listed(view) : Shows(view, t, <<a, s>>)}
    ELSE {t \in Listed(view) : t = db0.att[a].turn /\ Shows(view, t, <<a, s>>)}

Ended(w, a, t) ==
    LET w1 == DropCurrent(w, a)
        own == w.db.att[a].state = "active" /\ w.db.att[a].turn = t
    IN  Publish([w1 EXCEPT !.db = IF own THEN Terminalize(@, a) ELSE @,
                           !.d = [@ EXCEPT !.busy = FALSE, !.steerPause = NoAttempt]], t)

StartFound(w, a, s, t) ==
    LET ended == ShownEnded(t)
        c  == StartConfirmation(w.db, a, s, t, ended)
        w1 == [w EXCEPT !.db = ConfirmStart(@, a, s, t, ended),
                        !.d = [@ EXCEPT !.cur = IF ended THEN NoAttempt ELSE a, !.busy = ~ended]]
    IN  IF c = "conflict" THEN PauseIdentityConflict(w, a)
        ELSE IF ended THEN Publish(Free(w1), t) ELSE w1

SteerFound(w, a, s, t) ==
    IF SteerConfirmation(w.db, a, s, t) = "conflict" THEN w
    ELSE LET w1 == [w EXCEPT !.db = ConfirmSteer(@, a, s, t)]
         IN  IF ShownEnded(t) THEN Ended(w1, a, t) ELSE w1

StartAbsent(w, a, s) ==
    LET w1 == DropCurrent([w EXCEPT !.db = FailUnstartedAttempt(RestorePending(@, a, s), a)], a)
    IN  [w1 EXCEPT !.d.paused = TRUE, !.d.busy = FALSE]

SteerAbsent(w, a, s) == Ended([w EXCEPT !.db = RestorePending(@, a, s)], a, w.db.att[a].turn)

ProvenAbsentPartial(db0, view, a, s) == \* mutant: any history proves absence
    \A t \in 1..Len(turns) : ShownEnded(t)

ProvenAbsent(db0, view, a, s) ==
    IF IsStart(db0, a, s)
    THEN view = "full" /\ \A t \in 1..Len(turns) : ShownEnded(t)
    ELSE view = "full" /\ db0.att[a].turn \in Listed(view) /\ ShownEnded(db0.att[a].turn)

\* reconcileSubmission
ReconcileSubmission(w, view, a, s) ==
    LET found == Positive(w.db, view, a, s)
        t     == CHOOSE x \in found : \A y \in found : y <= x
    IN  IF w.db.mem[a][s].state \notin Unresolved THEN w
        ELSE IF found # {} THEN IF IsStart(w.db, a, s) THEN StartFound(w, a, s, t)
                                ELSE SteerFound(w, a, s, t)
        ELSE IF ~ProvenAbsent(w.db, view, a, s) THEN w
        ELSE IF IsStart(w.db, a, s) THEN StartAbsent(w, a, s) ELSE SteerAbsent(w, a, s)

-----------------------------------------------------------------------------
(* Handlers the environment or a timer posts *)

\* accept of source s; a duplicate delivery of a known source only repairs
\* its queue notice.
Accept(s, c) ==
    /\ Serial /\ link \notin {"crashed", "booting"}
    /\ \/ s \in NextSource(db)
       \/ db.src[s].state # "absent" /\ db.src[s].conv = c
    /\ \E w \in Pump([World EXCEPT !.db = AcceptChatSource(@, s, c, disp.cur), !.d.paused = FALSE]) :
          Becomes(w)
    /\ UNCHANGED <<turns, notes, link>>

\* enqueueInternal, after events arrived or a web goal was set
EnqueueInternal ==
    /\ Serial /\ link \notin {"crashed", "booting"}
    /\ \E w \in Pump([World EXCEPT !.d.paused = FALSE]) : Becomes(w)
    /\ UNCHANGED <<turns, notes, link>>

\* The pump that launch posts when the last outstanding call has settled.
PostedPump ==
    /\ Serial /\ Running /\ disp.wake
    /\ PumpBlocked(World) \/ ~PrimaryKeyConflict(World)
    /\ \E w \in Pump([World EXCEPT !.d.wake = FALSE]) : Becomes(w)
    /\ UNCHANGED <<turns, notes, link>>

\* beforeStartAdmission: the post-turn actions have drained, or failed.
AdmissionAnswered ==
    /\ Serial /\ Running /\ disp.admission = "asking"
    /\ \/ Becomes(Settled([World EXCEPT !.d.admission = "granted"]))
       \/ /\ used.errors < MaxErrors
          /\ Becomes(Settled([World EXCEPT !.d.admission = "waiting", !.used.errors = @ + 1]))
    /\ UNCHANGED <<turns, notes, link>>

AdmissionRetry ==
    /\ Serial /\ Running /\ disp.admission = "waiting"
    /\ \E w \in Pump([World EXCEPT !.d.admission = "none"]) : Becomes(w)
    /\ UNCHANGED <<turns, notes, link>>

\* recover
Recover(w) ==
    LET w1 == [w EXCEPT !.d = [@ EXCEPT !.published = {}, !.ready = FALSE, !.timer = FALSE]]
    IN  IF w.call.kind # "none" THEN [w1 EXCEPT !.d.timer = TRUE]
        ELSE LaunchRead([w1 EXCEPT !.d.paused = FALSE], "recover", NoAttempt, NoSource)

RecoveryTimer ==
    /\ Serial /\ Running /\ disp.timer
    /\ Becomes(Recover(World))
    /\ UNCHANGED <<turns, notes, link>>

UnavailableIdle(w) ==       \* mutant: the lost thread counts as idle
    [NewGeneration(w) EXCEPT
        !.call = IF @.kind = "none" THEN @ ELSE [@ EXCEPT !.stale = TRUE],
        !.d = [@ EXCEPT !.timer = FALSE, !.ready = FALSE, !.busy = FALSE,
                        !.cur = NoAttempt, !.steerPause = NoAttempt]]

\* nativeUnavailable
Unavailable(w) ==
    [NewGeneration(w) EXCEPT
        !.call = IF @.kind = "none" THEN @ ELSE [@ EXCEPT !.stale = TRUE],
        !.d = [@ EXCEPT !.timer = FALSE, !.ready = FALSE, !.busy = TRUE,
                        !.cur = NoAttempt, !.steerPause = NoAttempt]]

-----------------------------------------------------------------------------
(* Native submissions settle *)

SubmissionAnswered ==
    /\ Serial /\ Running /\ call.stage \in {"ok", "refused", "unsaved", "error"}
    /\ \E reported \in {FALSE} \cup {call.stage = "ok" /\ Announced(call.turn) /\ ShownEnded(call.turn)} :
       \E w \in Answered([World EXCEPT !.call = NoCall], call, reported) : Becomes(Settled(w))
    /\ UNCHANGED <<turns, notes, link>>

\* A superseded read returns: only the count of outstanding calls changes.
StaleReadReturns ==
    /\ Serial /\ Running /\ disp.stale > 0
    /\ Becomes(Settled([World EXCEPT !.d.stale = @ - 1]))
    /\ UNCHANGED <<turns, notes, link>>

-----------------------------------------------------------------------------
(* History reads return *)

Viewed(view) ==
    /\ view = "failed" \/ Connected
    /\ view # "failed" => \A t \in 1..Len(turns) : Announced(t)
    /\ view = "full" \/ (view = "failed" /\ link = "down") \/ used.readErrors < MaxReadErrors

Consume(w, view) ==
    IF view = "full" \/ (view = "failed" /\ link = "down") THEN w
    ELSE [w EXCEPT !.used.readErrors = @ + 1]

\* The read that handleSubmissionFailure launched.
FailureReadReturns(view) ==
    /\ Serial /\ Running /\ read.kind = "failure" /\ Viewed(view)
    /\ LET a == read.att  s == read.src
           w == [Consume(World, view) EXCEPT !.read = NoRead]
           r == IF view = "failed" THEN w ELSE ReconcileSubmission(w, view, a, s)
       IN  Becomes(Settled(IF view = "failed" \/ r.db.mem[a][s].state \in Unresolved
                           THEN [r EXCEPT !.d.timer = TRUE] ELSE r))
    /\ UNCHANGED <<turns, notes, link>>

\* The newest turn that the thread shows in progress, as a set of at most one.
ActiveTurn == {t \in 1..Len(turns) : /\ ~ShownEnded(t)
                                     /\ \A u \in (t + 1)..Len(turns) : ShownEnded(u)}

\* The read that recover launched: reconcileRecoverySnapshot up to its first
\* loop, or the start of reconcileRecoveryFailure.
RecoveryReadReturns(view) ==
    /\ Serial /\ Running /\ read.kind = "recover" /\ Viewed(view)
    /\ LET w   == [Consume(World, view) EXCEPT
                     !.read = [@ EXCEPT !.stage = "members", !.view = view,
                                        !.members = UnresolvedSubmissions(db)]]
           own == {a \in Attempts : \E t \in ActiveTurn \cap Listed(view) :
                     a \in AttemptForTurn(db, t) /\ db.att[a].accepting}
           cur == IF own = {} THEN NoAttempt ELSE CHOOSE a \in own : TRUE
       IN  Becomes(IF view = "failed" THEN w
                   ELSE [w EXCEPT !.db = FailOrphanedUnstartedAttempts(@),
                                  !.d = [@ EXCEPT !.ready = TRUE, !.busy = ActiveTurn # {},
                                                  !.cur = cur,
                                                  !.steerPause = IF cur = NoAttempt THEN NoAttempt ELSE disp.steerPause]])
    /\ UNCHANGED <<turns, notes, link>>

\* One round of the loop over the unresolved submissions.
RecoverMember(d) ==
    /\ read.stage = "members" /\ read.members # {}
    /\ LET a == Least({m[1] : m \in read.members})
           s == Least({m[2] : m \in {x \in read.members : x[1] = a}})
           w == [World EXCEPT !.db = MarkUncertainIfUnresolved(@, a, s), !.read.members = @ \ {<<a, s>>}]
           settled == w.db.mem[a][s].state # "uncertain"
           decided == [w EXCEPT !.db = BeginReconciliation(@, a, s, d)]
           reconciled == IF read.view = "failed" THEN decided
                         ELSE ReconcileSubmission(decided, read.view, a, s)
           again(v) == IF v.db.mem[a][s].state \in Unresolved THEN [v EXCEPT !.read.retry = TRUE] ELSE v
       IN  IF settled THEN Becomes(w)
           ELSE /\ d \in ReconcileDecisions(w.db, a, s)
                /\ Becomes(CASE d = "needs_attention" -> DropCurrent(decided, a)
                             [] d = "wait"  -> again(decided)
                             [] d = "ready" -> again(reconciled))
    /\ UNCHANGED <<turns, notes, link>>

\* advanceTerminalReconciliations begins.
RecoverMembersDone ==
    /\ read.stage = "members" /\ read.members = {}
    /\ Becomes([World EXCEPT !.read = [@ EXCEPT !.stage = "attempts", !.attempts = Terminalizing(db)]])
    /\ UNCHANGED <<turns, notes, link>>

\* One round of advanceTerminalReconciliations.
RecoverAttempt(d) ==
    /\ read.stage = "attempts" /\ read.attempts # {}
    /\ LET a == Least(read.attempts)
           w == [World EXCEPT !.read.attempts = @ \ {a}]
           unseen == read.view = "failed" \/ db.att[a].turn \notin Listed(read.view)
           decided == [w EXCEPT !.db = BeginTerminalReconciliation(@, a, d)]
           blocked(v) == [v EXCEPT !.read.blocked = @ \cup {a}]
       IN  /\ d \in TerminalDecisions(db, a)
           /\ Becomes(CASE d = "needs_attention" -> blocked(DropCurrent(decided, a))
                        [] d = "wait"  -> blocked([decided EXCEPT !.read.retry = TRUE])
                        [] d = "ready" -> [decided EXCEPT !.read.retry = @ \/ unseen])
    /\ UNCHANGED <<turns, notes, link>>

\* The ended turns of active attempts are published, and recovery ends.
RecoverTurns ==
    /\ read.stage = "attempts" /\ read.attempts = {}
    /\ LET over == {a \in Attempts \ read.blocked :
                      /\ read.view # "failed" /\ db.att[a].turn # NoTurn
                      /\ a \in AttemptForTurn(db, db.att[a].turn)
                      /\ db.att[a].turn \in Listed(read.view) /\ ShownEnded(db.att[a].turn)}
           fresh == {db.att[a].turn : a \in over} \ disp.published
       IN  Becomes(Settled([World EXCEPT
             !.db.att = [a \in Attempts |-> IF a \in over THEN [@[a] EXCEPT !.accepting = FALSE] ELSE @[a]],
             !.d.published = @ \cup fresh, !.d.timer = @ \/ read.retry,
             !.settle = [t \in Turns |-> IF t \in fresh /\ @[t] = "idle" THEN "queued" ELSE @[t]],
             !.read = NoRead]))
    /\ UNCHANGED <<turns, notes, link>>

-----------------------------------------------------------------------------
(* Terminal processing: processAssistantTerminalOnce *)

AttemptsOf(t) == {a \in Attempts : db.att[a].state # "absent" /\ db.att[a].turn = t}

\* attemptRow: the active attempt of the turn, else the latest.
AttemptOf(t) == LET active == {a \in AttemptsOf(t) : db.att[a].state = "active"}
                    from   == IF active # {} THEN active ELSE AttemptsOf(t)
                IN  CHOOSE a \in from : \A b \in from : b <= a

\* dispatcher.terminal, then contextForTurn
ProcessTerminal(t) ==
    \E shown \in BOOLEAN :
    \E w \in Terminal([World EXCEPT !.settle[t] = "waiting"], t, shown) :
       LET owned == \E a \in Attempts : w.db.att[a].state # "absent" /\ w.db.att[a].turn = t
       IN  Becomes(IF owned THEN w ELSE [w EXCEPT !.settle[t] = "idle"])

StartedDelivered ==
    /\ Serial /\ Running /\ notes # <<>> /\ Head(notes)[1] = "started"
    /\ \E shown \in BOOLEAN : \E w \in Started(World, Head(notes)[2], shown) : Becomes(w)
    /\ notes' = Tail(notes)
    /\ UNCHANGED <<turns, link>>

CompletedDelivered ==
    /\ Serial /\ Running /\ notes # <<>> /\ Head(notes)[1] = "completed"
    /\ LET t == Head(notes)[2]
       IN  IF settle[t] = "idle" THEN ProcessTerminal(t) ELSE Becomes(World)
    /\ notes' = Tail(notes)
    /\ UNCHANGED <<turns, link>>

PublishedTerminal(t) ==
    /\ Between /\ Running /\ settle[t] = "queued"
    /\ ProcessTerminal(t)
    /\ UNCHANGED <<turns, notes, link>>

\* waitForAttemptSubmissions is over; assistant.beginTerminalizing
SubmissionsSettled(t) ==
    /\ Serial /\ Running /\ settle[t] = "waiting"
    /\ LET a == AttemptOf(t)
       IN  /\ call.att # a /\ ~HasUnresolved(db, a)
           /\ Becomes([World EXCEPT !.settle[t] = "finishing",
                                    !.db = IF @.att[a].state = "active" THEN Terminalize(@, a) ELSE @])
    /\ UNCHANGED <<turns, notes, link>>

\* The tools are fenced and the final text is read back: handleTerminal.  The
\* turn completed, failed without effects, or failed after tools had effects.
Finish(t) ==
    /\ Serial /\ Running /\ settle[t] = "finishing"
    /\ LET a == AttemptOf(t)
           closed == IF db.att[a].state # "active" THEN {db}
                     ELSE {CompleteAttempt(db, a), RetryAttempt(db, a)}
                            \cup {SupersedeAttempt(db, a, r) : r \in NextSource(db)}
       IN  \E d1 \in closed : Becomes([World EXCEPT !.db = d1, !.settle[t] = "draining"])
    /\ UNCHANGED <<turns, notes, link>>

\* The post-turn actions have drained: enqueueInternal.
Drained(t) ==
    /\ Serial /\ Running /\ settle[t] = "draining"
    /\ \E w \in Pump([World EXCEPT !.settle[t] = "idle", !.d.paused = FALSE]) : Becomes(w)
    /\ UNCHANGED <<turns, notes, link>>

\* Reading the final text back, or a post-turn action, failed: requestRecovery.
ProcessingFails(t) ==
    /\ Serial /\ Running /\ settle[t] \in {"finishing", "draining"}
    /\ used.readErrors < MaxReadErrors
    /\ Becomes([World EXCEPT !.settle[t] = "idle", !.d.timer = TRUE, !.used.readErrors = @ + 1])
    /\ UNCHANGED <<turns, notes, link>>

-----------------------------------------------------------------------------
(* The app-server *)

ActiveTurns == {t \in 1..Len(turns) : turns[t].status = "active"}
Interrupted == [t \in 1..Len(turns) |-> [turns[t] EXCEPT !.status = "ended"]]

\* A start opens a turn; one that is still in progress gives way to it.
ApplyStart ==
    /\ call.kind = "start" /\ call.stage = "sent" /\ Connected
    /\ LET t == Len(turns) + 1
           over == IF ActiveTurns = {} THEN <<>>
                   ELSE << <<"completed", CHOOSE u \in ActiveTurns : TRUE>> >>
       IN  /\ turns' = Append(Interrupted, [status |-> "active", inputs |-> {<<call.att, call.src>>}])
           /\ notes' = notes \o over \o << <<"started", t>> >>
           /\ call' = [call EXCEPT !.stage = "ok", !.turn = t]
    /\ UNCHANGED <<db, disp, read, settle, link, used>>

ApplySteer ==
    /\ call.kind = "steer" /\ call.stage = "sent" /\ Connected
    /\ turns[call.turn].status = "active"
    /\ \/ /\ turns' = [turns EXCEPT ![call.turn].inputs = @ \cup {<<call.att, call.src>>}]
          /\ call' = [call EXCEPT !.stage = "ok"]
          /\ UNCHANGED used
       \/ /\ used.errors < MaxErrors
          /\ call' = [call EXCEPT !.stage = "refused"]
          /\ used' = [used EXCEPT !.errors = @ + 1]
          /\ UNCHANGED turns
    /\ UNCHANGED <<db, disp, read, settle, notes, link>>

\* There is no active turn to steer: an error of the request, not a refusal.
SteerRejected ==
    /\ call.kind = "steer" /\ call.stage = "sent" /\ ShownEnded(call.turn)
    /\ call' = [call EXCEPT !.stage = "error"]
    /\ UNCHANGED <<db, disp, read, settle, turns, notes, link, used>>

\* The request or its response is lost, times out or is rejected.
SubmissionFails ==
    /\ call.stage \in {"sent", "ok"} /\ used.errors < MaxErrors
    /\ call' = [call EXCEPT !.stage = "error"]
    /\ used' = [used EXCEPT !.errors = @ + 1]
    /\ UNCHANGED <<db, disp, read, settle, turns, notes, link>>

TurnEnds(t) ==
    /\ t \in ActiveTurns
    /\ turns' = [turns EXCEPT ![t].status = "ended"]
    /\ notes' = IF Connected THEN Append(notes, <<"completed", t>>) ELSE notes
    /\ UNCHANGED <<db, disp, call, read, settle, link, used>>

-----------------------------------------------------------------------------
(* The connection and the process *)

\* The process ends, leaving database d1; the app-server, its child, ends too,
\* and the history will show its turn as interrupted.
Down(d1, u) ==
    /\ db' = d1 /\ disp' = NewDispatcher /\ call' = NoCall /\ read' = NoRead
    /\ settle' = [t \in Turns |-> "idle"] /\ notes' = <<>> /\ link' = "crashed"
    /\ turns' = Interrupted
    /\ used' = u

Crash ==
    /\ Running /\ used.crashes < MaxCrashes
    /\ Down(db, [used EXCEPT !.crashes = @ + 1])

\* A pump posted by launch that throws is an unhandled rejection.
PumpThrows ==
    /\ Serial /\ Running /\ disp.wake
    /\ ~PumpBlocked(World) /\ PrimaryKeyConflict(World)
    /\ Down(db, used)

\* The scheduler phase stops: fenceToolAdmission, then dispatcher.stop.
Stop ==
    /\ Serial /\ link \in {"down", "opening", "stalled", "up"} /\ used.crashes < MaxCrashes
    /\ LET fenced == [db EXCEPT !.att = [a \in Attempts |->
                        IF @[a].state = "active" THEN [@[a] EXCEPT !.accepting = FALSE] ELSE @[a]]]
           open == IF disp.cur = NoAttempt THEN {}
                   ELSE {s \in Members(db, disp.cur, {"start_submitting", "steer_submitting"}) :
                            CanMarkUncertain(db, disp.cur, s)}
           marked == IF open = {} THEN fenced ELSE MarkUncertain(fenced, disp.cur, Least(open))
       IN  Down(marked, [used EXCEPT !.crashes = @ + 1])

\* The process starts again: dispatcher.recover behind the startup barrier.
Boot ==
    /\ link = "crashed" /\ link' = "booting"
    /\ Becomes(Recover(World))
    /\ UNCHANGED <<turns, notes>>

LinkLost ==
    /\ Serial /\ link \in {"opening", "stalled", "up"} /\ used.losses < MaxLosses
    /\ link' = "down" /\ notes' = <<>> /\ turns' = Interrupted
    /\ \E lost \in BOOLEAN :
         LET w == Unavailable([World EXCEPT !.used.losses = @ + 1])
         IN  Becomes([w EXCEPT !.call.stage = IF @ = "sent" \/ (lost /\ @ = "ok") THEN "error" ELSE @])

\* recoverAssistantEndpoint
Reconnect ==
    /\ Serial /\ link \in {"down", "stalled"} /\ link' = "opening"
    /\ Becomes(Recover(World))
    /\ UNCHANGED <<turns, notes>>

\* dispatcher.idle, then isNativeRecoveryReady; once recovered, the scheduler
\* phase or the reconnect ends with enqueueInternal.
Opened ==
    /\ Serial /\ link \in {"booting", "opening"} /\ Outstanding(World) = 0 /\ ~disp.wake
    /\ \/ /\ disp.ready /\ link' = "up"
          /\ \E w \in Pump([World EXCEPT !.d.paused = FALSE]) : Becomes(w)
          /\ UNCHANGED <<turns, notes>>
       \/ /\ ~disp.ready /\ link = "booting"
          /\ Down(db, used)
       \/ /\ ~disp.ready /\ link = "opening" /\ link' = "stalled"
          /\ Becomes(Unavailable(World))
          /\ UNCHANGED <<turns, notes>>

-----------------------------------------------------------------------------
Init ==
    /\ db = EmptyDatabase /\ disp = [NewDispatcher EXCEPT !.ready = TRUE]
    /\ call = NoCall /\ read = NoRead /\ settle = [t \in Turns |-> "idle"]
    /\ turns = <<>> /\ notes = <<>> /\ link = "up"
    /\ used = [crashes |-> 0, losses |-> 0, errors |-> 0, readErrors |-> 0, events |-> 0]

Views == {"failed", "full", "window", "blind"}
Decisions == {"ready", "wait", "needs_attention"}

Handlers ==
    \/ \E s \in Sources, c \in Conversations : Accept(s, c)
    \/ EnqueueInternal \/ PostedPump \/ PumpThrows \/ AdmissionAnswered \/ AdmissionRetry
    \/ RecoveryTimer \/ SubmissionAnswered \/ StaleReadReturns
    \/ \E view \in Views : FailureReadReturns(view) \/ RecoveryReadReturns(view)
    \/ \E d \in Decisions : RecoverMember(d) \/ RecoverAttempt(d)
    \/ RecoverMembersDone \/ RecoverTurns
    \/ StartedDelivered \/ CompletedDelivered
    \/ \E t \in Turns : PublishedTerminal(t) \/ SubmissionsSettled(t) \/ Finish(t)
                       \/ Drained(t) \/ ProcessingFails(t)

Native == ApplyStart \/ ApplySteer \/ SteerRejected \/ SubmissionFails \/ \E t \in Turns : TurnEnds(t)

Lifecycle == Crash \/ Stop \/ Boot \/ LinkLost \/ Reconnect \/ Opened

Next == Handlers \/ Native \/ Lifecycle

Spec == Init /\ [][Next]_vars

\* Posted handlers run, timers fire, requests are answered, turns end, the
\* supervisor restarts the process and reconnects.  Time passes: a retry that
\* is not yet due becomes due, which strong fairness on "ready" says.
Fairness ==
    /\ WF_vars(PostedPump) /\ WF_vars(PumpThrows)
    /\ WF_vars(AdmissionAnswered) /\ WF_vars(AdmissionRetry)
    /\ WF_vars(RecoveryTimer) /\ WF_vars(SubmissionAnswered) /\ WF_vars(StaleReadReturns)
    /\ WF_vars(\E view \in Views : FailureReadReturns(view))
    /\ WF_vars(\E view \in Views : RecoveryReadReturns(view))
    /\ WF_vars(\E d \in Decisions : RecoverMember(d)) /\ SF_vars(RecoverMember("ready"))
    /\ WF_vars(\E d \in Decisions : RecoverAttempt(d)) /\ SF_vars(RecoverAttempt("ready"))
    /\ WF_vars(RecoverMembersDone) /\ WF_vars(RecoverTurns)
    /\ WF_vars(StartedDelivered) /\ WF_vars(CompletedDelivered)
    /\ \A t \in Turns : /\ WF_vars(PublishedTerminal(t)) /\ WF_vars(SubmissionsSettled(t))
                        /\ WF_vars(Finish(t)) /\ WF_vars(Drained(t)) /\ WF_vars(TurnEnds(t))
    /\ WF_vars(ApplyStart) /\ WF_vars(ApplySteer) /\ WF_vars(SteerRejected)
    /\ WF_vars(Boot) /\ WF_vars(Reconnect) /\ WF_vars(Opened)

LiveSpec == Spec /\ Fairness

-----------------------------------------------------------------------------
(* Properties *)

\* The owner was told that source s was given up.
Warned(s) ==
    \/ \E n \in db.out : n.kind \in {"needs_attention", "exhausted"} /\ n.id = s
    \/ \E a \in Attempts : /\ [kind |-> "terminal_needs_attention", id |-> a] \in db.out
                           /\ db.mem[a][s].observed

\* Every variable keeps its type; in particular a recovery round never counts
\* past reconciliationMaxAttempts, and no more reads overlap than the run bounds.
TypeOK ==
    /\ db \in Databases /\ disp \in Dispatchers /\ call \in Calls /\ read \in Reads
    /\ settle \in [Turns -> {"idle", "queued", "waiting", "finishing", "draining"}]
    /\ turns \in Seq(NativeTurns) /\ Len(turns) <= MaxAttempts
    /\ notes \in Seq({"started", "completed"} \X Turns)
    /\ link \in Links /\ used \in Budgets

\* A source row is active exactly while one live submission of it exists, and
\* no source has two: the two tables that reserve, restorePending, the
\* reconciliation and the terminal transactions each write in part never
\* disagree, whichever of them ran last.
SourceAccounting ==
    \A s \in Sources :
      LET live == {a \in Attempts : db.mem[a][s].state \in Live}
      IN  /\ Cardinality(live) <= 1
          /\ db.src[s].state = "active" <=> live # {}

\* The turn that confirmStart binds to an attempt, from a response, a
\* notification or the history, really carries the attempt's first input, and
\* two attempts never share a turn.
TurnIdentity ==
    \A a \in Attempts : db.att[a].turn # NoTurn =>
      /\ db.att[a].turn <= Len(turns)
      /\ <<a, db.att[a].primary>> \in turns[db.att[a].turn].inputs
      /\ \A b \in Attempts \ {a} : db.att[b].turn # db.att[a].turn

\* A message reaches a second native turn only after the first one was observed
\* to carry it and has failed: neither restorePending, nor the reconciliation of
\* an uncertain submission, nor a restart runs a message again unknowingly.
NoDoubleExecution ==
    \A s \in Sources, a, b \in Attempts :
      /\ a < b
      /\ \E t \in 1..Len(turns) : <<a, s>> \in turns[t].inputs
      /\ \E t \in 1..Len(turns) : <<b, s>> \in turns[t].inputs
      => db.att[a].state = "failed" /\ db.mem[a][s].observed

\* A native turn only ever receives messages of one conversation, although
\* reserveNextSteer picks them while other conversations wait in the queue.
ConversationIsolation ==
    \A t \in 1..Len(turns) : \A m, n \in turns[t].inputs :
      m = n \/ SameConversation(db, m[2], n[2])

\* failedAttempts bounds the retries: a source that is still to run, or runs,
\* has failed fewer than maxEffectFreeAttempts observed turns, although
\* attempts also fail for reasons that do not count.
RetryBudget ==
    \A s \in Sources :
      db.src[s].state \in {"pending", "active"} => FailedAttempts(db, s) < MaxEffectFree

\* Once the owner has been told that a message was given up (the warnings of
\* markNeedsAttention, markTerminalNeedsAttention and failAttemptGroup), no
\* later recovery, terminal or retry runs that message again.
WarnedIsOver ==
    \A s \in Sources : Warned(s) => db.src[s].state \in {"completed", "superseded"}

\* A recovery looked again at the attempt of a turn before t, or at one of its
\* inputs.  When such a look finds that turn ended, terminal() lowers nativeBusy
\* whatever runs now (conversation-dispatcher.ts:185).
Revisited(t) ==
    \E a \in Attempts :
      /\ db.att[a].turn \in 1..(t - 1)
      /\ db.att[a].tries > 0 \/ \E s \in Sources : db.mem[a][s].tries > 0

\* The dispatcher never sends a start while the thread runs a turn, unless an
\* earlier turn was revisited: nativeBusy is raised and lowered by
\* notifications, answers and recoveries, and a pump that trusts it too early
\* would replace the running turn.
NoTurnReplaced ==
    [][ \A t \in 1..Len(turns) :
          (call.kind = "start" /\ Len(turns') > Len(turns))
            => turns[t].status = "ended" \/ Revisited(t) ]_vars

\* An attempt keeps the turn it was bound to: late answers, repeated
\* notifications and history reads never rebind it.
BindingIsFinal ==
    [][ \A a \in Attempts : db.att[a].turn # NoTurn => db'.att[a].turn = db.att[a].turn ]_vars

\* The stage of a source as its owner sees it.  A steer that was completed on
\* an attempt not yet closed still runs with that attempt.
CompletedBy(s, a) == db.mem[a][s].state = "completed"

Stage(s) ==
    CASE db.src[s].state = "absent"     -> "new"
      [] db.src[s].state = "pending"    -> "waiting"
      [] db.src[s].state = "active"     -> "running"
      [] db.src[s].state = "superseded" -> "replaced"
      [] OTHER ->
         IF \E a \in Attempts : CompletedBy(s, a) /\ db.att[a].state = "active" THEN "running"
         ELSE IF Warned(s) THEN "excused"
         ELSE IF \E a \in Attempts : /\ CompletedBy(s, a)
                                     /\ Chat(db, s) => [kind |-> "final", id |-> a] \in db.out
         THEN "answered" ELSE "dropped"

Queue == INSTANCE SourceQueue WITH
    Items <- Sources, Groups <- Conversations, None <- Internal,
    stage <- [s \in Sources |-> Stage(s)],
    group <- [s \in Sources |-> db.src[s].conv]

\* The queue implements SourceQueue: no message is dropped or answered without
\* a trace, none leaves a final stage, and the messages of one conversation
\* start in order of arrival, through every retry and recovery.
QueuePromise == Queue!Spec

\* A native submission is eventually settled: confirmed, put back or given up
\* (handleSubmissionFailure, the recovery rounds and waitForAttemptSubmissions).
EverySubmissionSettles ==
    \A a \in Attempts, s \in Sources :
      (db.mem[a][s].state \in Unresolved) ~> (db.mem[a][s].state \notin Unresolved)

\* An attempt whose turn is known to have ended is eventually closed, its
\* final text delivered or its sources retried (processAssistantTerminalOnce).
EveryTerminalFinishes ==
    \A a \in Attempts : (a \in Terminalizing(db)) ~> (db.att[a].state # "active")

\* The same for an attempt that waitForAttemptSubmissions does not hold back.
SettledTerminalFinishes ==
    \A a \in Attempts :
      (a \in Terminalizing(db) /\ ~HasUnresolved(db, a)) ~> (db.att[a].state # "active")

\* A source that acceptChatSource put in the queue is eventually answered,
\* superseded or given up with a warning, through retries and recoveries.
EverySourceEnds ==
    \A s \in Sources : (db.src[s].state = "pending") ~> (db.src[s].state \in {"completed", "superseded"})
=============================================================================
