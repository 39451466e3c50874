-------------------------- MODULE DeliveryOutboxProofs --------------------------
(***************************************************************************)
(* The safety properties of DeliveryOutbox, for every set of messages,     *)
(* every number of parts and every bound on errors and crashes.            *)
(***************************************************************************)
EXTENDS DeliveryOutbox, DeliveryStoreProofs

\* Only a running process has a worker and a send in flight.
Quiet == process # "up" => worker = NewWorker /\ call = NoCall

\* A send in flight is of a dispatched row; what it may still send was not
\* accepted before, what it waits for was.
CallFits ==
    call.stage # "none" =>
      /\ call.row \in Rows /\ call.part \in Parts /\ db.state[call.row] = "dispatched"
      /\ ~Reconciles(call.row) => call.part = 1
      /\ call.stage \in {"planning", "closing"} => Reconciles(call.row)
      /\ call.stage = "delayed" => ~Reconciles(call.row)
      /\ (Reconciles(call.row) /\ call.stage \in {"sent", "accepted", "closing"}) =>
           plan[call.row[1]][call.part] = "dispatching"
      /\ (call.stage \in {"sent", "closing", "delayed"} /\ (Reconciles(call.row) \/ IsOptional(call.row))) =>
           copies[call.row][call.part] = 0
      /\ call.stage = "accepted" => copies[call.row][call.part] > 0

\* A checkpoint says whether its part was accepted, until a new account
\* generation deletes it.
PartFits(m, i) ==
    /\ copies[Message(m)][i] <= 1
    /\ copies[Message(m)][i] = 1 =>
         plan[m][i] \in {"dispatching", "succeeded", "uncertain"} \/ account = "retired"
    /\ plan[m][i] = "succeeded" => copies[Message(m)][i] > 0

PlanFits ==
    \A m \in Reconciled :
      /\ db.state[Warning(m)] = "absent"
      /\ plan[m][1] = "none" => \A i \in Parts : plan[m][i] = "none"
      /\ plan[m][1] # "none" => db.state[Message(m)] # "absent"
      /\ \A i \in Parts : PartFits(m, i)

OptionalFits ==
    \A r \in Rows : IsOptional(r) =>
      /\ copies[r][1] <= 1
      /\ db.state[r] \in {"absent", "prepared"} => copies[r][1] = 0

\* The inductive invariant.
IInv ==
    /\ TypeOK /\ Good(db) /\ Quiet /\ CallFits /\ PlanFits /\ OptionalFits
    /\ ConfirmedWasAccepted /\ NoLostWakeup /\ NoStaleAlert

\* What a step does to outcomes.
Lasting == \A r \in Rows : db.state[r] \in Settled => db'.state[r] = db.state[r]

-----------------------------------------------------------------------------
(* Rows and the fields of the worker.                                      *)

LEMMA RowFacts ==
    /\ NoRow \notin Rows
    /\ \A m \in Messages : /\ Message(m) \in Rows /\ Message(m)[1] = m /\ IsMessage(Message(m))
                           /\ Warning(m) \in Rows /\ Warning(m)[1] = m /\ ~IsMessage(Warning(m))
                           /\ Message(m) # Warning(m)
    /\ \A r \in Rows : /\ r[1] \in Messages
                       /\ r = Message(r[1]) \/ r = Warning(r[1])
                       /\ IsMessage(r) => r = Message(r[1])
    BY DEF NoRow, Rows, Message, Warning, IsMessage

LEMMA WakeFits ==
    ASSUME NEW w \in Workers, NEW d \in Tables
    PROVE  Wake(w, d) \in Workers /\ Wake(w, d).phase \in {"drain", "send"}
    BY DEF Wake, StartPass, Workers, ListReady

LEMMA EndPassFits ==
    ASSUME NEW w \in Workers, NEW d \in Tables
    PROVE  /\ EndPass(w, d) \in Workers
           /\ \/ EndPass(w, d).phase = "drain"
              \/ EndPass(w, d).timer = (w.subscribed /\ ListReady(d) # {})
           /\ EndPass(w, d).subscribed = w.subscribed
    BY DEF EndPass, StartPass, Workers, ListReady

LEMMA ContinueFits ==
    ASSUME NEW w \in Workers, NEW d \in Tables, NEW r \in Rows
    PROVE  /\ Continue(w, r) \in Workers /\ Continue(w, r).phase = "drain"
           /\ ContinueWithWarning(w, d, r) \in Workers
           /\ ContinueWithWarning(w, d, r).phase = "drain"
<1>1. Continue(w, r) \in Workers /\ Continue(w, r).phase = "drain"
    BY DEF Continue, Workers
<1>2. Warning(r[1]) \in Rows
    BY RowFacts
<1> QED BY <1>1, <1>2 DEF ContinueWithWarning, Workers

LEMMA NewWorkerFits == NewWorker \in Workers /\ ~NewWorker.subscribed
    BY DEF NewWorker, Workers

LEMMA NoCallFits == NoCall \in Calls /\ NoCall.stage = "none"
    BY OutboxAssumption DEF NoCall, Calls, OutboxAssumption

\* A finished pass leaves no wake-up behind.
LEMMA EndPassWakes ==
    ASSUME TypeOK, db' \in Tables, worker' = EndPass(worker, db')
    PROVE  worker' \in Workers /\ NoLostWakeup'
<1>1. worker \in Workers
    BY DEF TypeOK
<1>2. /\ worker' \in Workers
      /\ worker'.phase = "drain" \/ worker'.timer = (worker'.subscribed /\ ListReady(db') # {})
    BY <1>1, EndPassFits
<1> QED BY <1>2 DEF NoLostWakeup

LEMMA ErrorBound ==
    ASSUME TypeOK, CanErr
    PROVE  Spend("errors") \in [errors : 0..MaxErrors, crashes : 0..MaxCrashes]
    BY OutboxAssumption DEF TypeOK, CanErr, Spend, OutboxAssumption

LEMMA CrashBound ==
    ASSUME TypeOK, used.crashes < MaxCrashes
    PROVE  Spend("crashes") \in [errors : 0..MaxErrors, crashes : 0..MaxCrashes]
    BY OutboxAssumption DEF TypeOK, Spend, OutboxAssumption

-----------------------------------------------------------------------------
(* Steps that leave the table, the plan, the account and the copies alone. *)

\* Only the worker moves.
LEMMA WorkerStep ==
    ASSUME IInv, UNCHANGED <<db, plan, account, call, copies>>,
           worker' \in Workers, announcing' \in BOOLEAN, process' \in {process, "up"},
           used' \in [errors : 0..MaxErrors, crashes : 0..MaxCrashes],
           process' = "up" \/ UNCHANGED worker, NoLostWakeup'
    PROVE  IInv' /\ Lasting
<1>1. TypeOK' /\ Good(db)' /\ Quiet'
    BY DEF IInv, TypeOK, Quiet
<1>2. CallFits' /\ PlanFits' /\ OptionalFits'
    BY DEF IInv, CallFits, PlanFits, PartFits, OptionalFits
<1>3. ConfirmedWasAccepted' /\ NoStaleAlert' /\ Lasting
    BY DEF IInv, ConfirmedWasAccepted, NoStaleAlert, Lasting
<1> QED BY <1>1, <1>2, <1>3 DEF IInv

LEMMA AnnounceReadyKeeps == ASSUME IInv, AnnounceReady PROVE IInv' /\ Lasting
<1>1. worker \in Workers /\ db \in Tables
    BY DEF IInv, TypeOK
<1>2. CASE worker.subscribed
    <2>1. worker' \in Workers /\ worker'.phase \in {"drain", "send"}
        BY <1>1, <1>2, WakeFits DEF AnnounceReady
    <2>2. process = "up"
        BY <1>2, NewWorkerFits DEF IInv, Quiet
    <2> QED BY <2>1, <2>2, WorkerStep DEF AnnounceReady, NoLostWakeup, IInv, TypeOK
<1>3. CASE ~worker.subscribed
    <2>1. process' = process /\ worker' = worker
        BY <1>3 DEF AnnounceReady
    <2>2. NoLostWakeup'
        BY <1>3, <2>1 DEF NoLostWakeup
    <2>3. CASE process = "up"
        BY <1>1, <2>1, <2>2, <2>3, WorkerStep DEF AnnounceReady, IInv, TypeOK
    <2>4. CASE process # "up"
        BY <1>1, <2>1, <2>2, <2>4, WorkerStep DEF AnnounceReady, IInv, TypeOK
    <2> QED BY <2>3, <2>4
<1> QED BY <1>2, <1>3

\* A worker that works, or waits for its timer, has a running process.
LEMMA Running ==
    ASSUME IInv
    PROVE  /\ worker.timer => process = "up"
           /\ worker.phase # "off" => process = "up"
           /\ worker.subscribed => process = "up"
           /\ call.stage # "none" => process = "up"
    BY NoCallFits DEF IInv, Quiet, NewWorker

LEMMA RetryTimerKeeps == ASSUME IInv, RetryTimer PROVE IInv' /\ Lasting
<1>1. worker \in Workers /\ [worker EXCEPT !.timer = FALSE] \in Workers /\ db \in Tables
    BY DEF IInv, TypeOK, Workers
<1>2. worker' \in Workers /\ worker'.phase \in {"drain", "send"}
    BY <1>1, WakeFits DEF RetryTimer
<1>3. process = "up"
    BY Running DEF RetryTimer
<1> QED BY <1>2, <1>3, WorkerStep DEF RetryTimer, NoLostWakeup, IInv, TypeOK

LEMMA FinishPassKeeps == ASSUME IInv, FinishPass PROVE IInv' /\ Lasting
<1>1. worker' \in Workers /\ NoLostWakeup'
    BY EndPassWakes DEF FinishPass, IInv, TypeOK
<1>2. process = "up"
    BY Running DEF FinishPass
<1> QED BY <1>1, <1>2, WorkerStep DEF FinishPass, IInv, TypeOK

LEMMA SkipKeeps ==
    ASSUME IInv, worker.phase = "drain", NEW r \in Rows, Skip(r) PROVE IInv' /\ Lasting
<1>1. worker' \in Workers /\ worker'.phase = "drain"
    BY ContinueFits DEF Skip, IInv, TypeOK
<1>2. process = "up"
    BY Running
<1> QED BY <1>1, <1>2, WorkerStep DEF Skip, NoLostWakeup, IInv, TypeOK

LEMMA StopKeeps == ASSUME IInv, Stop PROVE IInv' /\ Lasting
<1>1. worker' \in Workers /\ ~worker'.subscribed
    <2> DEFINE b == worker.phase \in {"drain", "send"}
    <2>1. worker' = [worker EXCEPT !.subscribed = FALSE, !.timer = FALSE, !.stopping = b]
        BY DEF Stop
    <2>2. b \in BOOLEAN /\ worker \in Workers
        BY DEF IInv, TypeOK
    <2> HIDE DEF b
    <2> QED BY <2>1, <2>2 DEF Workers
<1>2. used' \in [errors : 0..MaxErrors, crashes : 0..MaxCrashes]
    BY CrashBound DEF Stop, IInv
<1> QED BY <1>1, <1>2, WorkerStep DEF Stop, NoLostWakeup, IInv, TypeOK

LEMMA StartWorkerKeeps == ASSUME IInv, StartWorker PROVE IInv' /\ Lasting
<1>1. [worker EXCEPT !.subscribed = TRUE] \in Workers /\ db \in Tables
    BY DEF IInv, TypeOK, Workers
<1>2. worker' \in Workers /\ worker'.phase \in {"drain", "send"}
    BY <1>1, WakeFits DEF StartWorker
<1> QED BY <1>2, WorkerStep DEF StartWorker, NoLostWakeup, IInv, TypeOK

-----------------------------------------------------------------------------
(* Steps that move rows.                                                   *)

\* How a row may move: not once it is settled, never to confirmed without the
\* copies, and not back to the queue if it is optional and was accepted.
Move(r) ==
    /\ db.state[r] \notin Settled
    /\ db'.state[r] # "absent"
    /\ db'.state[r] = "confirmed" => \A i \in PartsOf(r) : copies[r][i] > 0
    /\ db'.state[r] = "prepared" /\ IsOptional(r) => copies[r][1] = 0
    /\ ~(Reconciles(r) /\ ~IsMessage(r))
    /\ IsMessage(r) /\ r[1] \in Alerts => db'.state[r] \in Settled \/ account' = "warned"

Moves == \A r \in Rows : db'.state[r] = db.state[r] \/ Move(r)

LEMMA OutcomesKeep ==
    ASSUME IInv, Moves, UNCHANGED copies, account = "warned" => account' = "warned"
    PROVE  OptionalFits' /\ ConfirmedWasAccepted' /\ NoStaleAlert' /\ Lasting
<1>1. OptionalFits'
    BY DEF IInv, Moves, Move, OptionalFits
<1>2. ConfirmedWasAccepted'
    BY DEF IInv, Moves, Move, ConfirmedWasAccepted
<1>3. NoStaleAlert'
    <2> SUFFICES ASSUME NEW a \in Alerts
                 PROVE  db'.state[Message(a)] \in {"absent"} \cup Settled \/ account' = "warned"
        BY DEF NoStaleAlert
    <2>1. a \in Messages
        BY OutboxAssumption, MessagesAssumption DEF OutboxAssumption, MessagesAssumption
    <2>2. Message(a) \in Rows /\ IsMessage(Message(a)) /\ Message(a)[1] = a
        BY <2>1, RowFacts
    <2> QED BY <2>2 DEF IInv, Moves, Move, NoStaleAlert
<1>4. Lasting
    BY DEF Moves, Move, Lasting
<1> QED BY <1>1, <1>2, <1>3, <1>4

LEMMA PlanKeeps ==
    ASSUME IInv, Moves, UNCHANGED <<copies, plan>>, account = "retired" => account' = "retired"
    PROVE  PlanFits'
<1> SUFFICES ASSUME NEW m \in Reconciled
             PROVE  /\ db'.state[Warning(m)] = "absent"
                    /\ plan[m][1] = "none" => \A i \in Parts : plan[m][i] = "none"
                    /\ plan[m][1] # "none" => db'.state[Message(m)] # "absent"
                    /\ \A i \in Parts : PartFits(m, i)'
    BY DEF PlanFits
<1>1. m \in Messages
    BY MessagesAssumption DEF MessagesAssumption
<1>2. /\ Message(m) \in Rows /\ Warning(m) \in Rows
      /\ ~IsMessage(Warning(m)) /\ Warning(m)[1] = m
    BY <1>1, RowFacts
<1>3. db'.state[Warning(m)] = "absent"
    BY <1>2 DEF IInv, PlanFits, Moves, Move, Reconciles
<1>4. plan[m][1] # "none" => db'.state[Message(m)] # "absent"
    BY <1>2 DEF IInv, PlanFits, Moves, Move
<1> QED BY <1>3, <1>4 DEF IInv, PlanFits, PartFits

LEMMA CallKeeps ==
    ASSUME IInv, UNCHANGED <<call, plan, copies>>,
           \A r \in Rows : db.state[r] = "dispatched" => db'.state[r] = "dispatched"
    PROVE  CallFits'
    BY DEF IInv, CallFits

\* A call of stage none fits.
LEMMA NoCallKeeps == ASSUME call' = NoCall PROVE CallFits'
    BY NoCallFits DEF CallFits

\* A new row.
LEMMA CreateStep ==
    ASSUME IInv, NEW q \in Rows, Good(db'),
           \/ db'.state = db.state
           \/ db.state[q] = "absent" /\ db'.state = [db.state EXCEPT ![q] = "prepared"],
           IsMessage(q) /\ q[1] \in Alerts => account' = "warned",
           ~(Reconciles(q) /\ ~IsMessage(q)),
           account = "warned" => account' = "warned",
           account = "retired" => account' = "retired",
           UNCHANGED <<plan, copies>>
    PROVE  /\ PlanFits' /\ OptionalFits' /\ ConfirmedWasAccepted' /\ NoStaleAlert' /\ Lasting
           /\ \A r \in Rows : db.state[r] = "dispatched" => db'.state[r] = "dispatched"
<1>1. db.state \in [Rows -> States]
    BY DEF IInv, Good, Tables
<1>2. Moves
    BY <1>1 DEF Moves, Move, Settled, IInv, OptionalFits
<1>3. \A r \in Rows : db.state[r] = "dispatched" => db'.state[r] = "dispatched"
    BY <1>1
<1> QED BY <1>2, <1>3, OutcomesKeep, PlanKeeps

LEMMA PrepareMessageKeeps ==
    ASSUME IInv, NEW m \in Messages, PrepareMessage(m) PROVE IInv' /\ Lasting
<1>1. Message(m) \in Rows /\ IsMessage(Message(m)) /\ Message(m)[1] = m
    BY RowFacts
<1>2. /\ Good(db') /\ db.state[Message(m)] = "absent"
      /\ db'.state = [db.state EXCEPT ![Message(m)] = "prepared"]
    BY <1>1, PrepareGood DEF PrepareMessage, IInv
<1>3. /\ PlanFits' /\ OptionalFits' /\ ConfirmedWasAccepted' /\ NoStaleAlert' /\ Lasting
      /\ \A r \in Rows : db.state[r] = "dispatched" => db'.state[r] = "dispatched"
    BY <1>1, <1>2, CreateStep DEF PrepareMessage
<1>4. announcing' = TRUE
    BY <1>2 DEF PrepareMessage, Announces
<1>5. TypeOK' /\ Quiet' /\ NoLostWakeup'
    BY <1>2, <1>4 DEF PrepareMessage, IInv, TypeOK, Quiet, NoLostWakeup, Good
<1>6. CallFits'
    BY <1>3, CallKeeps DEF PrepareMessage
<1> QED BY <1>2, <1>3, <1>5, <1>6 DEF IInv

LEMMA GiveUpKeeps ==
    ASSUME IInv, worker.phase = "drain", NEW r \in Rows, GiveUp(r) PROVE IInv' /\ Lasting
<1> DEFINE d == AbandonUncertain(db, r)
           q == Warning(r[1])
<1>1. IsOptional(r)
    BY DEF GiveUp, IsOptional
<1>2. q \in Rows /\ ~IsMessage(q) /\ ~Reconciles(q)
    BY <1>1, RowFacts DEF IsOptional, Reconciles
<1>3. Good(d) /\ d.state = db.state
    BY <1>1, AbandonGood DEF IInv
<1>4. /\ Good(db')
      /\ \/ db'.state = db.state
         \/ db.state[q] = "absent" /\ db'.state = [db.state EXCEPT ![q] = "prepared"]
    <2> HIDE DEF d, q
    <2>1. Good(Prepare(d, q)) /\ Prepare(d, q).state = IF d.state[q] # "absent" THEN d.state
                                                      ELSE [d.state EXCEPT ![q] = "prepared"]
        BY <1>2, <1>3, PrepareGood
    <2>2. db' = Prepare(d, q)
        BY DEF GiveUp, d, q
    <2> QED BY <1>3, <2>1, <2>2
<1>5. /\ PlanFits' /\ OptionalFits' /\ ConfirmedWasAccepted' /\ NoStaleAlert' /\ Lasting
      /\ \A x \in Rows : db.state[x] = "dispatched" => db'.state[x] = "dispatched"
    <2> HIDE DEF q
    <2> QED BY <1>2, <1>4, CreateStep DEF GiveUp
<1>6. worker' \in Workers /\ worker'.phase = "drain"
    BY <1>4, ContinueFits DEF GiveUp, IInv, TypeOK, Good
<1>7. process = "up"
    BY Running
<1>8. announcing' \in BOOLEAN
    BY DEF GiveUp, Announces, IInv, TypeOK
<1>9. TypeOK' /\ Quiet' /\ NoLostWakeup'
    BY <1>4, <1>6, <1>7, <1>8 DEF GiveUp, IInv, TypeOK, Quiet, NoLostWakeup, Good
<1>10. CallFits'
    BY <1>5, CallKeeps DEF GiveUp
<1> QED BY <1>4, <1>5, <1>9, <1>10 DEF IInv

\* One row that is under way moves.
LEMMA OneMove ==
    ASSUME IInv, NEW r \in Rows, NEW s \in States \ {"absent"}, Good(db'),
           db.state[r] \notin Settled \cup {"absent"},
           db'.state = [db.state EXCEPT ![r] = s],
           s = "confirmed" => \A i \in PartsOf(r) : copies[r][i] > 0,
           s = "prepared" /\ IsOptional(r) => copies[r][1] = 0,
           UNCHANGED <<account, copies>>
    PROVE  Moves /\ OptionalFits' /\ ConfirmedWasAccepted' /\ NoStaleAlert' /\ Lasting
<1>1. db.state \in [Rows -> States]
    BY DEF IInv, Good, Tables
<1>2. ~(Reconciles(r) /\ ~IsMessage(r))
    BY RowFacts DEF IInv, PlanFits, Reconciles
<1>3. IsMessage(r) /\ r[1] \in Alerts => account = "warned"
    BY RowFacts DEF IInv, NoStaleAlert
<1>4. Move(r)
    BY <1>1, <1>2, <1>3 DEF Move
<1>5. Moves
    BY <1>1, <1>4 DEF Moves
<1> QED BY <1>5, OutcomesKeep

\* A row of WeChat that exists is a message, and its warning is never prepared.
LEMMA WeChatRow ==
    ASSUME IInv, NEW r \in Rows, Reconciles(r), db.state[r] # "absent"
    PROVE  r = Message(r[1]) /\ r[1] \in Reconciled
    BY RowFacts DEF IInv, PlanFits, Reconciles

\* A complete plan was accepted.
LEMMA CompletePlan ==
    ASSUME IInv, NEW r \in Rows, Reconciles(r), db.state[r] # "absent",
           \A i \in Parts : plan[r[1]][i] = "succeeded"
    PROVE  \A i \in PartsOf(r) : copies[r][i] > 0
    BY WeChatRow DEF IInv, PlanFits, PartFits, PartsOf

LEMMA ReconcileKeeps ==
    ASSUME IInv, worker.phase = "drain", NEW r \in Rows, Reconcile(r) PROVE IInv' /\ Lasting
<1>1. /\ db.state[r] = "uncertain" /\ Reconciles(r)
      /\ worker' = Continue(worker, r)
      /\ UNCHANGED <<plan, account, process, announcing, call, copies, used>>
    BY DEF Reconcile
<1>2. Good(db) /\ db \in Tables /\ worker \in Workers /\ db.state \in [Rows -> States]
    BY DEF IInv, TypeOK, Good, Tables
<1>3. worker' \in Workers /\ worker'.phase = "drain"
    BY <1>1, <1>2, ContinueFits
<1>4. process = "up"
    BY Running
<1>5. CASE db' = db
    BY <1>1, <1>2, <1>3, <1>4, <1>5, WorkerStep DEF NoLostWakeup, IInv, TypeOK
<1>6. ASSUME NEW s \in {"confirmed", "prepared"}, Good(db'), db'.state = [db.state EXCEPT ![r] = s],
             s = "confirmed" => \A i \in Parts : plan[r[1]][i] = "succeeded"
      PROVE  IInv' /\ Lasting
    <2>1. s \in States \ {"absent"} /\ db.state[r] \notin Settled \cup {"absent"}
        BY <1>1 DEF States, Settled
    <2>2. s = "confirmed" => \A i \in PartsOf(r) : copies[r][i] > 0
        BY <1>1, <1>6, CompletePlan
    <2>3. ~IsOptional(r)
        BY <1>1 DEF IsOptional
    <2>4. Moves /\ OptionalFits' /\ ConfirmedWasAccepted' /\ NoStaleAlert' /\ Lasting
        BY <1>1, <1>6, <2>1, <2>2, <2>3, OneMove
    <2>5. PlanFits'
        BY <1>1, <2>4, PlanKeeps
    <2>6. CallFits'
        BY <1>1, <1>2, <1>6, CallKeeps
    <2>7. TypeOK' /\ Quiet' /\ NoLostWakeup'
        BY <1>1, <1>3, <1>4, <1>6 DEF IInv, TypeOK, Quiet, NoLostWakeup, Good
    <2> QED BY <1>6, <2>4, <2>5, <2>6, <2>7 DEF IInv
<1>7. CASE Resolution(plan[r[1]]) = "confirmed"
    <2>1. db' = Confirm(db, r)
        BY <1>7 DEF Reconcile
    <2>2. \A i \in Parts : plan[r[1]][i] = "succeeded"
        BY <1>7 DEF Resolution
    <2>3. Good(db') /\ db'.state = [db.state EXCEPT ![r] = "confirmed"]
        BY <1>1, <1>2, <2>1, EndGood DEF Settled
    <2> QED BY <1>6, <2>2, <2>3
<1>8. CASE Resolution(plan[r[1]]) = "resume_safe"
    <2>1. db' = SetState(db, r, "prepared")
        BY <1>1, <1>8 DEF Reconcile, ResumeUncertain
    <2>2. r \notin db.released
        BY <1>1, <1>2 DEF Good, Over, Settled, IsOptional
    <2>3. Good(db') /\ db'.state = [db.state EXCEPT ![r] = "prepared"]
        BY <1>1, <1>2, <2>1, <2>2, SetStateGood DEF States
    <2> QED BY <1>6, <2>3
<1>9. CASE Resolution(plan[r[1]]) = "unresolved"
    BY <1>5, <1>9 DEF Reconcile
<1>10. Resolution(plan[r[1]]) \in {"confirmed", "resume_safe", "unresolved"}
    BY DEF Resolution
<1> QED BY <1>7, <1>8, <1>9, <1>10

LEMMA DispatchKeeps ==
    ASSUME IInv, worker.phase = "drain", NEW r \in Rows, Dispatch(r) PROVE IInv' /\ Lasting
<1>1. /\ MayDispatch(r) /\ db.state[r] \in Ready
      /\ UNCHANGED <<plan, account, process, announcing, copies, used>>
    BY DEF Dispatch, MayDispatch, Ready
<1>2. Good(db) /\ worker \in Workers /\ db.state \in [Rows -> States]
    BY DEF IInv, TypeOK, Good, Tables
<1>3. db' = SetState(db, r, "dispatched")
    BY <1>1 DEF Dispatch, MarkDispatched
<1>4. r \notin db.released
    BY <1>1, <1>2 DEF MayDispatch, Good, Over, Settled, IsOptional
<1>5. /\ Good(db') /\ db'.state = [db.state EXCEPT ![r] = "dispatched"]
      /\ db'.state[r] = "dispatched"
    BY <1>1, <1>2, <1>3, <1>4, SetStateGood DEF States, Ready
<1>6. Moves /\ OptionalFits' /\ ConfirmedWasAccepted' /\ NoStaleAlert' /\ Lasting
    BY <1>1, <1>5, OneMove DEF States, Settled, Ready
<1>7. PlanFits'
    BY <1>1, <1>6, PlanKeeps
<1>8. worker' \in Workers /\ worker'.phase = "send"
    BY <1>2 DEF Dispatch, Workers
<1>9. process = "up" /\ 1 \in Parts
    BY Running, OutboxAssumption DEF OutboxAssumption, Parts
<1>10. /\ call'.row = r /\ call'.part = 1 /\ call' \in Calls
       /\ call'.stage = IF Reconciles(r) THEN "planning" ELSE "sent"
    <2> DEFINE b == db.state[r] = "uncertain"
               g == IF Reconciles(r) THEN "planning" ELSE "sent"
    <2>1. call' = [row |-> r, part |-> 1, tries |-> 0, labelled |-> b, stage |-> g]
        BY DEF Dispatch
    <2>2. b \in BOOLEAN /\ g \in {"planning", "sent"} /\ 1 \in 0..NParts /\ 0 \in 0..MaxTries
        BY OutboxAssumption DEF OutboxAssumption
    <2> HIDE DEF b
    <2>3. call' \in Calls
        <3> HIDE DEF g
        <3> QED BY <2>1, <2>2 DEF Calls
    <2> QED BY <2>1, <2>3
<1>11. CallFits'
    <2>1. IsOptional(r) => copies[r][1] = 0
        BY <1>1 DEF MayDispatch, IsOptional, IInv, OptionalFits
    <2> QED BY <1>1, <1>5, <1>9, <1>10, <2>1 DEF CallFits
<1>12. TypeOK' /\ Quiet' /\ NoLostWakeup'
    BY <1>1, <1>5, <1>8, <1>9, <1>10 DEF IInv, TypeOK, Quiet, NoLostWakeup, Good
<1> QED BY <1>5, <1>6, <1>7, <1>11, <1>12 DEF IInv

LEMMA ProcessOneKeeps == ASSUME IInv, ProcessOne PROVE IInv' /\ Lasting
    BY SkipKeeps, ReconcileKeeps, GiveUpKeeps, DispatchKeeps DEF ProcessOne

-----------------------------------------------------------------------------
(* The send and its outcomes.                                              *)

\* What a send in flight says of its row.
LEMMA SendFacts ==
    ASSUME IInv, call.stage # "none"
    PROVE  /\ Row \in Rows /\ call.part \in Parts /\ db.state[Row] = "dispatched"
           /\ Good(db) /\ Row \notin db.released
           /\ process = "up" /\ worker \in Workers
           /\ Reconciles(Row) => Row = Message(Row[1]) /\ Row[1] \in Reconciled
           /\ ~IsMessage(Row) => ~IsOptional(Row)
<1>1. Row \in Rows /\ call.part \in Parts /\ db.state[Row] = "dispatched" /\ Good(db)
    BY DEF IInv, CallFits, Row
<1>2. Row \notin db.released
    BY <1>1 DEF Good, Over, Settled
<1>3. process = "up" /\ worker \in Workers
    BY Running DEF IInv, TypeOK
<1>4. Reconciles(Row) => Row = Message(Row[1]) /\ Row[1] \in Reconciled
    BY <1>1, WeChatRow
<1> QED BY <1>1, <1>2, <1>3, <1>4 DEF IsOptional, IsMandatory

\* The row of the send moves on, the send is over.
LEMMA LeaveKeeps ==
    ASSUME IInv, call.stage # "none", NEW s \in {"prepared", "confirmed", "failed"},
           Good(db'), db'.state = [db.state EXCEPT ![Row] = s],
           s = "confirmed" => \A i \in PartsOf(Row) : copies[Row][i] > 0,
           s = "prepared" /\ IsOptional(Row) => copies[Row][1] = 0,
           call' = NoCall, worker' \in Workers, NoLostWakeup',
           UNCHANGED <<plan, account, process, announcing, copies>>,
           used' \in [errors : 0..MaxErrors, crashes : 0..MaxCrashes]
    PROVE  IInv' /\ Lasting
<1>1. Row \in Rows /\ db.state[Row] = "dispatched" /\ process = "up"
    BY SendFacts
<1>2. s \in States \ {"absent"} /\ db.state[Row] \notin Settled \cup {"absent"}
    BY <1>1 DEF States, Settled
<1>3. Moves /\ OptionalFits' /\ ConfirmedWasAccepted' /\ NoStaleAlert' /\ Lasting
    BY <1>1, <1>2, OneMove
<1>4. PlanFits' /\ CallFits'
    BY <1>3, PlanKeeps, NoCallKeeps
<1>5. TypeOK' /\ Quiet'
    BY <1>1, NoCallFits DEF IInv, TypeOK, Quiet, Good
<1> QED BY <1>3, <1>4, <1>5 DEF IInv

LEMMA DeliveredKeeps ==
    ASSUME IInv, call.stage # "none", Delivered(db), \A i \in PartsOf(Row) : copies[Row][i] > 0,
           UNCHANGED <<plan, account, process, announcing, copies, used>>
    PROVE  IInv' /\ Lasting
<1>1. /\ Row \in Rows /\ db.state[Row] = "dispatched" /\ worker \in Workers
      /\ Good(db) /\ db \in Tables
    BY SendFacts DEF Good
<1>2. Good(db') /\ db'.state = [db.state EXCEPT ![Row] = "confirmed"]
    BY <1>1, EndGood DEF Delivered, Settled
<1>3. worker' \in Workers /\ worker'.phase = "drain"
    BY <1>1, ContinueFits DEF Delivered
<1>4. NoLostWakeup' /\ call' = NoCall
    BY <1>3 DEF NoLostWakeup, Delivered
<1>5. used' \in [errors : 0..MaxErrors, crashes : 0..MaxCrashes]
    BY DEF IInv, TypeOK
<1> QED BY <1>2, <1>3, <1>4, <1>5, LeaveKeeps

\* A checkpoint of the part in flight changes, or the plan is made.
LEMMA PlanStep ==
    ASSUME IInv, NEW m \in Reconciled, NEW i \in Parts, NEW s \in PartStates \ {"none"},
           db.state[Message(m)] # "absent", UNCHANGED copies,
           \A q \in Reconciled : /\ db'.state[Warning(q)] = db.state[Warning(q)]
                                 /\ db'.state[Message(q)] = "absent" => db.state[Message(q)] = "absent",
           UNCHANGED account,
           NEW p, p = plan \/ (p = [plan EXCEPT ![m] = NewPlan] /\ ~Planned(m) /\ account # "retired"),
           plan' = [p EXCEPT ![m][i] = s], p[m][i] # "none",
           s = "prepared" => copies[Message(m)][i] = 0,
           s = "succeeded" => copies[Message(m)][i] > 0
    PROVE  PlanFits' /\ plan' \in [Reconciled -> [Parts -> PartStates]] /\ plan'[m][i] = s
<1>1. plan \in [Reconciled -> [Parts -> PartStates]]
    BY DEF IInv, TypeOK
<1>2. /\ p \in [Reconciled -> [Parts -> PartStates]]
      /\ \A q \in Reconciled \ {m} : p[q] = plan[q]
      /\ p[m] = plan[m] \/ (p[m] = NewPlan /\ ~Planned(m) /\ account # "retired")
    BY <1>1 DEF NewPlan, PartStates
<1>3. /\ plan' \in [Reconciled -> [Parts -> PartStates]]
      /\ \A q \in Reconciled \ {m} : plan'[q] = plan[q]
      /\ plan'[m][i] = s /\ \A j \in Parts \ {i} : plan'[m][j] = p[m][j]
    BY <1>2
<1>4. 1 \in Parts
    BY OutboxAssumption DEF OutboxAssumption, Parts
<1>5. p[m][1] # "none"
    BY <1>2, <1>4 DEF IInv, PlanFits, NewPlan
<1>6. plan'[m][1] # "none"
    BY <1>3, <1>4, <1>5
<1>7. \A j \in Parts : PartFits(m, j)'
    <2> SUFFICES ASSUME NEW j \in Parts PROVE PartFits(m, j)'
        OBVIOUS
    <2>1. PartFits(m, j)
        BY DEF IInv, PlanFits
    <2>2. CASE j = i
        <3>1. copies[Message(m)][i] <= 1 /\ copies[Message(m)][i] \in Nat
            <4>1. m \in Messages
                BY MessagesAssumption DEF MessagesAssumption
            <4> QED BY <2>1, <2>2, <4>1, RowFacts DEF PartFits, IInv, TypeOK
        <3> QED BY <1>3, <2>2, <3>1 DEF PartFits, PartStates
    <2>3. CASE j # i /\ p[m] = plan[m]
        BY <1>3, <2>1, <2>3 DEF PartFits
    <2>4. CASE j # i /\ p[m] = NewPlan /\ ~Planned(m) /\ account # "retired"
        <3>1. plan[m][j] = "none" /\ plan'[m][j] = "prepared"
            BY <1>3, <2>4 DEF IInv, PlanFits, Planned, NewPlan
        <3> QED BY <2>1, <2>4, <3>1 DEF PartFits
    <2> QED BY <1>2, <2>2, <2>3, <2>4
<1> DEFINE Fits(q) == /\ db'.state[Warning(q)] = "absent"
                      /\ plan'[q][1] = "none" => \A j \in Parts : plan'[q][j] = "none"
                      /\ plan'[q][1] # "none" => db'.state[Message(q)] # "absent"
                      /\ \A j \in Parts : PartFits(q, j)'
<1>8. ASSUME NEW q \in Reconciled \ {m} PROVE Fits(q)
    <2>1. plan'[q] = plan[q] /\ UNCHANGED <<copies, account>>
        BY <1>3
    <2>2. \A j \in Parts : PartFits(q, j)'
        BY <2>1 DEF IInv, PlanFits, PartFits
    <2> QED BY <2>1, <2>2 DEF IInv, PlanFits
<1>9. /\ db'.state[Warning(m)] = "absent" /\ db'.state[Message(m)] # "absent"
    BY DEF IInv, PlanFits
<1>10. \A q \in Reconciled : Fits(q)
    BY <1>6, <1>7, <1>8, <1>9
<1>11. PlanFits'
    BY <1>10 DEF PlanFits
<1> QED BY <1>3, <1>11

\* The send goes on: only the call and the plan move.
LEMMA SendGoesOn ==
    ASSUME IInv, call.stage # "none", call' \in Calls, CallFits', PlanFits',
           plan' \in [Reconciled -> [Parts -> PartStates]],
           UNCHANGED <<db, worker, account, process, announcing, copies>>,
           used' \in [errors : 0..MaxErrors, crashes : 0..MaxCrashes]
    PROVE  IInv' /\ Lasting
<1>1. TypeOK' /\ Quiet' /\ Good(db')
    BY SendFacts DEF IInv, TypeOK, Quiet
<1>2. OptionalFits' /\ ConfirmedWasAccepted' /\ NoStaleAlert' /\ NoLostWakeup' /\ Lasting
    BY DEF IInv, OptionalFits, ConfirmedWasAccepted, NoStaleAlert, NoLostWakeup, Lasting
<1> QED BY <1>1, <1>2 DEF IInv

LEMMA BeginPartKeeps == ASSUME IInv, BeginPart PROVE IInv' /\ Lasting
<1>1. /\ call.stage = "planning" /\ Reconciles(Row) /\ db.state[Row] = "dispatched"
      /\ Row \in Rows /\ Row = Message(Row[1]) /\ Row[1] \in Reconciled
      /\ Good(db) /\ worker \in Workers
      /\ UNCHANGED <<account, process, announcing, copies, used>>
    BY SendFacts DEF BeginPart, Sending, IInv, CallFits, Row
<1>2. used' \in [errors : 0..MaxErrors, crashes : 0..MaxCrashes]
    BY <1>1 DEF IInv, TypeOK
<1>3. CASE Leave(Fail(db, Row)) /\ UNCHANGED plan
    <2>1. Good(db') /\ db'.state = [db.state EXCEPT ![Row] = "failed"]
        BY <1>1, <1>3, EndGood DEF Leave, Settled
    <2>2. worker' \in Workers /\ NoLostWakeup'
        BY <1>3, <2>1, EndPassWakes DEF Leave, IInv, Good
    <2> QED BY <1>1, <1>2, <1>3, <2>1, <2>2, LeaveKeeps DEF Leave
<1>4. ASSUME account = "active", UNCHANGED <<db, worker>>, NEW i \in Parts, NEW p,
             p = IF Planned(Row[1]) THEN plan ELSE [plan EXCEPT ![Row[1]] = NewPlan],
             p[Row[1]][i] = "prepared",
             plan' = [p EXCEPT ![Row[1]][i] = "dispatching"],
             call' = [call EXCEPT !.part = i, !.stage = "sent"]
      PROVE  IInv' /\ Lasting
    <2> DEFINE m == Row[1]
    <2>1. m \in Reconciled /\ db.state[Message(m)] # "absent"
        BY <1>1
    <2>2. PlanFits' /\ plan' \in [Reconciled -> [Parts -> PartStates]] /\ plan'[m][i] = "dispatching"
        <3> HIDE DEF m
        <3>1. p = plan \/ (p = [plan EXCEPT ![m] = NewPlan] /\ ~Planned(m) /\ account # "retired")
            BY <1>4 DEF m
        <3>2. \A q \in Reconciled : db'.state[Warning(q)] = db.state[Warning(q)]
                                    /\ (db'.state[Message(q)] = "absent" => db.state[Message(q)] = "absent")
            BY <1>4
        <3>3. "dispatching" \in PartStates \ {"none"}
            BY DEF PartStates
        <3>4. plan' = [p EXCEPT ![m][i] = "dispatching"] /\ p[m][i] # "none"
            BY <1>4 DEF m
        <3>5. UNCHANGED copies /\ UNCHANGED account /\ i \in Parts
            BY <1>1, <1>4
        <3> QED BY <2>1, <3>1, <3>2, <3>3, <3>4, <3>5, PlanStep, ZenonT(60)
    <2>3. copies[Row][i] = 0
        <3>1. PartFits(m, i) /\ Row = Message(m)
            BY <1>1 DEF IInv, PlanFits
        <3>2. plan \in [Reconciled -> [Parts -> PartStates]]
            BY DEF IInv, TypeOK
        <3>3. plan[m][i] \in {"prepared", "none"}
            <4>1. CASE Planned(m)
                BY <1>4, <4>1
            <4>2. CASE ~Planned(m)
                BY <1>1, <4>2 DEF IInv, PlanFits, Planned
            <4> QED BY <4>1, <4>2
        <3>4. copies[Row][i] \in Nat
            BY <1>1 DEF IInv, TypeOK
        <3> QED BY <1>4, <3>1, <3>3, <3>4 DEF PartFits
    <2>4. call' \in Calls /\ call'.row = Row /\ call'.part = i /\ call'.stage = "sent"
        <3>1. call \in Calls /\ i \in 0..NParts
            BY <1>4, OutboxAssumption DEF OutboxAssumption, IInv, TypeOK, Parts
        <3> QED BY <1>4, <3>1 DEF Calls, Row
    <2>5. CallFits'
        BY <1>1, <1>4, <2>2, <2>3, <2>4 DEF CallFits
    <2> QED BY <1>1, <1>2, <1>4, <2>2, <2>4, <2>5, SendGoesOn
<1>5. \/ Leave(Fail(db, Row)) /\ UNCHANGED plan
      \/ /\ account = "active" /\ UNCHANGED <<db, worker>>
         /\ LET p == IF Planned(Row[1]) THEN plan ELSE [plan EXCEPT ![Row[1]] = NewPlan]
            IN  \E i \in Parts : /\ p[Row[1]][i] = "prepared"
                                 /\ plan' = [p EXCEPT ![Row[1]][i] = "dispatching"]
                                 /\ call' = [call EXCEPT !.part = i, !.stage = "sent"]
    BY DEF BeginPart
<1> QED BY <1>3, <1>4, <1>5

LEMMA AcceptKeeps == ASSUME IInv, Accept PROVE IInv' /\ Lasting
<1>1. /\ call.stage = "sent" /\ db.state[Row] = "dispatched"
      /\ Row \in Rows /\ call.part \in Parts /\ process = "up"
      /\ Reconciles(Row) => Row = Message(Row[1]) /\ Row[1] \in Reconciled
      /\ UNCHANGED <<db, plan, account, process, worker, announcing, used>>
    BY SendFacts DEF Accept
<1>2. copies \in [Rows -> [Parts -> Nat]] /\ call \in Calls
    BY DEF IInv, TypeOK
<1>3. /\ copies' \in [Rows -> [Parts -> Nat]]
      /\ copies'[Row][call.part] = copies[Row][call.part] + 1
      /\ \A r \in Rows, i \in Parts : r # Row \/ i # call.part => copies'[r][i] = copies[r][i]
      /\ \A r \in Rows, i \in Parts : copies[r][i] > 0 => copies'[r][i] > 0
    <2> DEFINE n == copies[Row][call.part] + 1
    <2>1. n \in Nat /\ n > 0 /\ copies' = [copies EXCEPT ![Row][call.part] = n]
        BY <1>1, <1>2 DEF Accept
    <2>2. /\ copies' \in [Rows -> [Parts -> Nat]] /\ copies'[Row][call.part] = n
          /\ \A r \in Rows, i \in Parts : r # Row \/ i # call.part => copies'[r][i] = copies[r][i]
        <3> HIDE DEF n
        <3> QED BY <1>1, <1>2, <2>1
    <2>3. \A r \in Rows, i \in Parts : copies[r][i] > 0 => copies'[r][i] > 0
        <3> HIDE DEF n
        <3> QED BY <2>1, <2>2
    <2> QED BY <2>2, <2>3
<1>4. /\ Reconciles(Row) => plan[Row[1]][call.part] = "dispatching"
      /\ Reconciles(Row) \/ IsOptional(Row) => copies[Row][call.part] = 0
      /\ ~Reconciles(Row) => call.part = 1
    BY <1>1 DEF IInv, CallFits, Row
<1>5. call' \in Calls /\ call'.row = Row /\ call'.part = call.part /\ call'.stage = "accepted"
    BY <1>2 DEF Accept, Calls, Row
<1>6. CallFits'
    <2>1. copies'[Row][call.part] > 0
        BY <1>1, <1>2, <1>3
    <2> QED BY <1>1, <1>4, <1>5, <2>1 DEF CallFits
<1>7. PlanFits'
    <2> SUFFICES ASSUME NEW m \in Reconciled, NEW i \in Parts PROVE PartFits(m, i)'
        BY <1>1 DEF IInv, PlanFits
    <2>1. PartFits(m, i)
        BY DEF IInv, PlanFits
    <2>2. m \in Messages /\ Message(m) \in Rows /\ Message(m)[1] = m
        BY RowFacts, MessagesAssumption DEF MessagesAssumption
    <2>3. CASE Message(m) # Row \/ i # call.part
        <3>1. copies'[Message(m)][i] = copies[Message(m)][i]
            BY <1>3, <2>2, <2>3
        <3> QED BY <1>1, <2>1, <3>1 DEF PartFits
    <2>4. CASE Message(m) = Row /\ i = call.part
        <3>1. Reconciles(Row) /\ Row[1] = m
            BY <2>2, <2>4 DEF Reconciles
        <3>2. copies'[Message(m)][i] = 1 /\ plan'[m][i] = "dispatching"
            BY <1>1, <1>3, <1>4, <2>4, <3>1
        <3> QED BY <3>2 DEF PartFits
    <2> QED BY <2>3, <2>4
<1>8. OptionalFits'
    <2> SUFFICES ASSUME NEW r \in Rows, IsOptional(r)
                 PROVE  /\ copies'[r][1] <= 1
                        /\ db'.state[r] \in {"absent", "prepared"} => copies'[r][1] = 0
        BY DEF OptionalFits
    <2>1. 1 \in Parts
        BY OutboxAssumption DEF OutboxAssumption, Parts
    <2>2. CASE r # Row
        BY <1>1, <1>3, <2>1, <2>2 DEF IInv, OptionalFits
    <2>3. CASE r = Row
        BY <1>1, <1>3, <1>4, <2>3 DEF IsOptional
    <2> QED BY <2>2, <2>3
<1>9. ConfirmedWasAccepted'
    <2>1. \A r \in Rows : PartsOf(r) \subseteq Parts
        BY OutboxAssumption DEF OutboxAssumption, Parts, PartsOf
    <2> QED BY <1>1, <1>3, <2>1 DEF IInv, ConfirmedWasAccepted
<1>10. TypeOK' /\ Quiet' /\ Good(db')
    BY <1>1, <1>3, <1>5 DEF IInv, TypeOK, Quiet
<1>11. NoStaleAlert' /\ NoLostWakeup' /\ Lasting
    BY <1>1 DEF IInv, NoStaleAlert, NoLostWakeup, Lasting
<1> QED BY <1>6, <1>7, <1>8, <1>9, <1>10, <1>11 DEF IInv

LEMMA AnswerOkKeeps == ASSUME IInv, AnswerOk PROVE IInv' /\ Lasting
<1>1. /\ call.stage = "accepted" /\ db.state[Row] = "dispatched"
      /\ Row \in Rows /\ call.part \in Parts /\ process = "up"
      /\ Reconciles(Row) => Row = Message(Row[1]) /\ Row[1] \in Reconciled
      /\ UNCHANGED <<account, process, announcing, copies, used>>
    BY SendFacts DEF AnswerOk, Sending
<1>2. /\ Reconciles(Row) => plan[Row[1]][call.part] = "dispatching"
      /\ copies[Row][call.part] > 0
      /\ ~Reconciles(Row) => call.part = 1
      /\ used' \in [errors : 0..MaxErrors, crashes : 0..MaxCrashes]
    BY <1>1 DEF IInv, TypeOK, CallFits, Row
<1>3. CASE Reconciles(Row)
    <2> DEFINE m == Row[1]
    <2>1. /\ plan' = [plan EXCEPT ![m][call.part] = "succeeded"]
          /\ call' = [call EXCEPT !.stage = "planning"] /\ UNCHANGED <<db, worker>>
        BY <1>3 DEF AnswerOk, SetPart
    <2>2. PlanFits' /\ plan' \in [Reconciled -> [Parts -> PartStates]]
        <3>1. m \in Reconciled /\ Row = Message(m) /\ db.state[Message(m)] # "absent"
            BY <1>1, <1>3
        <3>2. "succeeded" \in PartStates \ {"none"}
            BY DEF PartStates
        <3>3. copies[Message(m)][call.part] > 0 /\ plan[m][call.part] = "dispatching"
            BY <1>2, <1>3, <3>1
        <3> HIDE DEF m
        <3> QED BY <1>1, <2>1, <3>1, <3>2, <3>3, PlanStep
    <2>3. call' \in Calls /\ call'.row = Row /\ call'.part = call.part /\ call'.stage = "planning"
        BY <2>1 DEF IInv, TypeOK, Calls, Row
    <2>4. CallFits'
        BY <1>1, <1>3, <2>1, <2>3 DEF CallFits
    <2> QED BY <1>1, <1>2, <2>1, <2>2, <2>3, <2>4, SendGoesOn
<1>4. CASE ~Reconciles(Row)
    <2>1. Delivered(db) /\ UNCHANGED plan
        BY <1>4 DEF AnswerOk
    <2>2. \A i \in PartsOf(Row) : copies[Row][i] > 0
        BY <1>2, <1>4 DEF PartsOf
    <2> QED BY <1>1, <2>1, <2>2, DeliveredKeeps
<1> QED BY <1>3, <1>4

LEMMA FinishPlanKeeps == ASSUME IInv, FinishPlan PROVE IInv' /\ Lasting
<1>1. /\ call.stage = "planning" /\ db.state[Row] = "dispatched" /\ Row \in Rows
      /\ Delivered(db) /\ Undone(plan, Row[1]) = {}
      /\ UNCHANGED <<plan, account, process, announcing, copies, used>>
    BY SendFacts DEF FinishPlan, Sending
<1>2. Reconciles(Row)
    BY <1>1 DEF IInv, CallFits, Row
<1>3. \A i \in Parts : plan[Row[1]][i] = "succeeded"
    BY <1>1 DEF Undone
<1>4. \A i \in PartsOf(Row) : copies[Row][i] > 0
    BY <1>1, <1>2, <1>3, CompletePlan
<1> QED BY <1>1, <1>4, DeliveredKeeps

LEMMA AnswerRefusedKeeps == ASSUME IInv, AnswerRefused PROVE IInv' /\ Lasting
<1>1. /\ call.stage = "sent" /\ ~Reconciles(Row) /\ db.state[Row] = "dispatched"
      /\ Row \in Rows /\ call.part \in Parts /\ Good(db) /\ Row \notin db.released
      /\ UNCHANGED <<plan, account, process, announcing, copies>>
    BY SendFacts DEF AnswerRefused, Sending
<1>2. used' \in [errors : 0..MaxErrors, crashes : 0..MaxCrashes]
    BY ErrorBound DEF AnswerRefused, IInv
<1>3. call.part = 1 /\ (IsOptional(Row) => copies[Row][1] = 0)
    BY <1>1 DEF IInv, CallFits, Row
<1>4. CASE /\ HasFile(Row) /\ call.tries + 1 < MaxTries
           /\ call' = [call EXCEPT !.stage = "delayed", !.tries = call.tries + 1]
           /\ UNCHANGED <<db, worker>>
    <2>1. call \in Calls /\ call.tries \in 0..MaxTries
        BY DEF IInv, TypeOK, Calls
    <2>2. call' \in Calls /\ call'.row = Row /\ call'.part = call.part /\ call'.stage = "delayed"
        <3> DEFINE n == call.tries + 1
        <3>1. n \in 0..MaxTries /\ call' = [call EXCEPT !.stage = "delayed", !.tries = n]
            BY <1>4, <2>1, OutboxAssumption DEF OutboxAssumption
        <3> HIDE DEF n
        <3> QED BY <2>1, <3>1 DEF Calls, Row
    <2>3. CallFits'
        BY <1>1, <1>3, <1>4, <2>2 DEF CallFits
    <2>4. PlanFits' /\ plan' \in [Reconciled -> [Parts -> PartStates]]
        BY <1>1, <1>4 DEF IInv, TypeOK, PlanFits, PartFits
    <2> QED BY <1>1, <1>2, <1>4, <2>2, <2>3, <2>4, SendGoesOn
<1>5. CASE Leave(MarkPrepared(db, Row))
    <2>1. Good(db') /\ db'.state = [db.state EXCEPT ![Row] = "prepared"]
        BY <1>1, <1>5, SetStateGood DEF Leave, MarkPrepared, SetState, States
    <2>2. worker' \in Workers /\ NoLostWakeup'
        BY <1>5, <2>1, EndPassWakes DEF Leave, IInv, Good
    <2> QED BY <1>1, <1>2, <1>3, <1>5, <2>1, <2>2, LeaveKeeps DEF Leave
<1> QED BY <1>4, <1>5 DEF AnswerRefused

LEMMA RetryUploadKeeps == ASSUME IInv, RetryUpload PROVE IInv' /\ Lasting
<1>1. /\ call.stage = "delayed"
      /\ UNCHANGED <<db, plan, account, process, worker, announcing, copies, used>>
    BY DEF RetryUpload, Sending
<1>2. call' \in Calls /\ call'.row = Row /\ call'.part = call.part /\ call'.stage = "sent"
    BY DEF RetryUpload, IInv, TypeOK, Calls, Row
<1>3. CallFits'
    BY <1>1, <1>2 DEF IInv, CallFits, Row
<1>4. /\ PlanFits' /\ plan' \in [Reconciled -> [Parts -> PartStates]]
      /\ used' \in [errors : 0..MaxErrors, crashes : 0..MaxCrashes]
    BY <1>1 DEF IInv, TypeOK, PlanFits, PartFits
<1> QED BY <1>1, <1>2, <1>3, <1>4, SendGoesOn

-----------------------------------------------------------------------------
(* The account, and the errors.                                            *)

LEMMA ReportKeeps ==
    ASSUME IInv, ReportIncident, account # "retired", UNCHANGED <<plan, copies>>
    PROVE  /\ Good(db') /\ account' = "warned" /\ announcing' = TRUE
           /\ PlanFits' /\ OptionalFits' /\ ConfirmedWasAccepted' /\ NoStaleAlert' /\ Lasting
           /\ \A r \in Rows : db.state[r] = "dispatched" => db'.state[r] = "dispatched"
<1>1. account' = "warned" /\ announcing' = TRUE
    BY DEF ReportIncident
<1>2. PICK a \in NewAlerts : db' = Prepare(db, Message(a))
    BY DEF ReportIncident
<1>3. a \in Messages /\ a \in Alerts /\ a \notin Reconciled
    BY OutboxAssumption, MessagesAssumption DEF NewAlerts, OutboxAssumption, MessagesAssumption
<1>4. Message(a) \in Rows /\ IsMessage(Message(a)) /\ Message(a)[1] = a
    BY <1>3, RowFacts
<1>5. /\ Good(db')
      /\ \/ db'.state = db.state
         \/ db.state[Message(a)] = "absent" /\ db'.state = [db.state EXCEPT ![Message(a)] = "prepared"]
    BY <1>2, <1>4, PrepareGood DEF IInv
<1> QED BY <1>1, <1>4, <1>5, CreateStep

LEMMA CloseKeeps ==
    ASSUME IInv, CloseAccount, UNCHANGED <<plan, copies>>
    PROVE  /\ Good(db') /\ announcing' \in BOOLEAN
           /\ account' \in {"active", "unwarned", "warned", "retired"}
           /\ announcing' = TRUE \/ UNCHANGED <<db, announcing>>
           /\ PlanFits' /\ OptionalFits' /\ ConfirmedWasAccepted' /\ NoStaleAlert' /\ Lasting
           /\ \A r \in Rows : db.state[r] = "dispatched" => db'.state[r] = "dispatched"
<1>1. CASE UNCHANGED <<account, db, announcing>>
    BY <1>1 DEF IInv, TypeOK, PlanFits, PartFits, OptionalFits, ConfirmedWasAccepted, NoStaleAlert,
                Lasting
<1>2. CASE account = "active" /\ account' = "unwarned" /\ UNCHANGED <<db, announcing>>
    <2>1. PlanFits' /\ OptionalFits' /\ ConfirmedWasAccepted'
        BY <1>2 DEF IInv, PlanFits, PartFits, OptionalFits, ConfirmedWasAccepted
    <2>2. NoStaleAlert' /\ Lasting
        BY <1>2 DEF IInv, NoStaleAlert, Lasting
    <2> QED BY <1>2, <2>1, <2>2 DEF IInv, TypeOK
<1>3. CASE account = "active" /\ ReportIncident
    BY <1>3, ReportKeeps
<1> QED BY <1>1, <1>2, <1>3 DEF CloseAccount

LEMMA LoseAuthorizationKeeps == ASSUME IInv, LoseAuthorization PROVE IInv' /\ Lasting
<1>1. CloseAccount /\ UNCHANGED <<plan, process, worker, call, copies, used>>
    BY DEF LoseAuthorization
<1>2. /\ Good(db') /\ announcing' \in BOOLEAN
      /\ account' \in {"active", "unwarned", "warned", "retired"}
      /\ announcing' = TRUE \/ UNCHANGED <<db, announcing>>
      /\ PlanFits' /\ OptionalFits' /\ ConfirmedWasAccepted' /\ NoStaleAlert' /\ Lasting
      /\ \A r \in Rows : db.state[r] = "dispatched" => db'.state[r] = "dispatched"
    BY <1>1, CloseKeeps
<1>3. CallFits'
    BY <1>1, <1>2, CallKeeps
<1>4. TypeOK' /\ Quiet' /\ NoLostWakeup'
    BY <1>1, <1>2 DEF IInv, TypeOK, Quiet, NoLostWakeup, Good
<1> QED BY <1>2, <1>3, <1>4 DEF IInv

LEMMA AnswerUnauthorizedKeeps == ASSUME IInv, AnswerUnauthorized PROVE IInv' /\ Lasting
<1>1. /\ CloseAccount /\ UNCHANGED <<plan, process, worker, copies>>
      /\ call.stage = "sent" /\ Reconciles(Row)
      /\ call' = [call EXCEPT !.stage = "closing"]
    BY DEF AnswerUnauthorized, Sending
<1>2. /\ Good(db') /\ announcing' \in BOOLEAN
      /\ account' \in {"active", "unwarned", "warned", "retired"}
      /\ announcing' = TRUE \/ UNCHANGED <<db, announcing>>
      /\ PlanFits' /\ OptionalFits' /\ ConfirmedWasAccepted' /\ NoStaleAlert' /\ Lasting
      /\ \A r \in Rows : db.state[r] = "dispatched" => db'.state[r] = "dispatched"
    BY <1>1, CloseKeeps
<1>3. call' \in Calls /\ call'.row = Row /\ call'.part = call.part /\ call'.stage = "closing"
    BY <1>1 DEF IInv, TypeOK, Calls, Row
<1>4. CallFits'
    BY <1>1, <1>2, <1>3 DEF IInv, CallFits, Row
<1>5. used' \in [errors : 0..MaxErrors, crashes : 0..MaxCrashes]
    BY ErrorBound DEF AnswerUnauthorized, IInv
<1>6. process = "up"
    BY <1>1, Running
<1>7. TypeOK' /\ Quiet' /\ NoLostWakeup'
    BY <1>1, <1>2, <1>3, <1>5, <1>6 DEF IInv, TypeOK, Quiet, NoLostWakeup, Good
<1> QED BY <1>2, <1>4, <1>7 DEF IInv

\* The row of the send ends or becomes uncertain, with its warning.
LEMMA WarnedKeeps ==
    ASSUME IInv, call.stage # "none", NEW d, NEW s \in {"failed", "uncertain"},
           Good(d), d.state = [db.state EXCEPT ![Row] = s],
           db' = Warned(d), AnnounceWarned, UNCHANGED <<account, copies>>
    PROVE  /\ Good(db') /\ announcing' \in BOOLEAN /\ Moves
           /\ OptionalFits' /\ ConfirmedWasAccepted' /\ NoStaleAlert' /\ Lasting
<1>1. /\ Row \in Rows /\ db.state[Row] = "dispatched" /\ db.state \in [Rows -> States]
      /\ ~IsMessage(Row) => ~IsOptional(Row)
    BY SendFacts DEF IInv, Good, Tables
<1>2. s \in States \ {"absent"} /\ db.state[Row] \notin Settled \cup {"absent"}
    BY <1>1 DEF States, Settled
<1>3. CASE ~IsOptional(Row)
    <2>1. db' = d /\ announcing' = announcing
        BY <1>3 DEF Warned, AnnounceWarned, IsOptional
    <2>2. Moves /\ OptionalFits' /\ ConfirmedWasAccepted' /\ NoStaleAlert' /\ Lasting
        BY <1>1, <1>2, <2>1, OneMove
    <2> QED BY <2>1, <2>2 DEF IInv, TypeOK
<1>4. CASE IsOptional(Row)
    <2> DEFINE q == Warning(Row[1])
               e == AbandonUncertain(d, Row)
    <2>1. q \in Rows /\ ~IsMessage(q) /\ ~Reconciles(q) /\ IsMessage(Row) /\ q # Row /\ ~IsOptional(q)
        BY <1>1, <1>4, RowFacts DEF IsOptional, IsMandatory, Reconciles
    <2>2. Good(e) /\ e.state = d.state
        BY <1>1, <1>4, AbandonGood
    <2>3. db' = Prepare(e, q) /\ announcing' = Announces(db, q)
        BY <1>4 DEF Warned, AnnounceWarned, IsOptional
    <2> HIDE DEF q, e
    <2>4. /\ Good(db')
          /\ db'.state = d.state \/ (d.state[q] = "absent" /\ db'.state = [d.state EXCEPT ![q] = "prepared"])
        BY <2>1, <2>2, <2>3, PrepareGood
    <2>5. Move(Row)
        <3>1. db'.state[Row] = s
            BY <1>1, <2>1, <2>4
        <3>2. Row[1] \notin Alerts
            BY <1>4, <2>1, OutboxAssumption DEF OutboxAssumption, IsOptional, IsMandatory
        <3> QED BY <1>1, <1>2, <1>4, <3>1, <3>2 DEF Move, IsOptional
    <2>6. ASSUME NEW r \in Rows \ {Row} PROVE db'.state[r] = db.state[r] \/ Move(r)
        <3>1. CASE r # q \/ db'.state = d.state
            BY <1>1, <2>4, <3>1
        <3>2. CASE r = q /\ d.state[q] = "absent" /\ db'.state = [d.state EXCEPT ![q] = "prepared"]
            <4>1. db.state[r] = "absent" /\ db'.state[r] = "prepared"
                BY <1>1, <2>1, <3>2
            <4> QED BY <2>1, <3>2, <4>1 DEF Move, Settled
        <3> QED BY <2>4, <3>1, <3>2
    <2>7. Moves
        BY <2>5, <2>6 DEF Moves
    <2>8. announcing' \in BOOLEAN
        BY <2>3 DEF Announces, IInv, TypeOK
    <2> QED BY <2>4, <2>7, <2>8, OutcomesKeep
<1> QED BY <1>3, <1>4

\* The send ends with an error.
LEMMA ErrorKeeps ==
    ASSUME IInv, call.stage \in {"sent", "accepted", "closing"}, NEW d, NEW s \in {"failed", "uncertain"},
           NEW c \in {"prepared", "uncertain"},
           Good(d), d.state = [db.state EXCEPT ![Row] = s], Leave(Warned(d)), AnnounceWarned,
           plan' = IF Reconciles(Row) THEN SetPart(Row[1], call.part, c) ELSE plan,
           c = "prepared" => call.stage # "accepted",
           UNCHANGED <<account, process, copies>>,
           used' \in [errors : 0..MaxErrors, crashes : 0..MaxCrashes]
    PROVE  IInv' /\ Lasting
<1>1. /\ Good(db') /\ announcing' \in BOOLEAN /\ Moves
      /\ OptionalFits' /\ ConfirmedWasAccepted' /\ NoStaleAlert' /\ Lasting
    BY WarnedKeeps DEF Leave
<1>2. worker' \in Workers /\ NoLostWakeup'
    BY <1>1, EndPassWakes DEF Leave, IInv, Good
<1>3. PlanFits' /\ plan' \in [Reconciled -> [Parts -> PartStates]]
    <2>1. CASE ~Reconciles(Row)
        BY <1>1, <2>1, PlanKeeps DEF IInv, TypeOK
    <2>2. CASE Reconciles(Row)
        <3> DEFINE m == Row[1]
        <3>1. /\ m \in Reconciled /\ Row = Message(m) /\ db.state[Message(m)] # "absent"
              /\ call.part \in Parts
            BY <2>2, SendFacts
        <3>2. plan' = [plan EXCEPT ![m][call.part] = c]
            BY <2>2 DEF SetPart
        <3>3. /\ plan[m][call.part] = "dispatching"
              /\ c = "prepared" => copies[Message(m)][call.part] = 0
            BY <2>2, <3>1 DEF IInv, CallFits, Row
        <3>4. \A q \in Reconciled :
                 /\ db'.state[Warning(q)] = db.state[Warning(q)]
                 /\ db'.state[Message(q)] = "absent" => db.state[Message(q)] = "absent"
            <4> SUFFICES ASSUME NEW q \in Reconciled
                         PROVE  /\ db'.state[Warning(q)] = db.state[Warning(q)]
                                /\ db'.state[Message(q)] = "absent" => db.state[Message(q)] = "absent"
                OBVIOUS
            <4>1. q \in Messages
                BY MessagesAssumption DEF MessagesAssumption
            <4>2. /\ Message(q) \in Rows /\ Warning(q) \in Rows
                  /\ ~IsMessage(Warning(q)) /\ Reconciles(Warning(q))
                BY <4>1, RowFacts DEF Reconciles
            <4> QED BY <1>1, <4>2 DEF Moves, Move
        <3>5. c \in PartStates \ {"none"} /\ c # "succeeded"
            BY DEF PartStates
        <3>6. UNCHANGED copies /\ UNCHANGED account
            OBVIOUS
        <3> HIDE DEF m
        <3> QED BY <3>1, <3>2, <3>3, <3>4, <3>5, <3>6, PlanStep
    <2> QED BY <2>1, <2>2
<1>4. call' = NoCall /\ CallFits' /\ call' \in Calls
    BY NoCallKeeps, NoCallFits DEF Leave
<1>5. process = "up"
    BY Running
<1>6. TypeOK' /\ Quiet'
    BY <1>1, <1>2, <1>3, <1>4, <1>5 DEF IInv, TypeOK, Quiet, Good
<1> QED BY <1>1, <1>2, <1>3, <1>4, <1>6 DEF IInv

LEMMA AnswerRejectedKeeps == ASSUME IInv, AnswerRejected PROVE IInv' /\ Lasting
<1>1. /\ call.stage \in {"sent", "closing"} /\ Leave(Warned(Fail(db, Row))) /\ AnnounceWarned
      /\ plan' = IF Reconciles(Row) THEN SetPart(Row[1], call.part, "prepared") ELSE plan
      /\ UNCHANGED <<account, process, copies>>
    BY DEF AnswerRejected, Sending
<1>2. used' \in [errors : 0..MaxErrors, crashes : 0..MaxCrashes]
    BY ErrorBound DEF AnswerRejected, IInv, TypeOK
<1>3. Good(Fail(db, Row)) /\ Fail(db, Row).state = [db.state EXCEPT ![Row] = "failed"]
    BY <1>1, SendFacts, EndGood DEF Settled
<1> QED BY <1>1, <1>2, <1>3, ErrorKeeps

LEMMA AnswerLostKeeps == ASSUME IInv, AnswerLost PROVE IInv' /\ Lasting
<1>1. /\ call.stage \in {"sent", "accepted"} /\ Leave(Warned(MarkUncertain(db, Row))) /\ AnnounceWarned
      /\ plan' = IF Reconciles(Row) THEN SetPart(Row[1], call.part, "uncertain") ELSE plan
      /\ UNCHANGED <<account, process, copies>>
    BY DEF AnswerLost, Sending
<1>2. used' \in [errors : 0..MaxErrors, crashes : 0..MaxCrashes]
    BY ErrorBound DEF AnswerLost, IInv
<1>3. /\ Good(MarkUncertain(db, Row))
      /\ MarkUncertain(db, Row).state = [db.state EXCEPT ![Row] = "uncertain"]
    BY <1>1, SendFacts, SetStateGood DEF MarkUncertain, States
<1> QED BY <1>1, <1>2, <1>3, ErrorKeeps

-----------------------------------------------------------------------------
(* The process.                                                            *)

LEMMA DownKeeps ==
    ASSUME IInv, Down, UNCHANGED <<plan, account, copies>>, Good(db'), db'.state = db.state,
           used' \in [errors : 0..MaxErrors, crashes : 0..MaxCrashes]
    PROVE  IInv' /\ Lasting
<1>1. /\ process' = "down" /\ worker' = NewWorker /\ announcing' = FALSE /\ call' = NoCall
      /\ NewWorker \in Workers /\ ~NewWorker.subscribed /\ NoCall \in Calls
    BY NewWorkerFits, NoCallFits DEF Down
<1>2. TypeOK' /\ Quiet' /\ NoLostWakeup' /\ CallFits'
    BY <1>1, NoCallKeeps DEF IInv, TypeOK, Quiet, NoLostWakeup, Good
<1>3. PlanFits' /\ OptionalFits' /\ ConfirmedWasAccepted' /\ NoStaleAlert' /\ Lasting
    BY DEF IInv, PlanFits, PartFits, OptionalFits, ConfirmedWasAccepted, NoStaleAlert, Lasting
<1> QED BY <1>2, <1>3 DEF IInv

LEMMA CrashKeeps == ASSUME IInv, Crash PROVE IInv' /\ Lasting
    BY DownKeeps, CrashBound DEF Crash, CanCrash, IInv

LEMMA CrashInGiveUpKeeps == ASSUME IInv, CrashInGiveUp PROVE IInv' /\ Lasting
<1>1. Good(db') /\ db'.state = db.state
    BY AbandonGood DEF CrashInGiveUp, IsOptional, IInv
<1> QED BY <1>1, DownKeeps, CrashBound DEF CrashInGiveUp, CanCrash, IInv

LEMMA ExitKeeps == ASSUME IInv, Exit PROVE IInv' /\ Lasting
<1>1. used' \in [errors : 0..MaxErrors, crashes : 0..MaxCrashes]
    BY DEF Exit, IInv, TypeOK
<1> QED BY <1>1, DownKeeps DEF Exit, IInv

\* Deliveries fail because of a change of account.
LEMMA FailStep ==
    ASSUME IInv, NEW S \in SUBSET Messages, \A m \in S : db.state[Message(m)] # "absent",
           db' = FailMessages(db, S), UNCHANGED copies
    PROVE  /\ Good(db') /\ OptionalFits' /\ ConfirmedWasAccepted' /\ Lasting
           /\ \A m \in S : db'.state[Message(m)] \in Settled
           /\ \A m \in Messages : db'.state[Message(m)] = "absent" <=> db.state[Message(m)] = "absent"
           /\ \A m \in Reconciled : db'.state[Warning(m)] = "absent"
<1>1. /\ Good(db')
      /\ \A r \in Rows : db'.state[r] =
            IF IsMessage(r) /\ r[1] \in S /\ db.state[r] \notin Settled THEN "failed" ELSE db.state[r]
    BY FailMessagesGood DEF IInv
<1>2. OptionalFits' /\ ConfirmedWasAccepted' /\ Lasting
    BY <1>1 DEF IInv, OptionalFits, ConfirmedWasAccepted, Lasting, Settled
<1>3. \A m \in S : db'.state[Message(m)] \in Settled
    BY <1>1, RowFacts DEF Settled
<1>4. \A m \in Messages : db'.state[Message(m)] = "absent" <=> db.state[Message(m)] = "absent"
    BY <1>1, RowFacts
<1>5. \A m \in Reconciled : db'.state[Warning(m)] = "absent"
    BY <1>1, RowFacts, MessagesAssumption DEF MessagesAssumption, IInv, PlanFits
<1> QED BY <1>1, <1>2, <1>3, <1>4, <1>5

\* After a restart no part is in flight.
LEMMA ProbePlanFits ==
    ASSUME IInv, plan' = MarkDispatchingUncertain(plan), UNCHANGED copies,
           account = "retired" => account' = "retired",
           \A m \in Messages : db'.state[Message(m)] = "absent" <=> db.state[Message(m)] = "absent",
           \A m \in Reconciled : db'.state[Warning(m)] = "absent"
    PROVE  PlanFits' /\ plan' \in [Reconciled -> [Parts -> PartStates]]
<1>1. /\ plan' \in [Reconciled -> [Parts -> PartStates]]
      /\ \A m \in Reconciled, i \in Parts :
            plan'[m][i] = IF plan[m][i] = "dispatching" THEN "uncertain" ELSE plan[m][i]
    BY DEF MarkDispatchingUncertain, IInv, TypeOK, PartStates
<1>2. 1 \in Parts /\ Reconciled \subseteq Messages
    BY OutboxAssumption, MessagesAssumption DEF OutboxAssumption, MessagesAssumption, Parts
<1>3. \A m \in Reconciled, i \in Parts : PartFits(m, i)'
    BY <1>1 DEF IInv, PlanFits, PartFits
<1>4. PlanFits'
    BY <1>1, <1>2, <1>3 DEF IInv, PlanFits
<1> QED BY <1>1, <1>4

LEMMA AlertFacts ==
    /\ BegunAlerts \in SUBSET Messages
    /\ \A m \in BegunAlerts : db.state[Message(m)] # "absent"
    /\ \A a \in Alerts : a \in Messages /\ (a \notin BegunAlerts => db.state[Message(a)] = "absent")
    BY OutboxAssumption, MessagesAssumption DEF BegunAlerts, OutboxAssumption, MessagesAssumption

LEMMA InitializeKeeps == ASSUME IInv, Initialize PROVE IInv' /\ Lasting
<1>1. /\ process = "down" /\ process' = "initialized"
      /\ UNCHANGED <<worker, announcing, call, copies, used>>
    BY DEF Initialize
<1>2. worker = NewWorker /\ call = NoCall /\ ~worker.subscribed
    BY <1>1, NewWorkerFits DEF IInv, Quiet
<1>3. CallFits' /\ Quiet' /\ NoLostWakeup'
    BY <1>1, <1>2, NoCallKeeps DEF Quiet, NoLostWakeup
<1>4. ASSUME Good(db'), plan' \in [Reconciled -> [Parts -> PartStates]],
             account' \in {"active", "unwarned", "warned", "retired"}
      PROVE  TypeOK'
    BY <1>1, <1>4 DEF IInv, TypeOK, Good
<1>5. CASE ProbeAnswered
    <2>1. /\ Good(db') /\ OptionalFits' /\ ConfirmedWasAccepted' /\ Lasting
          /\ \A m \in BegunAlerts : db'.state[Message(m)] \in Settled
          /\ \A m \in Messages : db'.state[Message(m)] = "absent" <=> db.state[Message(m)] = "absent"
          /\ \A m \in Reconciled : db'.state[Warning(m)] = "absent"
        BY <1>1, <1>5, FailStep, AlertFacts DEF ProbeAnswered
    <2>2. PlanFits' /\ plan' \in [Reconciled -> [Parts -> PartStates]]
        BY <1>1, <1>5, <2>1, ProbePlanFits DEF ProbeAnswered
    <2>3. NoStaleAlert'
        BY <2>1, AlertFacts DEF NoStaleAlert
    <2> QED BY <1>3, <1>4, <1>5, <2>1, <2>2, <2>3 DEF ProbeAnswered, IInv
<1>6. CASE ProbeDenied
    <2>1. /\ db' = db /\ account # "retired" /\ account' \in {"unwarned", "warned"}
          /\ account = "warned" => account' = "warned"
        BY <1>6 DEF ProbeDenied, IInv, TypeOK
    <2>2. PlanFits' /\ plan' \in [Reconciled -> [Parts -> PartStates]]
        BY <1>1, <1>6, <2>1, ProbePlanFits DEF ProbeDenied, IInv, PlanFits
    <2>3. OptionalFits' /\ ConfirmedWasAccepted' /\ NoStaleAlert' /\ Lasting
        BY <1>1, <2>1 DEF IInv, OptionalFits, ConfirmedWasAccepted, NoStaleAlert, Lasting
    <2> QED BY <1>3, <1>4, <2>1, <2>2, <2>3 DEF IInv
<1>7. CASE NewGeneration
    <2> DEFINE S == {m \in Reconciled : Planned(m)} \cup BegunAlerts
    <2>1. /\ account' = "retired" /\ db' = FailMessages(db, S)
          /\ plan' = [m \in Reconciled |-> [i \in Parts |-> "none"]]
        BY <1>7 DEF NewGeneration
    <2>2. S \in SUBSET Messages /\ BegunAlerts \subseteq S
        BY AlertFacts, MessagesAssumption DEF MessagesAssumption
    <2>3. \A m \in S : db.state[Message(m)] # "absent"
        BY AlertFacts DEF IInv, PlanFits, Planned
    <2> HIDE DEF S
    <2>4. /\ Good(db') /\ OptionalFits' /\ ConfirmedWasAccepted' /\ Lasting
          /\ \A m \in S : db'.state[Message(m)] \in Settled
          /\ \A m \in Messages : db'.state[Message(m)] = "absent" <=> db.state[Message(m)] = "absent"
          /\ \A m \in Reconciled : db'.state[Warning(m)] = "absent"
        BY <1>1, <2>1, <2>2, <2>3, FailStep
    <2>5. plan' \in [Reconciled -> [Parts -> PartStates]]
        BY <2>1 DEF PartStates
    <2>6. 1 \in Parts
        BY OutboxAssumption DEF OutboxAssumption, Parts
    <2>7. \A m \in Reconciled, i \in Parts : PartFits(m, i)'
        BY <1>1, <2>1 DEF IInv, PlanFits, PartFits
    <2>8. PlanFits'
        BY <2>1, <2>4, <2>6, <2>7 DEF PlanFits
    <2>9. NoStaleAlert'
        BY <2>2, <2>4, AlertFacts DEF NoStaleAlert
    <2> QED BY <1>3, <1>4, <2>1, <2>4, <2>5, <2>8, <2>9 DEF IInv
<1>8. CASE UNCHANGED <<account, db, plan>>
    <2>1. PlanFits' /\ OptionalFits' /\ ConfirmedWasAccepted' /\ NoStaleAlert' /\ Lasting
        BY <1>1, <1>8 DEF IInv, PlanFits, PartFits, OptionalFits, ConfirmedWasAccepted, NoStaleAlert,
                          Lasting
    <2> QED BY <1>3, <1>4, <1>8, <2>1 DEF IInv, TypeOK
<1> QED BY <1>5, <1>6, <1>7, <1>8 DEF Initialize

LEMMA ReconcileUnwarnedKeeps == ASSUME IInv, ReconcileUnwarned PROVE IInv' /\ Lasting
<1>1. /\ process = "initialized" /\ process' = "routed"
      /\ UNCHANGED <<plan, worker, call, copies, used>>
    BY DEF ReconcileUnwarned
<1>2. worker = NewWorker /\ call = NoCall /\ ~worker.subscribed
    BY <1>1, NewWorkerFits DEF IInv, Quiet
<1>3. CallFits' /\ Quiet' /\ NoLostWakeup'
    BY <1>1, <1>2, NoCallKeeps DEF Quiet, NoLostWakeup
<1>4. CASE account = "unwarned" /\ ReportIncident
    <2>1. /\ Good(db') /\ account' = "warned" /\ announcing' = TRUE
          /\ PlanFits' /\ OptionalFits' /\ ConfirmedWasAccepted' /\ NoStaleAlert' /\ Lasting
        BY <1>1, <1>4, ReportKeeps
    <2> QED BY <1>1, <1>3, <2>1 DEF IInv, TypeOK, Good
<1>5. CASE UNCHANGED <<account, db, announcing>>
    <2>1. PlanFits' /\ OptionalFits' /\ ConfirmedWasAccepted' /\ NoStaleAlert' /\ Lasting
        BY <1>1, <1>5 DEF IInv, PlanFits, PartFits, OptionalFits, ConfirmedWasAccepted, NoStaleAlert,
                          Lasting
    <2> QED BY <1>1, <1>3, <1>5, <2>1 DEF IInv, TypeOK
<1> QED BY <1>4, <1>5 DEF ReconcileUnwarned

LEMMA RecoverKeeps == ASSUME IInv, Recover PROVE IInv' /\ Lasting
<1>1. /\ process = "routed" /\ process' = "recovered" /\ db' = RecoverAfterCrash(db)
      /\ UNCHANGED <<plan, account, worker, announcing, call, copies, used>>
    BY DEF Recover
<1>2. worker = NewWorker /\ call = NoCall /\ ~worker.subscribed
    BY <1>1, NewWorkerFits DEF IInv, Quiet
<1>3. /\ Good(db')
      /\ \A r \in Rows : db'.state[r] = IF db.state[r] = "dispatched" THEN "uncertain" ELSE db.state[r]
    BY <1>1, RecoverGood DEF IInv
<1>4. ASSUME NEW r \in Rows, db.state[r] = "dispatched" PROVE Move(r)
    <2>1. ~(Reconciles(r) /\ ~IsMessage(r))
        BY <1>4, RowFacts DEF IInv, PlanFits, Reconciles
    <2>2. IsMessage(r) /\ r[1] \in Alerts => account = "warned"
        BY <1>4, RowFacts DEF IInv, NoStaleAlert, Settled
    <2> QED BY <1>1, <1>3, <1>4, <2>1, <2>2 DEF Move, Settled
<1>5. Moves
    BY <1>3, <1>4 DEF Moves
<1>6. PlanFits' /\ OptionalFits' /\ ConfirmedWasAccepted' /\ NoStaleAlert' /\ Lasting
    BY <1>1, <1>5, PlanKeeps, OutcomesKeep
<1>7. CallFits' /\ Quiet' /\ NoLostWakeup'
    BY <1>1, <1>2, NoCallKeeps DEF Quiet, NoLostWakeup
<1> QED BY <1>1, <1>3, <1>6, <1>7 DEF IInv, TypeOK, Good

-----------------------------------------------------------------------------
(* The theorems.                                                           *)

LEMMA InitIInv == ASSUME Init PROVE IInv
<1>1. Good(db) /\ db.state = [r \in Rows |-> "absent"] /\ db \in Tables
    <2>1. db = EmptyTable /\ EmptyTable.state = [r \in Rows |-> "absent"]
        BY DEF Init, EmptyTable
    <2> QED BY <2>1, EmptyGood DEF Good
<1>2. TypeOK
    <2>1. used \in [errors : 0..MaxErrors, crashes : 0..MaxCrashes]
        BY OutboxAssumption DEF Init, OutboxAssumption
    <2>2. plan \in [Reconciled -> [Parts -> PartStates]] /\ copies \in [Rows -> [Parts -> Nat]]
        BY DEF Init, PartStates
    <2> QED BY <1>1, <2>1, <2>2, NewWorkerFits, NoCallFits DEF Init, TypeOK
<1>3. Quiet /\ CallFits /\ NoLostWakeup
    BY NewWorkerFits, NoCallFits DEF Init, Quiet, CallFits, NoLostWakeup
<1>4. 1 \in Parts /\ \A m \in Messages : Message(m) \in Rows /\ Warning(m) \in Rows
    BY RowFacts, OutboxAssumption DEF OutboxAssumption, Parts
<1>5. Reconciled \subseteq Messages /\ Alerts \subseteq Messages
    BY MessagesAssumption, OutboxAssumption DEF MessagesAssumption, OutboxAssumption
<1>6. PlanFits
    BY <1>1, <1>4, <1>5 DEF Init, PlanFits, PartFits
<1>7. OptionalFits /\ ConfirmedWasAccepted /\ NoStaleAlert
    BY <1>1, <1>4, <1>5 DEF Init, OptionalFits, ConfirmedWasAccepted, NoStaleAlert
<1> QED BY <1>1, <1>2, <1>3, <1>6, <1>7 DEF IInv

LEMMA NextKeeps == ASSUME IInv, [Next]_vars PROVE IInv' /\ Lasting
<1>1. CASE UNCHANGED vars
    BY <1>1 DEF vars, IInv, TypeOK, Quiet, CallFits, PlanFits, PartFits, OptionalFits,
                ConfirmedWasAccepted, NoLostWakeup, NoStaleAlert, Lasting, Row
<1>2. ASSUME NEW m \in Messages, PrepareMessage(m) PROVE IInv' /\ Lasting
    BY <1>2, PrepareMessageKeeps
<1>3. CASE WorkerNext
    BY <1>3, AnnounceReadyKeeps, RetryTimerKeeps, FinishPassKeeps, ProcessOneKeeps, BeginPartKeeps,
       FinishPlanKeeps, RetryUploadKeeps DEF WorkerNext
<1>4. CASE ProviderNext
    BY <1>4, AcceptKeeps, AnswerOkKeeps, AnswerRefusedKeeps, AnswerUnauthorizedKeeps,
       AnswerRejectedKeeps, AnswerLostKeeps DEF ProviderNext
<1>5. CASE ProcessNext
    BY <1>5, InitializeKeeps, ReconcileUnwarnedKeeps, RecoverKeeps, StartWorkerKeeps, StopKeeps,
       ExitKeeps, CrashKeeps, CrashInGiveUpKeeps, LoseAuthorizationKeeps DEF ProcessNext
<1> QED BY <1>1, <1>2, <1>3, <1>4, <1>5 DEF Next

\* The inductive invariant holds in every reachable state of the outbox.
THEOREM Inductive == Spec => []IInv
<1>1. Init => IInv
    BY InitIInv
<1>2. IInv /\ [Next]_vars => IInv'
    BY NextKeeps
<1> QED BY <1>1, <1>2, PTL DEF Spec

\* Every variable of the outbox keeps its type (delivery-worker.ts, delivery-store.ts).
THEOREM OutboxTyping == Spec => []TypeOK
<1>1. IInv => TypeOK
    BY DEF IInv
<1> QED BY <1>1, Inductive, PTL

\* A part of a WeChat delivery is accepted at most once, for every number of
\* messages, parts, errors and crashes (begin, succeed and reconcile of
\* outbound-store.ts).
THEOREM NoPartTwice == Spec => []PartsSentOnce
<1>1. IInv => PartsSentOnce
    BY DEF IInv, PlanFits, PartFits, PartsSentOnce
<1> QED BY <1>1, Inductive, PTL

\* What the outbox records as confirmed reached the chat (processOne of
\* delivery-worker.ts, reconcile of outbound-store.ts).
THEOREM ConfirmedIsTrue == Spec => []ConfirmedWasAccepted
<1>1. IInv => ConfirmedWasAccepted
    BY DEF IInv
<1> QED BY <1>1, Inductive, PTL

\* An optional delivery that nothing can reconcile reaches the chat at most
\* once (delivery-worker.ts:53-57).
THEOREM NoOptionalTwice == Spec => []OptionalNotRepeated
<1>1. IInv => OptionalNotRepeated
    BY DEF IInv, OptionalFits, OptionalNotRepeated, IsOptional
<1> QED BY <1>1, Inductive, PTL

\* The reference count of the attachment counts the deliveries that hold it
\* (prepareAttachment and releaseAttachmentOnce of delivery-store.ts).
THEOREM RefsCountHolders == Spec => []RefsBalance
<1>1. IInv => RefsBalance
    BY DEF IInv, Good, Holders, RefsBalance
<1> QED BY <1>1, Inductive, PTL

\* A delivery that may still be sent holds its file (delivery-worker.ts:160).
THEOREM FileIsThere == Spec => []FileHeld
<1>1. IInv => FileHeld
    BY DEF IInv, Good, Over, FileHeld, MaySendAgain, MayDispatch, Settled, IsOptional, Tables
<1> QED BY <1>1, Inductive, PTL

\* A ready row is never left without a wake-up (delivery-worker.ts:93-121).
THEOREM NoWakeupLost == Spec => []NoLostWakeup
<1>1. IInv => NoLostWakeup
    BY DEF IInv
<1> QED BY <1>1, Inductive, PTL

\* An authorization warning does not outlive its incident (activate of
\* account-store.ts, reconcileUnwarned of incident-router.ts).
THEOREM NoAlertOutlives == Spec => []NoStaleAlert
<1>1. IInv => NoStaleAlert
    BY DEF IInv
<1> QED BY <1>1, Inductive, PTL

\* A confirmed or failed delivery stays so (confirm and failInTransaction of
\* delivery-store.ts).
THEOREM SettledStays == Spec => SettledIsFinal
<1>1. IInv /\ [Next]_vars => [\A r \in Rows : db.state[r] \in Settled => db'.state[r] = db.state[r]]_vars
    BY NextKeeps DEF Lasting
<1> QED BY <1>1, Inductive, PTL DEF Spec, SettledIsFinal

-----------------------------------------------------------------------------
(* The order of sends.                                                     *)
(*                                                                         *)
(* A row that is prepared and comes before one that the pass has still to  *)
(* reach is still to be reached itself; a warning that goes first is no    *)
(* message.                                                                *)
OrderFits(d) ==
    /\ \A r \in Rows : d.state[r] # "absent" <=> \E i \in DOMAIN d.order : d.order[i] = r
    /\ \A i, j \in DOMAIN d.order : d.order[i] = d.order[j] => i = j

PassFits(w, d) ==
    /\ ~IsMessage(w.ahead)
    /\ \A r \in w.todo : d.state[r] # "absent"
    /\ \A q \in Rows, r \in w.todo :
         ~Reconciles(q) /\ d.state[q] = "prepared" /\ Before(d, q, r) => q \in w.todo

OrderInv == OrderFits(db) /\ PassFits(worker, db)

\* A row changes in place, and is not made ready unless it can be reconciled.
Changes(d, e, q) ==
    /\ e.state[q] = "absent" <=> d.state[q] = "absent"
    /\ e.state[q] = "prepared" => d.state[q] = "prepared" \/ Reconciles(q)
    /\ e.state[q] = "dispatched" => d.state[q] = "dispatched"

Steady(d, e) == e.order = d.order /\ \A q \in Rows : Changes(d, e, q)

\* Beside that, a new row may come last.
Grows(d, e) ==
    \/ Steady(d, e)
    \/ \E r \in Rows : /\ d.state[r] = "absent" /\ e.state[r] = "prepared" /\ e.order = Append(d.order, r)
                       /\ \A q \in Rows \ {r} : Changes(d, e, q)

Undispatched == \A r \in Rows : db'.state[r] = "dispatched" => db.state[r] = "dispatched"

LEMMA SteadyOrder ==
    ASSUME NEW d, NEW e, OrderFits(d), e.order = d.order,
           \A q \in Rows : e.state[q] = "absent" <=> d.state[q] = "absent"
    PROVE  OrderFits(e)
    BY DEF OrderFits

LEMMA AppendedOrder ==
    ASSUME NEW d \in Tables, NEW e, NEW x \in Rows, OrderFits(d), d.state[x] = "absent", e.order = Append(d.order, x),
           \A q \in Rows : e.state[q] = "absent" <=> d.state[q] = "absent" /\ q # x
    PROVE  /\ OrderFits(e)
           /\ \A q, r \in Rows : Before(e, q, r) /\ d.state[r] # "absent" => Before(d, q, r)
<1> DEFINE n == Len(d.order)
           f == d.order
           g == e.order
<1>1. /\ f \in Seq(Rows) /\ n \in Nat /\ DOMAIN f = 1..n /\ DOMAIN g = 1..(n + 1)
      /\ g[n + 1] = x /\ \A i \in 1..n : g[i] = f[i]
    BY DEF Tables
<1>2. \A r \in Rows : d.state[r] # "absent" <=> \E i \in 1..n : f[i] = r
    BY <1>1 DEF OrderFits
<1>3. \A i, j \in 1..n : f[i] = f[j] => i = j
    BY <1>1 DEF OrderFits
<1> HIDE DEF n, f, g
<1>4. \A i \in 1..(n + 1) : i \in 1..n \/ i = n + 1
    BY <1>1
<1>5. 1..n \subseteq 1..(n + 1) /\ n + 1 \in 1..(n + 1)
    BY <1>1
<1>6. \A i \in 1..n : f[i] \in Rows /\ f[i] # x
    BY <1>1, <1>2
<1>7. \A r \in Rows : e.state[r] # "absent" <=> \E i \in 1..(n + 1) : g[i] = r
    BY <1>1, <1>2, <1>4, <1>5
<1>8. \A i, j \in 1..(n + 1) : g[i] = g[j] => i = j
    BY <1>1, <1>3, <1>4, <1>6
<1>9. OrderFits(e)
    BY <1>1, <1>7, <1>8 DEF OrderFits, g
<1>10. ASSUME NEW q \in Rows, NEW r \in Rows, Before(e, q, r), d.state[r] # "absent" PROVE Before(d, q, r)
    <2>1. PICK i, j \in 1..(n + 1) : i < j /\ g[i] = q /\ g[j] = r
        BY <1>1, <1>10 DEF Before, g
    <2>2. j \in 1..n
        BY <1>1, <1>4, <1>10, <2>1
    <2>3. i \in 1..n
        BY <1>1, <2>1, <2>2
    <2>4. f[i] = q /\ f[j] = r
        BY <1>1, <2>1, <2>2, <2>3
    <2> QED BY <1>1, <2>1, <2>2, <2>3, <2>4 DEF Before, f
<1> QED BY <1>9, <1>10

\* What the pass leaves behind is not prepared any more, or can be reconciled.
LEMMA PassGoesOn ==
    ASSUME NEW d \in Tables, NEW e, NEW w \in Workers, NEW v, OrderFits(d), PassFits(w, d), Grows(d, e),
           ~IsMessage(v.ahead), v.todo \subseteq w.todo,
           \A q \in w.todo \ v.todo : e.state[q] # "prepared" \/ Reconciles(q)
    PROVE  OrderFits(e) /\ PassFits(v, e)
<1>1. w.todo \subseteq Rows
    BY DEF Workers
<1>2. CASE Steady(d, e)
    <2>1. OrderFits(e)
        BY <1>2, SteadyOrder DEF Steady, Changes
    <2>2. \A q, r : Before(e, q, r) => Before(d, q, r)
        BY <1>2 DEF Steady, Before
    <2>3. \A q \in Rows : Changes(d, e, q)
        BY <1>2 DEF Steady
    <2> QED BY <1>1, <2>1, <2>2, <2>3 DEF PassFits, Changes
<1>3. ASSUME NEW x \in Rows, d.state[x] = "absent", e.state[x] = "prepared", e.order = Append(d.order, x),
             \A q \in Rows \ {x} : Changes(d, e, q)
      PROVE  OrderFits(e) /\ PassFits(v, e)
    <2>1. \A q \in Rows : e.state[q] = "absent" <=> d.state[q] = "absent" /\ q # x
        BY <1>3 DEF Changes
    <2>2. /\ OrderFits(e)
          /\ \A q, r \in Rows : Before(e, q, r) /\ d.state[r] # "absent" => Before(d, q, r)
        BY <1>3, <2>1, AppendedOrder
    <2>3. ASSUME NEW q \in Rows, NEW r \in v.todo, ~Reconciles(q), e.state[q] = "prepared", Before(e, q, r)
          PROVE  q \in v.todo
        <3>1. r \in w.todo /\ r \in Rows /\ d.state[r] # "absent"
            BY <1>1, <2>3 DEF PassFits
        <3>2. Before(d, q, r)
            BY <2>2, <2>3, <3>1
        <3>3. d.state[q] # "absent"
            BY <3>2 DEF Before, OrderFits
        <3>4. d.state[q] = "prepared"
            BY <1>3, <2>3, <3>3 DEF Changes
        <3>5. q \in w.todo
            BY <2>3, <3>1, <3>2, <3>4 DEF PassFits
        <3> QED BY <2>3, <3>5
    <2>4. \A r \in v.todo : e.state[r] # "absent"
        BY <1>1, <1>3, <2>1 DEF PassFits
    <2> QED BY <2>2, <2>3, <2>4 DEF PassFits
<1> QED BY <1>2, <1>3 DEF Grows

\* A pass begins with all that is ready, and ends with nothing.
LEMMA PassStarts ==
    ASSUME NEW v, NEW e, v.ahead = NoRow, v.todo = ListReady(e) \/ v.todo = {}
    PROVE  PassFits(v, e)
    BY DEF PassFits, NoRow, IsMessage, ListReady, Ready

LEMMA EndPassStarts ==
    ASSUME NEW w \in Workers, NEW d
    PROVE  PassFits(EndPass(w, d), d)
<1>1. EndPass(w, d).ahead = NoRow /\ (EndPass(w, d).todo = ListReady(d) \/ EndPass(w, d).todo = {})
    BY DEF EndPass, StartPass, Workers
<1> HIDE DEF EndPass
<1> QED BY <1>1, PassStarts

LEMMA WakeOrder ==
    ASSUME NEW w \in Workers, NEW d, PassFits(w, d)
    PROVE  PassFits(Wake(w, d), d)
<1>1. CASE w.phase \in {"drain", "send"}
    <2>1. Wake(w, d).ahead = w.ahead /\ Wake(w, d).todo = w.todo
        BY <1>1 DEF Wake, Workers
    <2> QED BY <2>1 DEF PassFits
<1>2. CASE w.phase \notin {"drain", "send"}
    <2>1. Wake(w, d).ahead = NoRow /\ Wake(w, d).todo = ListReady(d)
        BY <1>2 DEF Wake, StartPass, Workers
    <2> HIDE DEF Wake
    <2> QED BY <2>1, PassStarts
<1> QED BY <1>1, <1>2

-----------------------------------------------------------------------------
(* What the transactions do to the order.                                  *)
LEMMA SetStateSteady ==
    ASSUME NEW d \in Tables, NEW r \in Rows, d.state[r] # "absent",
           NEW s \in {"uncertain", "confirmed", "failed", "prepared"}, s = "prepared" => Reconciles(r)
    PROVE  Steady(d, SetState(d, r, s)) /\ SetState(d, r, s) \in Tables
    BY DEF SetState, Steady, Changes, Tables, States

LEMMA ReleaseSteady ==
    ASSUME NEW d \in Tables, NEW r
    PROVE  /\ ReleaseAttachmentOnce(d, r).order = d.order /\ ReleaseAttachmentOnce(d, r).state = d.state
    BY DEF ReleaseAttachmentOnce, Tables

LEMMA EndSteady ==
    ASSUME NEW d \in Tables, NEW r \in Rows, d.state[r] # "absent"
    PROVE  Steady(d, Confirm(d, r)) /\ Steady(d, Fail(d, r)) /\ Steady(d, MarkUncertain(d, r))
<1>1. ASSUME NEW s \in {"confirmed", "failed"}
      PROVE  Steady(d, ReleaseAttachmentOnce(SetState(d, r, s), r))
    <2> DEFINE e == SetState(d, r, s)
    <2>1. Steady(d, e) /\ e \in Tables
        BY SetStateSteady
    <2> HIDE DEF e
    <2>2. ReleaseAttachmentOnce(e, r).order = e.order /\ ReleaseAttachmentOnce(e, r).state = e.state
        BY <2>1, ReleaseSteady
    <2> QED BY <2>1, <2>2 DEF Steady, Changes, e
<1>2. Steady(d, d)
    BY DEF Steady, Changes
<1>3. Steady(d, MarkUncertain(d, r))
    BY SetStateSteady DEF MarkUncertain
<1> QED BY <1>1, <1>2, <1>3 DEF Confirm, Fail

LEMMA PrepareGrows ==
    ASSUME NEW d \in Tables, NEW e \in Tables, Steady(d, e), NEW r \in Rows
    PROVE  Grows(d, Prepare(e, r))
<1>1. CASE e.state[r] # "absent"
    BY <1>1 DEF Prepare, Grows
<1>2. CASE e.state[r] = "absent"
    <2> DEFINE p == Prepare(e, r)
    <2>1. p.order = Append(e.order, r) /\ p.state = [e.state EXCEPT ![r] = "prepared"]
        BY <1>2 DEF Prepare, Tables
    <2>2. p.state[r] = "prepared" /\ \A q \in Rows \ {r} : p.state[q] = e.state[q]
        BY <2>1 DEF Tables
    <2> HIDE DEF p
    <2>3. d.state[r] = "absent" /\ p.order = Append(d.order, r) /\ \A q \in Rows \ {r} : Changes(d, p, q)
        BY <1>2, <2>1, <2>2 DEF Steady, Changes
    <2> QED BY <2>2, <2>3 DEF Grows, p
<1> QED BY <1>1, <1>2

LEMMA AbandonSteady ==
    ASSUME NEW d \in Tables, NEW e, e \in Tables, Steady(d, e), NEW r
    PROVE  Steady(d, AbandonUncertain(e, r))
    BY ReleaseSteady DEF AbandonUncertain, Steady, Changes

LEMMA ManySteady ==
    ASSUME NEW d \in Tables, NEW S \in SUBSET Messages, \A m \in S : d.state[Message(m)] # "absent"
    PROVE  Steady(d, FailMessages(d, S)) /\ Steady(d, RecoverAfterCrash(d))
<1>1. Steady(d, RecoverAfterCrash(d))
    BY DEF Steady, Changes, RecoverAfterCrash, Tables
<1>2. /\ FailMessages(d, S).order = d.order
      /\ \A r \in Rows : FailMessages(d, S).state[r] = d.state[r] \/ (FailMessages(d, S).state[r] = "failed" /\ d.state[r] # "absent")
    <2>1. \A r \in Rows : IsMessage(r) => r = Message(r[1])
        BY DEF Rows, IsMessage, Message
    <2> QED BY <2>1 DEF FailMessages, Tables
<1> QED BY <1>1, <1>2 DEF Steady, Changes

-----------------------------------------------------------------------------
(* The order over the steps.                                               *)

LEMMA StepGoesOn ==
    ASSUME IInv, OrderInv, Grows(db, db'), ~IsMessage(worker'.ahead), worker'.todo \subseteq worker.todo,
           \A q \in worker.todo \ worker'.todo : db'.state[q] # "prepared" \/ Reconciles(q)
    PROVE  OrderInv' /\ Undispatched
<1>1. db \in Tables /\ worker \in Workers
    BY DEF IInv, TypeOK
<1> DEFINE e == db'
           v == worker'
<1>2. /\ Grows(db, e) /\ ~IsMessage(v.ahead) /\ v.todo \subseteq worker.todo
      /\ \A q \in worker.todo \ v.todo : e.state[q] # "prepared" \/ Reconciles(q)
    OBVIOUS
<1>3. Undispatched
    BY DEF Undispatched, Grows, Steady, Changes
<1> HIDE DEF e, v
<1>4. OrderFits(db) /\ PassFits(worker, db)
    BY DEF OrderInv
<1>5. OrderFits(e) /\ PassFits(v, e)
    BY <1>1, <1>2, <1>4, PassGoesOn
<1> QED BY <1>3, <1>5 DEF OrderInv, e, v

\* The worker's pass is where it was.
LEMMA PassStays ==
    ASSUME IInv, OrderInv, Grows(db, db'), worker'.ahead = worker.ahead, worker'.todo = worker.todo
    PROVE  OrderInv' /\ Undispatched
    BY StepGoesOn DEF OrderInv, PassFits

\* The worker's pass ends, or it begins a new one.
LEMMA PassRestarts ==
    ASSUME IInv, OrderInv, Grows(db, db'), PassFits(worker', db')
    PROVE  OrderInv' /\ Undispatched
<1>1. db \in Tables /\ worker \in Workers
    BY DEF IInv, TypeOK
<1> DEFINE e == db'
<1>2. Grows(db, e)
    OBVIOUS
<1>3. Undispatched
    BY DEF Undispatched, Grows, Steady, Changes
<1> HIDE DEF e
<1>4. OrderFits(db) /\ PassFits(worker, db) /\ ~IsMessage(worker.ahead)
    BY DEF OrderInv, PassFits
<1>5. OrderFits(e)
    BY <1>1, <1>2, <1>4, PassGoesOn
<1> QED BY <1>3, <1>5 DEF OrderInv, e

LEMMA SameTable == ASSUME UNCHANGED db PROVE Grows(db, db')
    BY DEF Grows, Steady, Changes

\* A step that leaves the pass and the table alone.
LEMMA OrderStays ==
    ASSUME OrderInv, UNCHANGED <<db, worker>>
    PROVE  OrderInv' /\ Undispatched
    BY DEF OrderInv, OrderFits, PassFits, Before, Undispatched

LEMMA ContinueOrder ==
    ASSUME NEW w \in Workers, NEW r
    PROVE  /\ Continue(w, r).ahead = NoRow /\ Continue(w, r).todo \subseteq w.todo
           /\ w.todo \ Continue(w, r).todo \subseteq {r}
    BY DEF Continue, Workers

LEMMA NoRowOrder == ~IsMessage(NoRow)
    BY DEF IsMessage, NoRow

LEMMA WakeUpOrder ==
    ASSUME IInv, OrderInv, AnnounceReady \/ RetryTimer \/ FinishPass \/ StartWorker
    PROVE  OrderInv' /\ Undispatched
<1>1. worker \in Workers /\ PassFits(worker, db) /\ UNCHANGED db
    BY DEF IInv, TypeOK, OrderInv, AnnounceReady, RetryTimer, FinishPass, StartWorker
<1>2. PassFits(worker', db)
    <2>1. CASE AnnounceReady
        BY <1>1, <2>1, WakeOrder DEF AnnounceReady
    <2>2. CASE RetryTimer
        <3> DEFINE w == [worker EXCEPT !.timer = FALSE]
        <3>1. w \in Workers /\ PassFits(w, db) /\ worker' = Wake(w, db)
            BY <1>1, <2>2 DEF Workers, PassFits, RetryTimer
        <3> HIDE DEF w
        <3> QED BY <3>1, WakeOrder
    <2>3. CASE FinishPass
        BY <1>1, <2>3, EndPassStarts DEF FinishPass
    <2>4. CASE StartWorker
        <3> DEFINE w == [worker EXCEPT !.subscribed = TRUE]
        <3>1. w \in Workers /\ PassFits(w, db) /\ worker' = Wake(w, db)
            BY <1>1, <2>4 DEF Workers, PassFits, StartWorker
        <3> HIDE DEF w
        <3> QED BY <3>1, WakeOrder
    <2> QED BY <2>1, <2>2, <2>3, <2>4
<1>3. PassFits(worker', db')
    BY <1>1, <1>2
<1> QED BY <1>1, <1>3, SameTable, PassRestarts

LEMMA PrepareMessageOrder ==
    ASSUME IInv, OrderInv, NEW m \in Messages, PrepareMessage(m)
    PROVE  OrderInv' /\ Undispatched
<1>1. db \in Tables /\ Message(m) \in Rows /\ Steady(db, db)
    BY RowFacts DEF IInv, TypeOK, Steady, Changes
<1>2. Grows(db, db') /\ UNCHANGED worker
    BY <1>1, PrepareGrows DEF PrepareMessage
<1> QED BY <1>2, PassStays

LEMMA SkipOrder ==
    ASSUME IInv, OrderInv, NEW r \in Rows, Skip(r)
    PROVE  OrderInv' /\ Undispatched
<1>1. /\ worker \in Workers /\ UNCHANGED db /\ worker' = Continue(worker, r) /\ db.state[r] # "prepared"
    BY DEF IInv, TypeOK, Skip, Ready
<1>2. /\ worker'.ahead = NoRow /\ worker'.todo \subseteq worker.todo
      /\ worker.todo \ worker'.todo \subseteq {r}
    BY <1>1, ContinueOrder
<1> QED BY <1>1, <1>2, SameTable, NoRowOrder, StepGoesOn

LEMMA ReconcileOrder ==
    ASSUME IInv, OrderInv, NEW r \in Rows, Reconcile(r)
    PROVE  OrderInv' /\ Undispatched
<1>1. /\ db \in Tables /\ worker \in Workers /\ worker' = Continue(worker, r)
      /\ db.state[r] = "uncertain" /\ Reconciles(r)
    BY DEF IInv, TypeOK, Reconcile
<1>2. /\ worker'.ahead = NoRow /\ worker'.todo \subseteq worker.todo
      /\ worker.todo \ worker'.todo \subseteq {r}
    BY <1>1, ContinueOrder
<1>3. db' = Confirm(db, r) \/ db' = ResumeUncertain(db, r) \/ db' = db
    BY DEF Reconcile, Resolution
<1>4. Steady(db, ResumeUncertain(db, r)) /\ Steady(db, Confirm(db, r)) /\ Steady(db, db)
    BY <1>1, SetStateSteady, EndSteady DEF ResumeUncertain, Steady, Changes
<1>5. Grows(db, db')
    BY <1>3, <1>4 DEF Grows
<1> QED BY <1>1, <1>2, <1>5, NoRowOrder, StepGoesOn

LEMMA GiveUpOrder ==
    ASSUME IInv, OrderInv, NEW r \in Rows, GiveUp(r)
    PROVE  OrderInv' /\ Undispatched
<1> DEFINE e == AbandonUncertain(db, r)
<1>1. /\ db \in Tables /\ worker \in Workers /\ Good(db) /\ db.state[r] = "uncertain" /\ IsOptional(r)
      /\ db' = Prepare(e, Warning(r[1])) /\ worker' = ContinueWithWarning(worker, db', r)
    BY DEF IInv, TypeOK, GiveUp, IsOptional
<1>2. Warning(r[1]) \in Rows /\ ~IsMessage(Warning(r[1])) /\ Warning(r[1]) # r
    BY <1>1, RowFacts DEF IsOptional, IsMandatory
<1>3. /\ worker'.ahead \in {NoRow, Warning(r[1])} /\ worker'.todo \subseteq worker.todo
      /\ worker.todo \ worker'.todo \subseteq {r}
    <2> DEFINE c == Continue(worker, r)
    <2>1. /\ c.todo \subseteq worker.todo /\ worker.todo \ c.todo \subseteq {r}
        BY <1>1, ContinueOrder
    <2>2. c \in Workers
        BY <1>1, ContinueFits
    <2>3. worker' = [c EXCEPT !.ahead = IF db'.state[Warning(r[1])] = "prepared" THEN Warning(r[1]) ELSE NoRow]
        BY <1>1 DEF ContinueWithWarning
    <2> HIDE DEF c
    <2> QED BY <2>1, <2>2, <2>3 DEF Workers
<1>4. Good(e) /\ e.state = db.state
    BY <1>1, AbandonGood, ReleaseSteady DEF AbandonUncertain
<1>5. Steady(db, db) /\ e \in Tables
    BY <1>4 DEF Steady, Changes, Good
<1>6. Steady(db, e)
    BY <1>1, <1>5, AbandonSteady
<1>7. db'.state[r] = "uncertain"
    BY <1>1, <1>2, <1>4, <1>5 DEF Prepare, Tables
<1> HIDE DEF e
<1>8. Grows(db, db')
    BY <1>1, <1>2, <1>5, <1>6, PrepareGrows
<1> QED BY <1>2, <1>3, <1>7, <1>8, NoRowOrder, StepGoesOn

\* Only the next row of the pass is sent, and the rows before it in the pass
\* are gone.
LEMMA DispatchOrder ==
    ASSUME IInv, OrderInv, NEW x \in Rows, IsNext(worker, db, x), Dispatch(x)
    PROVE  OrderInv' /\ \A q, r \in Rows : ~Reconciles(q) => ~Overtakes(r, q)
<1>1. /\ db \in Tables /\ worker \in Workers /\ db.state[x] \in Ready
      /\ db' = SetState(db, x, "dispatched")
      /\ worker'.todo = worker.todo /\ worker'.ahead = worker.ahead
    BY DEF IInv, TypeOK, Dispatch, MarkDispatched, MayDispatch, Ready, Workers
<1>2. /\ db'.order = db.order /\ db'.state = [db.state EXCEPT ![x] = "dispatched"]
      /\ db'.state[x] = "dispatched" /\ \A q \in Rows \ {x} : db'.state[q] = db.state[q]
    BY <1>1 DEF SetState, Tables
<1>3. OrderFits(db) /\ PassFits(worker, db)
    BY DEF OrderInv
<1>4. OrderInv'
    <2>1. \A q \in Rows : db'.state[q] = "absent" <=> db.state[q] = "absent"
        BY <1>1, <1>2 DEF Ready
    <2>2. OrderFits(db')
        BY <1>2, <1>3, <2>1 DEF OrderFits
    <2>3. worker.todo \subseteq Rows
        BY <1>1 DEF Workers
    <2>4. \A q \in Rows : db'.state[q] = "prepared" => db.state[q] = "prepared"
        BY <1>2
    <2>5. \A q, r : Before(db', q, r) => Before(db, q, r)
        BY <1>2 DEF Before
    <2>6. PassFits(worker', db')
        BY <1>1, <1>3, <2>1, <2>3, <2>4, <2>5 DEF PassFits
    <2> QED BY <2>2, <2>6 DEF OrderInv
<1>5. SUFFICES ASSUME NEW q \in Rows, NEW r \in Rows, ~Reconciles(q), Overtakes(r, q) PROVE FALSE
    BY <1>4
<1>6. r = x /\ IsMessage(x) /\ Before(db, q, x) /\ db.state[q] = "prepared"
    BY <1>2, <1>5 DEF Overtakes
<1>7. FirstIn(db, worker.todo, x)
    BY <1>3, <1>6 DEF IsNext, PassFits
<1>8. PICK k \in DOMAIN db.order : db.order[k] = x /\ x \in worker.todo /\ \A j \in 1..(k - 1) : db.order[j] \notin worker.todo
    BY <1>7 DEF FirstIn
<1>9. PICK i, j \in DOMAIN db.order : i < j /\ db.order[i] = q /\ db.order[j] = x
    BY <1>6 DEF Before
<1>10. j = k
    BY <1>3, <1>8, <1>9 DEF OrderFits
<1>11. q \notin worker.todo
    <2>1. DOMAIN db.order = 1..Len(db.order) /\ Len(db.order) \in Nat
        BY <1>1 DEF Tables
    <2>2. i \in 1..(k - 1)
        BY <1>9, <1>10, <2>1
    <2> QED BY <1>8, <1>9, <2>2
<1> QED BY <1>3, <1>5, <1>6, <1>8, <1>11 DEF PassFits

LEMMA UndispatchedKeepsOrder ==
    ASSUME Undispatched
    PROVE  \A q, r \in Rows : ~Reconciles(q) => ~Overtakes(r, q)
    BY DEF Undispatched, Overtakes

LEMMA ProcessOneOrder ==
    ASSUME IInv, OrderInv, ProcessOne
    PROVE  OrderInv' /\ \A q, r \in Rows : ~Reconciles(q) => ~Overtakes(r, q)
<1>1. PICK x \in Rows : IsNext(worker, db, x) /\ (Skip(x) \/ Reconcile(x) \/ GiveUp(x) \/ Dispatch(x))
    BY DEF ProcessOne
<1>2. CASE Skip(x) \/ Reconcile(x) \/ GiveUp(x)
    BY <1>2, SkipOrder, ReconcileOrder, GiveUpOrder, UndispatchedKeepsOrder
<1>3. CASE Dispatch(x)
    BY <1>1, <1>3, DispatchOrder
<1> QED BY <1>1, <1>2, <1>3

LEMMA LeaveOrder ==
    ASSUME IInv, OrderInv, NEW d, Grows(db, d), Leave(d)
    PROVE  OrderInv' /\ Undispatched
<1>1. worker \in Workers /\ worker' = EndPass(worker, d) /\ db' = d
    BY DEF IInv, TypeOK, Leave
<1>2. PassFits(worker', db')
    BY <1>1, EndPassStarts
<1> QED BY <1>1, <1>2, PassRestarts

LEMMA DeliveredOrder ==
    ASSUME IInv, OrderInv, call.stage # "none", Delivered(db)
    PROVE  OrderInv' /\ Undispatched
<1>1. /\ db \in Tables /\ worker \in Workers /\ Row \in Rows /\ db.state[Row] = "dispatched"
      /\ db' = Confirm(db, Row) /\ worker' = Continue(worker, Row) /\ Good(db)
    BY SendFacts DEF IInv, TypeOK, Delivered
<1>2. Steady(db, db')
    BY <1>1, EndSteady
<1>3. db'.state[Row] # "prepared"
    <2>1. db.state[Row] \notin Settled \cup {"absent"}
        BY <1>1 DEF Settled
    <2>2. db'.state = [db.state EXCEPT ![Row] = "confirmed"]
        BY <1>1, <2>1, EndGood
    <2> QED BY <1>1, <2>2 DEF Tables
<1>4. /\ worker'.ahead = NoRow /\ worker'.todo \subseteq worker.todo
      /\ worker.todo \ worker'.todo \subseteq {Row}
    BY <1>1, ContinueOrder
<1> QED BY <1>2, <1>3, <1>4, NoRowOrder, StepGoesOn DEF Grows

LEMMA ReleaseTyped ==
    ASSUME NEW d \in Tables, NEW r \in Rows
    PROVE  ReleaseAttachmentOnce(d, r) \in Tables
<1>1. d.refs \in Nat /\ d.released \subseteq Rows
    BY DEF Tables
<1>2. (IF d.refs = 0 THEN 0 ELSE d.refs - 1) \in Nat
    BY <1>1
<1> QED BY <1>1, <1>2 DEF ReleaseAttachmentOnce, Tables

\* A send that fails, for good or perhaps; the warning comes last.
LEMMA WarnedGrows ==
    ASSUME IInv, call.stage # "none", NEW d, d = Fail(db, Row) \/ d = MarkUncertain(db, Row)
    PROVE  Grows(db, Warned(d))
<1>1. /\ db \in Tables /\ Row \in Rows /\ db.state[Row] = "dispatched" /\ Good(db)
      /\ Warning(Row[1]) \in Rows
    BY SendFacts, RowFacts DEF IInv, TypeOK
<1>2. Steady(db, d)
    BY <1>1, EndSteady
<1>3. d \in Tables
    <2>1. Fail(db, Row) \in Tables
        <3> DEFINE e == SetState(db, Row, "failed")
        <3>1. Fail(db, Row) = ReleaseAttachmentOnce(e, Row)
            BY <1>1 DEF Fail, Settled
        <3>2. e \in Tables
            BY <1>1, SetStateSteady
        <3> HIDE DEF e
        <3> QED BY <1>1, <3>1, <3>2, ReleaseTyped
    <2>2. MarkUncertain(db, Row) \in Tables
        BY <1>1, SetStateSteady DEF MarkUncertain
    <2> QED BY <2>1, <2>2
<1>4. Steady(db, AbandonUncertain(d, Row))
    BY <1>1, <1>2, <1>3, AbandonSteady
<1>5. AbandonUncertain(d, Row) \in Tables
    BY <1>1, <1>3, ReleaseTyped DEF AbandonUncertain
<1> DEFINE e == AbandonUncertain(d, Row)
           w == Warning(Row[1])
<1>6. Steady(db, e) /\ e \in Tables /\ w \in Rows
    BY <1>1, <1>4, <1>5
<1>7. Warned(d) = d \/ Warned(d) = Prepare(e, w)
    BY DEF Warned
<1> HIDE DEF e, w
<1>8. Grows(db, Prepare(e, w))
    BY <1>1, <1>6, PrepareGrows
<1> QED BY <1>2, <1>7, <1>8 DEF Grows

LEMMA RefusedOrder ==
    ASSUME IInv, OrderInv, AnswerRefused
    PROVE  OrderInv' /\ Undispatched
<1>1. call.stage # "none"
    BY DEF AnswerRefused, Sending
<1>2. CASE UNCHANGED <<db, worker>>
    BY <1>2, OrderStays
<1>3. CASE Leave(MarkPrepared(db, Row))
    <2>1. /\ db \in Tables /\ worker \in Workers /\ Row \in Rows /\ db.state[Row] = "dispatched"
          /\ worker' = EndPass(worker, db') /\ db' = SetState(db, Row, "prepared")
        BY <1>1, <1>3, SendFacts DEF IInv, TypeOK, Leave, MarkPrepared
    <2>2. db'.order = db.order /\ db'.state = [db.state EXCEPT ![Row] = "prepared"]
        BY <2>1 DEF SetState, Tables
    <2>3. \A q \in Rows : db'.state[q] = "absent" <=> db.state[q] = "absent"
        BY <2>1, <2>2 DEF Tables
    <2>4. OrderFits(db')
        BY <2>2, <2>3 DEF OrderInv, OrderFits
    <2>5. PassFits(worker', db')
        BY <2>1, EndPassStarts
    <2>6. Undispatched
        BY <2>1, <2>2 DEF Undispatched, Tables
    <2> QED BY <2>4, <2>5, <2>6 DEF OrderInv
<1> QED BY <1>2, <1>3 DEF AnswerRefused

LEMMA AnswersOrder ==
    ASSUME IInv, OrderInv, BeginPart \/ FinishPlan \/ RetryUpload \/ Accept \/ AnswerOk \/ AnswerRejected \/ AnswerLost
    PROVE  OrderInv' /\ Undispatched
<1>1. call.stage # "none"
    BY DEF BeginPart, FinishPlan, RetryUpload, Accept, AnswerOk, AnswerRejected, AnswerLost, Sending
<1>2. CASE UNCHANGED <<db, worker>>
    BY <1>2, OrderStays
<1>3. CASE Delivered(db)
    BY <1>1, <1>3, DeliveredOrder
<1>4. CASE Leave(Fail(db, Row))
    <2>1. /\ db \in Tables /\ Row \in Rows /\ db.state[Row] = "dispatched"
        BY <1>1, SendFacts DEF IInv, TypeOK
    <2>2. Grows(db, Fail(db, Row))
        BY <2>1, EndSteady DEF Grows
    <2> QED BY <1>4, <2>2, LeaveOrder
<1>5. ASSUME NEW d, d = Fail(db, Row) \/ d = MarkUncertain(db, Row), Leave(Warned(d))
      PROVE  OrderInv' /\ Undispatched
    <2> DEFINE e == Warned(d)
    <2>1. Grows(db, e) /\ Leave(e)
        BY <1>1, <1>5, WarnedGrows
    <2> HIDE DEF e
    <2> QED BY <2>1, LeaveOrder
<1>6. AnswerRejected => Leave(Warned(Fail(db, Row)))
    BY DEF AnswerRejected
<1>7. AnswerLost => Leave(Warned(MarkUncertain(db, Row)))
    BY DEF AnswerLost
<1>8. BeginPart \/ FinishPlan \/ RetryUpload \/ Accept \/ AnswerOk =>
        UNCHANGED <<db, worker>> \/ Delivered(db) \/ Leave(Fail(db, Row))
    BY DEF BeginPart, FinishPlan, RetryUpload, Accept, AnswerOk
<1> QED BY <1>2, <1>3, <1>4, <1>5, <1>6, <1>7, <1>8

LEMMA CloseOrder ==
    ASSUME IInv, OrderInv, CloseAccount \/ ReportIncident, UNCHANGED worker
    PROVE  OrderInv' /\ Undispatched
<1>1. CASE UNCHANGED db
    BY <1>1, OrderStays
<1>2. CASE ReportIncident
    <2>1. PICK a \in NewAlerts : db' = Prepare(db, Message(a))
        BY <1>2 DEF ReportIncident
    <2>2. db \in Tables /\ Message(a) \in Rows /\ Steady(db, db)
        BY AlertFacts, RowFacts DEF NewAlerts, IInv, TypeOK, Steady, Changes
    <2>3. Grows(db, db')
        BY <2>1, <2>2, PrepareGrows
    <2> QED BY <2>3, PassStays
<1> QED BY <1>1, <1>2 DEF CloseAccount

LEMMA InitializeOrder ==
    ASSUME IInv, OrderInv, Initialize
    PROVE  OrderInv' /\ Undispatched
<1>1. UNCHANGED worker /\ db \in Tables
    BY DEF Initialize, IInv, TypeOK
<1>2. CASE UNCHANGED db
    BY <1>1, <1>2, OrderStays
<1>3. ASSUME NEW S \in SUBSET Messages, \A m \in S : db.state[Message(m)] # "absent", db' = FailMessages(db, S)
      PROVE  OrderInv' /\ Undispatched
    <2>1. Grows(db, db')
        BY <1>1, <1>3, ManySteady DEF Grows
    <2> QED BY <1>1, <2>1, PassStays
<1>4. CASE ProbeAnswered
    BY <1>3, <1>4, AlertFacts DEF ProbeAnswered
<1>5. CASE NewGeneration
    <2> DEFINE S == {m \in Reconciled : Planned(m)} \cup BegunAlerts
    <2>1. db' = FailMessages(db, S)
        BY <1>5 DEF NewGeneration
    <2>2. S \in SUBSET Messages
        BY AlertFacts, MessagesAssumption DEF MessagesAssumption
    <2>3. \A m \in S : db.state[Message(m)] # "absent"
        BY AlertFacts DEF IInv, PlanFits, Planned
    <2> HIDE DEF S
    <2> QED BY <1>3, <2>1, <2>2, <2>3
<1> QED BY <1>2, <1>4, <1>5 DEF Initialize, ProbeDenied

LEMMA DownOrder ==
    ASSUME IInv, OrderInv, worker' = NewWorker, Grows(db, db')
    PROVE  OrderInv' /\ Undispatched
<1>1. worker'.ahead = NoRow /\ worker'.todo = {}
    BY DEF NewWorker
<1>2. PassFits(worker', db')
    BY <1>1, PassStarts
<1> QED BY <1>2, PassRestarts

LEMMA ProcessOrder ==
    ASSUME IInv, OrderInv, ProcessNext \/ AnswerUnauthorized
    PROVE  OrderInv' /\ Undispatched
<1>1. CASE Initialize
    BY <1>1, InitializeOrder
<1>2. CASE ReconcileUnwarned
    BY <1>2, CloseOrder, OrderStays DEF ReconcileUnwarned
<1>3. CASE Recover
    <2>1. db \in Tables /\ db' = RecoverAfterCrash(db) /\ UNCHANGED worker
        BY <1>3 DEF IInv, TypeOK, Recover
    <2>2. {} \in SUBSET Messages /\ \A m \in {} : db.state[Message(m)] # "absent"
        OBVIOUS
    <2>3. Steady(db, RecoverAfterCrash(db))
        BY <2>1, <2>2, ManySteady
    <2> QED BY <2>1, <2>3, PassStays DEF Grows
<1>4. CASE StartWorker
    BY <1>4, WakeUpOrder
<1>5. CASE Stop
    <2>1. worker'.ahead = worker.ahead /\ worker'.todo = worker.todo /\ UNCHANGED db
        BY <1>5 DEF Stop, IInv, TypeOK, Workers
    <2> QED BY <2>1, SameTable, PassStays
<1>6. CASE Exit \/ Crash
    BY <1>6, SameTable, DownOrder DEF Exit, Crash, Down
<1>7. CASE CrashInGiveUp
    <2>1. PICK r \in Rows : db' = AbandonUncertain(db, r)
        BY <1>7 DEF CrashInGiveUp
    <2>2. db \in Tables /\ Steady(db, db)
        BY DEF IInv, TypeOK, Steady, Changes
    <2>3. Grows(db, db')
        BY <2>1, <2>2, AbandonSteady DEF Grows
    <2> QED BY <1>7, <2>3, DownOrder DEF CrashInGiveUp, Down
<1>8. CASE LoseAuthorization \/ AnswerUnauthorized
    BY <1>8, CloseOrder DEF LoseAuthorization, AnswerUnauthorized
<1> QED BY <1>1, <1>2, <1>3, <1>4, <1>5, <1>6, <1>7, <1>8 DEF ProcessNext

LEMMA InitOrder == ASSUME Init PROVE OrderInv
<1>1. db.order = <<>> /\ \A r \in Rows : db.state[r] = "absent"
    BY DEF Init, EmptyTable
<1>2. worker.ahead = NoRow /\ worker.todo = {}
    BY DEF Init, NewWorker
<1>3. OrderFits(db)
    BY <1>1 DEF OrderFits
<1> QED BY <1>2, <1>3, PassStarts DEF OrderInv

LEMMA NextOrder ==
    ASSUME IInv, OrderInv, [Next]_vars
    PROVE  OrderInv' /\ \A q, r \in Rows : ~Reconciles(q) => ~Overtakes(r, q)
<1>1. CASE UNCHANGED vars
    BY <1>1, OrderStays, UndispatchedKeepsOrder DEF vars
<1>2. ASSUME NEW m \in Messages, PrepareMessage(m)
      PROVE  OrderInv' /\ \A q, r \in Rows : ~Reconciles(q) => ~Overtakes(r, q)
    BY <1>2, PrepareMessageOrder, UndispatchedKeepsOrder
<1>3. CASE WorkerNext
    BY <1>3, WakeUpOrder, ProcessOneOrder, AnswersOrder, UndispatchedKeepsOrder DEF WorkerNext
<1>4. CASE ProviderNext
    BY <1>4, AnswersOrder, RefusedOrder, ProcessOrder, UndispatchedKeepsOrder DEF ProviderNext
<1>5. CASE ProcessNext
    BY <1>5, ProcessOrder, UndispatchedKeepsOrder
<1> QED BY <1>1, <1>2, <1>3, <1>4, <1>5 DEF Next

\* Messages leave in the order they were committed, but for those that WeChat
\* has put back (list of delivery-store.ts:172-176, the pass of
\* delivery-worker.ts): for every number of messages, errors and crashes.
THEOREM SendsKeepOrder == Spec => SendsInCommitOrder
<1>1. Init => OrderInv
    BY InitOrder
<1>2. IInv /\ OrderInv /\ [Next]_vars => OrderInv'
    BY NextOrder
<1>3. IInv /\ OrderInv /\ [Next]_vars => [\A q, r \in Rows : ~Reconciles(q) => ~Overtakes(r, q)]_vars
    BY NextOrder
<1> QED BY <1>1, <1>2, <1>3, Inductive, PTL DEF Spec, SendsInCommitOrder
=============================================================================
