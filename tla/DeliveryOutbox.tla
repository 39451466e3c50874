---------------------------- MODULE DeliveryOutbox ----------------------------
(***************************************************************************)
(* The chat outbox at work: DeliveryWorker                                 *)
(* (src/src/chat-apps/shared/delivery-worker.ts) over the table of         *)
(* DeliveryStore, the WeChat adapter with its per-part checkpoints         *)
(* (src/src/chat-apps/weixin/), an adapter without reconciliation for the  *)
(* other messages, the chat provider, and the start, the stop and the      *)
(* crash of the process.                                                   *)
(*                                                                         *)
(* The worker makes one pass over the queue at a time.  An action is what  *)
(* it does between two awaits; a WeChat delivery is cut further, at the    *)
(* transactions that a crash can separate.                                 *)
(***************************************************************************)
EXTENDS DeliveryStore

CONSTANTS
    Alerts,         \* WeChat's authorization warnings, sent over another adapter;
                    \* {}: no other adapter is configured
    NParts,         \* the parts of a WeChat delivery (text chunks, upload, media)
    MaxTries,       \* sendAttachment's attempts at a rate-limited upload (4)
    MaxErrors,      \* bound on calls the provider does not accept or answer
    MaxCrashes      \* bound on crashes and stops

ASSUME OutboxAssumption ==
    /\ Alerts \subseteq Mandatory \ (Reconciled \cup WithFile)
    /\ NParts \in Nat \ {0} /\ MaxTries \in Nat \ {0}
    /\ MaxErrors \in Nat /\ MaxCrashes \in Nat

VARIABLES
    db,         \* the outbox table
    plan,       \* weixin_outbound_steps: a checkpoint for every part
    account,    \* the WeChat account generation the messages are bound to:
                \* closed with or without a warning prepared, or replaced
    process,    \* the process: a phase of its startup
    worker,     \* the worker's volatile fields and the rest of its pass
    announcing, \* DeliveryStore.announcing: a wake-up is scheduled
    call,       \* the send in flight
    copies,     \* how often the provider accepted each part (history)
    used        \* what the run has consumed of its bounds

vars == <<db, plan, account, process, worker, announcing, call, copies, used>>

Parts == 1..NParts
PartStates == {"none", "prepared", "dispatching", "succeeded", "uncertain"}
NoRow == <<"none", "none">>

\* off: not started; idle: not draining.  todo: what the pass listed and has not
\* reached; ahead: a warning that goes first.  subscribed: between start and stop;
\* stopping: stop awaits the pass that was running when it was called.
Workers == [phase : {"off", "idle", "drain", "send"}, todo : SUBSET Rows,
            ahead : Rows \cup {NoRow}, again : BOOLEAN, timer : BOOLEAN,
            subscribed : BOOLEAN, stopping : BOOLEAN]
NewWorker == [phase |-> "off", todo |-> {}, ahead |-> NoRow, again |-> FALSE, timer |-> FALSE,
              subscribed |-> FALSE, stopping |-> FALSE]

\* planning: WeChat, before the next part begins; closing: it refused the account,
\* which is closed; delayed: waiting for Retry-After.
Calls == [row : Rows \cup {NoRow}, part : 0..NParts, tries : 0..MaxTries, labelled : BOOLEAN,
          stage : {"none", "planning", "sent", "accepted", "closing", "delayed"}]
NoCall == [row |-> NoRow, part |-> 0, tries |-> 0, labelled |-> FALSE, stage |-> "none"]

\* Only WeChat rows use more than the first part.
PartsOf(r) == IF Reconciles(r) THEN Parts ELSE {1}

-----------------------------------------------------------------------------
(* WeChat's plan of a delivery: its parts are sent in order, each between *)
(* two checkpoints.                                                        *)

Planned(m) == plan[m][1] # "none"
Undone(p, m) == {i \in Parts : p[m][i] # "succeeded"}
Due(p, m, i) == i \in Undone(p, m) /\ \A j \in Undone(p, m) : i <= j
SetPart(m, i, s) == [plan EXCEPT ![m][i] = s]
NewPlan == [i \in Parts |-> "prepared"]

ResolutionOfPrefix(p) ==                    \* mutant: one sent part confirms them all
    IF \E i \in Parts : p[i] \in {"dispatching", "uncertain"} THEN "unresolved"
    ELSE IF \E i \in Parts : p[i] = "succeeded" THEN "confirmed" ELSE "resume_safe"

\* WeixinOutboundStore.reconcile
Resolution(p) ==
    IF \/ \E i \in Parts : p[i] \in {"dispatching", "uncertain"}
       \/ \E i \in Parts, j \in Parts : i < j /\ p[i] = "prepared" /\ p[j] = "succeeded"
    THEN "unresolved"
    ELSE IF \A i \in Parts : p[i] = "succeeded" THEN "confirmed" ELSE "resume_safe"

ResetDispatching(p) ==                      \* mutant: what was in flight is begun anew
    [m \in Reconciled |-> [i \in Parts |-> IF p[m][i] = "dispatching" THEN "prepared" ELSE p[m][i]]]

\* After a restart nobody waits for the answer of a part in flight.
MarkDispatchingUncertain(p) ==
    [m \in Reconciled |-> [i \in Parts |-> IF p[m][i] = "dispatching" THEN "uncertain" ELSE p[m][i]]]

-----------------------------------------------------------------------------
(* The pass.                                                               *)

StartPass(w, d) ==
    [w EXCEPT !.phase = "drain", !.todo = ListReady(d), !.ahead = NoRow, !.stopping = FALSE]

Wake(w, d) ==
    IF w.phase \in {"drain", "send"} THEN [w EXCEPT !.again = TRUE] ELSE StartPass(w, d)

EndPassUnarmed(w, d) ==                     \* mutant: no retry timer
    IF w.again THEN StartPass([w EXCEPT !.again = FALSE], d)
    ELSE [w EXCEPT !.phase = "idle", !.todo = {}, !.ahead = NoRow, !.stopping = FALSE,
                   !.timer = FALSE]

\* `finally` of wake: another pass if one was asked for, else armRetry.  Either
\* way a stop no longer waits.
EndPass(w, d) ==
    IF w.again THEN StartPass([w EXCEPT !.again = FALSE], d)
    ELSE [w EXCEPT !.phase = "idle", !.todo = {}, !.ahead = NoRow, !.stopping = FALSE,
                   !.timer = w.subscribed /\ ListReady(d) # {}]

IsNext(w, d, r) == IF w.ahead # NoRow THEN r = w.ahead ELSE FirstIn(d, w.todo, r)

Continue(w, r) ==
    [w EXCEPT !.phase = "drain", !.ahead = NoRow,
              !.todo = IF w.ahead # NoRow THEN w.todo ELSE w.todo \ {r}]

\* The row of the pass is left with a message to its owner: the warning goes
\* out next, before the rest of the pass, unless it went out earlier.
ContinueWithWarning(w, d, r) ==
    [Continue(w, r) EXCEPT
        !.ahead = IF d.state[Warning(r[1])] = "prepared" THEN Warning(r[1]) ELSE NoRow]

\* Inserting a row schedules one wake-up; a pending one is not doubled.
Announces(d, r) == announcing \/ d.state[r] = "absent"

Spend(bound) == [used EXCEPT ![bound] = used[bound] + 1]
CanErr == used.errors < MaxErrors

-----------------------------------------------------------------------------
Init ==
    /\ db = EmptyTable
    /\ plan = [m \in Reconciled |-> [i \in Parts |-> "none"]]
    /\ account = "active"
    /\ process = "down"
    /\ worker = NewWorker
    /\ announcing = FALSE
    /\ call = NoCall
    /\ copies = [r \in Rows |-> [i \in Parts |-> 0]]
    /\ used = [errors |-> 0, crashes |-> 0]

\* A producer's prepare or prepareAttachment.
PrepareMessage(m) ==
    /\ m \notin Alerts /\ process # "down" /\ db.state[Message(m)] = "absent"
    /\ db' = Prepare(db, Message(m))
    /\ announcing' = Announces(db, Message(m))
    /\ UNCHANGED <<plan, account, process, worker, call, copies, used>>

\* The setImmediate of announceReady; without a subscriber nobody is woken.
AnnounceReady ==
    /\ announcing
    /\ announcing' = FALSE
    /\ worker' = IF worker.subscribed THEN Wake(worker, db) ELSE worker
    /\ UNCHANGED <<db, plan, account, process, call, copies, used>>

RetryTimer ==
    /\ worker.timer
    /\ worker' = Wake([worker EXCEPT !.timer = FALSE], db)
    /\ UNCHANGED <<db, plan, account, process, announcing, call, copies, used>>

FinishPass ==
    /\ worker.phase = "drain" /\ worker.todo = {} /\ worker.ahead = NoRow
    /\ worker' = EndPass(worker, db)
    /\ UNCHANGED <<db, plan, account, process, announcing, call, copies, used>>

\* The row changed since the pass listed it.
Skip(r) ==
    /\ db.state[r] \notin Ready
    /\ worker' = Continue(worker, r)
    /\ UNCHANGED <<db, plan, account, process, announcing, call, copies, used>>

\* An uncertain row of an adapter that can tell what happened.
Reconcile(r) ==
    /\ db.state[r] = "uncertain" /\ Reconciles(r)
    /\ LET outcome == Resolution(plan[r[1]])
       IN  db' = CASE outcome = "confirmed"   -> Confirm(db, r)
                   [] outcome = "resume_safe" -> ResumeUncertain(db, r)
                   [] outcome = "unresolved"  -> db
    /\ worker' = Continue(worker, r)
    /\ UNCHANGED <<plan, account, process, announcing, call, copies, used>>

GiveUpOnce(r) ==                            \* mutant: the warning goes with the release
    /\ db.state[r] = "uncertain" /\ ~Reconciles(r) /\ ~IsMandatory(r)
    /\ db' = IF r \in db.released THEN db ELSE Prepare(AbandonUncertain(db, r), Warning(r[1]))
    /\ worker' = ContinueWithWarning(worker, db', r)
    /\ announcing' = Announces(db, Warning(r[1]))
    /\ UNCHANGED <<plan, account, process, call, copies, used>>

\* An optional row whose fate is unknown is given up, with a warning.
GiveUp(r) ==
    /\ db.state[r] = "uncertain" /\ ~Reconciles(r) /\ ~IsMandatory(r)
    /\ db' = Prepare(AbandonUncertain(db, r), Warning(r[1]))
    /\ worker' = ContinueWithWarning(worker, db', r)
    /\ announcing' = Announces(db, Warning(r[1]))
    /\ UNCHANGED <<plan, account, process, call, copies, used>>

MayDispatchReady(r) == db.state[r] \in Ready /\ ~Reconciles(r)      \* mutant: optional rows too

\* A row that is sent again while uncertain carries the recovery label.
MayDispatch(r) ==
    \/ db.state[r] = "prepared"
    \/ db.state[r] = "uncertain" /\ ~Reconciles(r) /\ IsMandatory(r)

Dispatch(r) ==
    /\ MayDispatch(r)
    /\ db' = MarkDispatched(db, r)
    /\ worker' = [worker EXCEPT !.phase = "send"]
    /\ call' = [row |-> r, part |-> 1, tries |-> 0, labelled |-> db.state[r] = "uncertain",
                stage |-> IF Reconciles(r) THEN "planning" ELSE "sent"]
    /\ UNCHANGED <<plan, account, process, announcing, copies, used>>

\* processOne, for the next row of the pass.
ProcessOne ==
    /\ worker.phase = "drain"
    /\ \E r \in Rows :
         /\ IsNext(worker, db, r)
         /\ Skip(r) \/ Reconcile(r) \/ GiveUp(r) \/ Dispatch(r)

-----------------------------------------------------------------------------
(* The WeChat account.  Its closing is an incident, reported by a warning  *)
(* over another adapter; opening it again retires that warning.            *)

NewAlerts == {a \in Alerts : db.state[Message(a)] = "absent"}

NoAlerts == {}                              \* mutant: the warning outlives the incident
BegunAlerts == {a \in Alerts : db.state[Message(a)] # "absent"}

ReportIncident ==
    /\ \E a \in NewAlerts : db' = Prepare(db, Message(a))
    /\ account' = "warned"
    /\ announcing' = TRUE

\* transition: only an active account is closed.  The route of the warning is
\* known once the adapters are initialized.
CloseAccount ==
    IF account # "active" THEN UNCHANGED <<account, db, announcing>>
    ELSE IF process = "initialized" \/ NewAlerts = {}
         THEN account' = "unwarned" /\ UNCHANGED <<db, announcing>>
         ELSE ReportIncident

\* An authorization error of the ingress.
LoseAuthorization ==
    /\ process # "down" /\ account = "active" /\ Reconciled # {}
    /\ CloseAccount
    /\ UNCHANGED <<plan, process, worker, call, copies, used>>

-----------------------------------------------------------------------------
(* The send and its outcomes.  An error other than DELIVERY_UNCERTAIN ends *)
(* the pass; the rows behind wait for the next one.                        *)

Sending(stage) == call.stage = stage /\ worker.phase = "send"
Row == call.row

LeaveOnly(d) ==                             \* mutant: the pass goes on after an error
    db' = d /\ call' = NoCall /\ worker' = Continue(worker, Row)

\* The send is over: the row's next state, the warning that goes with it.
Leave(d) == /\ db' = d /\ call' = NoCall /\ worker' = EndPass(worker, d)

Delivered(d) == /\ db' = Confirm(d, Row) /\ call' = NoCall /\ worker' = Continue(worker, Row)

Warned(d) == IF IsMandatory(Row) \/ Reconciles(Row) THEN d
             ELSE Prepare(AbandonUncertain(d, Row), Warning(Row[1]))
AnnounceWarned == announcing' = IF IsMandatory(Row) \/ Reconciles(Row) THEN announcing
                                ELSE Announces(db, Warning(Row[1]))

\* WeChat: the plan is made once, the account must still be active, and the
\* next part is checkpointed as dispatching before its request leaves.  The
\* throw for a part in another state has no disjunct: a delivery would stay
\* here for ever, and WeChatEnds shows that none does.
BeginPart ==
    /\ Sending("planning") /\ Undone(plan, Row[1]) # {}
    /\ \/ /\ account # "active"
          /\ Leave(Fail(db, Row)) /\ UNCHANGED plan
       \/ /\ account = "active"
          /\ LET m == Row[1]
                 p == IF Planned(m) THEN plan ELSE [plan EXCEPT ![m] = NewPlan]
             IN  \E i \in Parts :
                   /\ Due(p, m, i) /\ p[m][i] = "prepared"
                   /\ plan' = [p EXCEPT ![m][i] = "dispatching"]
                   /\ call' = [call EXCEPT !.part = i, !.stage = "sent"]
          /\ UNCHANGED <<db, worker>>
    /\ UNCHANGED <<account, process, announcing, copies, used>>

\* The provider takes the request.
Accept ==
    /\ call.stage = "sent"
    /\ call' = [call EXCEPT !.stage = "accepted"]
    /\ copies' = [copies EXCEPT ![Row][call.part] = copies[Row][call.part] + 1]
    /\ UNCHANGED <<db, plan, account, process, worker, announcing, used>>

\* WeChat records the part; another adapter's receipt confirms the row.
AnswerOk ==
    /\ Sending("accepted")
    /\ \/ /\ Reconciles(Row)
          /\ plan' = SetPart(Row[1], call.part, "succeeded")
          /\ call' = [call EXCEPT !.stage = "planning"]
          /\ UNCHANGED <<db, worker>>
       \/ /\ ~Reconciles(Row)
          /\ Delivered(db) /\ UNCHANGED plan
    /\ UNCHANGED <<account, process, announcing, copies, used>>

\* All parts are recorded: the row is confirmed, in a transaction of its own.
FinishPlan ==
    /\ Sending("planning") /\ Undone(plan, Row[1]) = {}
    /\ Delivered(db)
    /\ UNCHANGED <<plan, account, process, announcing, copies, used>>

\* A refusal that proves the message was not taken: an upload waits and tries
\* again in place; otherwise the row goes back to the queue.
AnswerRefused ==
    /\ Sending("sent") /\ ~Reconciles(Row) /\ CanErr
    /\ used' = Spend("errors")
    /\ \/ /\ HasFile(Row) /\ call.tries + 1 < MaxTries
          /\ call' = [call EXCEPT !.stage = "delayed", !.tries = call.tries + 1]
          /\ UNCHANGED <<db, worker>>
       \/ /\ ~HasFile(Row) \/ call.tries + 1 = MaxTries
          /\ Leave(MarkPrepared(db, Row))
    /\ UNCHANGED <<plan, account, process, announcing, copies>>

RetryUpload ==
    /\ Sending("delayed")
    /\ call' = [call EXCEPT !.stage = "sent"]
    /\ UNCHANGED <<db, plan, account, process, worker, announcing, copies, used>>

\* WeChat refuses the account: it is closed before the delivery fails.
AnswerUnauthorized ==
    /\ Sending("sent") /\ Reconciles(Row) /\ CanErr
    /\ used' = Spend("errors")
    /\ CloseAccount
    /\ call' = [call EXCEPT !.stage = "closing"]
    /\ UNCHANGED <<plan, process, worker, copies>>

\* A rejection that no retry can change.  WeChat resets the part's checkpoint
\* with the failure.
AnswerRejected ==
    /\ \/ Sending("sent") /\ CanErr /\ used' = Spend("errors")
       \/ Sending("closing") /\ UNCHANGED used
    /\ Leave(Warned(Fail(db, Row)))
    /\ AnnounceWarned
    /\ plan' = IF Reconciles(Row) THEN SetPart(Row[1], call.part, "prepared") ELSE plan
    /\ UNCHANGED <<account, process, copies>>

\* No answer, or one that does not say whether the message was taken.
AnswerLost ==
    /\ Sending("sent") \/ Sending("accepted")
    /\ CanErr
    /\ used' = Spend("errors")
    /\ Leave(Warned(MarkUncertain(db, Row)))
    /\ AnnounceWarned
    /\ plan' = IF Reconciles(Row) THEN SetPart(Row[1], call.part, "uncertain") ELSE plan
    /\ UNCHANGED <<account, process, copies>>

-----------------------------------------------------------------------------
(* The process.                                                            *)

\* A crash loses what is in memory, the send in flight included; the request
\* may have been taken or not (Accept before the crash).
Down == process' = "down" /\ worker' = NewWorker /\ announcing' = FALSE /\ call' = NoCall

CanCrash == process # "down" /\ used.crashes < MaxCrashes

Crash ==
    /\ CanCrash
    /\ used' = Spend("crashes")
    /\ Down
    /\ UNCHANGED <<db, plan, account, copies>>

\* The crash falls between the two transactions of GiveUp.
CrashInGiveUp ==
    /\ CanCrash /\ worker.phase = "drain"
    /\ \E r \in Rows :
           /\ IsNext(worker, db, r)
           /\ db.state[r] = "uncertain" /\ ~Reconciles(r) /\ ~IsMandatory(r)
           /\ db' = AbandonUncertain(db, r)
    /\ used' = Spend("crashes")
    /\ Down
    /\ UNCHANGED <<plan, account, copies>>

\* The worker unsubscribes; stop returns when the running pass has ended, and
\* the process exits.  A wake-up during that pass has started another one,
\* which nobody awaits.
Stop ==
    /\ process = "up" /\ worker.subscribed /\ used.crashes < MaxCrashes
    /\ worker' = [worker EXCEPT !.subscribed = FALSE, !.timer = FALSE,
                                !.stopping = worker.phase \in {"drain", "send"}]
    /\ used' = Spend("crashes")
    /\ UNCHANGED <<db, plan, account, process, announcing, call, copies>>

Exit ==
    /\ process = "up" /\ ~worker.subscribed /\ ~worker.stopping
    /\ Down
    /\ UNCHANGED <<db, plan, account, copies, used>>

\* WeixinChatAdapter.initialize: a probe tells whether the account is open; a
\* new account generation fails what was begun under the old one.
ProbeAnswered ==
    /\ account # "retired" /\ account' = "active"
    /\ db' = FailMessages(db, BegunAlerts)
    /\ plan' = MarkDispatchingUncertain(plan)

ProbeDenied ==
    /\ account # "retired" /\ account' = (IF account = "active" THEN "unwarned" ELSE account)
    /\ plan' = MarkDispatchingUncertain(plan)
    /\ UNCHANGED db

NewGeneration ==
    /\ account # "retired" /\ account' = "retired"
    /\ db' = FailMessages(db, {m \in Reconciled : Planned(m)} \cup BegunAlerts)
    /\ plan' = [m \in Reconciled |-> [i \in Parts |-> "none"]]

Initialize ==
    /\ process = "down"
    /\ process' = "initialized"
    /\ \/ ProbeAnswered \/ ProbeDenied \/ NewGeneration
       \/ account = "retired" /\ UNCHANGED <<account, db, plan>>
    /\ UNCHANGED <<worker, announcing, call, copies, used>>

\* reconcileUnwarned, once the route of a warning is known.
ReconcileUnwarned ==
    /\ process = "initialized"
    /\ process' = "routed"
    /\ IF account = "unwarned" /\ NewAlerts # {} THEN ReportIncident
       ELSE UNCHANGED <<account, db, announcing>>
    /\ UNCHANGED <<plan, worker, call, copies, used>>

Recover ==
    /\ process = "routed"
    /\ process' = "recovered"
    /\ db' = RecoverAfterCrash(db)
    /\ UNCHANGED <<plan, account, worker, announcing, call, copies, used>>

StartWorker ==
    /\ process = "recovered"
    /\ process' = "up"
    /\ worker' = Wake([worker EXCEPT !.subscribed = TRUE], db)
    /\ UNCHANGED <<db, plan, account, announcing, call, copies, used>>

-----------------------------------------------------------------------------
(* The specification.                                                      *)

WorkerNext ==
    \/ AnnounceReady \/ RetryTimer \/ FinishPass \/ ProcessOne
    \/ BeginPart \/ FinishPlan \/ RetryUpload

ProviderNext ==
    \/ Accept \/ AnswerOk \/ AnswerRefused \/ AnswerUnauthorized \/ AnswerRejected \/ AnswerLost

ProcessNext ==
    \/ Initialize \/ ReconcileUnwarned \/ Recover \/ StartWorker \/ Stop \/ Exit
    \/ Crash \/ CrashInGiveUp \/ LoseAuthorization

Next ==
    \/ \E m \in Messages : PrepareMessage(m)
    \/ WorkerNext \/ ProviderNext \/ ProcessNext

Spec == Init /\ [][Next]_vars

\* The event loop runs what is ready, timers fire, a request is answered (the
\* adapters bound every request by a timeout), the supervisor restarts the
\* process.  Nothing says that the provider stays up: its errors are bounded
\* by the run alone.
Fairness ==
    /\ WF_vars(AnnounceReady) /\ WF_vars(RetryTimer) /\ WF_vars(FinishPass)
    /\ WF_vars(ProcessOne) /\ WF_vars(BeginPart)
    /\ WF_vars(FinishPlan) /\ WF_vars(RetryUpload)
    /\ WF_vars(Accept) /\ WF_vars(AnswerOk)
    /\ WF_vars(Sending("closing") /\ AnswerRejected)
    /\ WF_vars(Initialize) /\ WF_vars(ReconcileUnwarned) /\ WF_vars(Recover)
    /\ WF_vars(StartWorker) /\ WF_vars(Exit)

LiveSpec == Spec /\ Fairness

-----------------------------------------------------------------------------
(* Properties.                                                             *)

\* Every variable holds a value of its type.
TypeOK ==
    /\ db \in Tables
    /\ plan \in [Reconciled -> [Parts -> PartStates]]
    /\ account \in {"active", "unwarned", "warned", "retired"}
    /\ process \in {"down", "initialized", "routed", "recovered", "up"}
    /\ worker \in Workers
    /\ announcing \in BOOLEAN
    /\ call \in Calls
    /\ copies \in [Rows -> [Parts -> Nat]]
    /\ used \in [errors : 0..MaxErrors, crashes : 0..MaxCrashes]

\* A part of a WeChat delivery reaches the chat at most once, through crashes,
\* lost answers and resumed plans: what may have been sent is never sent again
\* (begin, succeed and reconcile of outbound-store.ts, README.md:177).
PartsSentOnce == \A m \in Reconciled, i \in Parts : copies[Message(m)][i] <= 1

\* A delivery recorded as confirmed did reach the chat, with all its parts.
ConfirmedWasAccepted ==
    \A r \in Rows : db.state[r] = "confirmed" => \A i \in PartsOf(r) : copies[r][i] > 0

\* An optional delivery of an adapter that cannot reconcile is not repeated:
\* the chat sees it at most once (delivery-worker.ts:53-57).
OptionalNotRepeated ==
    \A r \in Rows : ~IsMandatory(r) /\ ~Reconciles(r) => copies[r][1] <= 1

\* The reference count of the attachment counts the deliveries that hold it:
\* each is counted once when prepared and released at most once, whatever the
\* order of failures, crashes and repeated releases (delivery-store.ts:187-194).
RefsBalance ==
    db.refs = Cardinality({r \in Rows : HasFile(r) /\ db.state[r] # "absent" /\ r \notin db.released})

\* A delivery that may still be sent holds its attachment: the file is there
\* when a retry opens it (delivery-worker.ts:160).
MaySendAgain(r) == MayDispatch(r) \/ (db.state[r] = "uncertain" /\ Reconciles(r))
FileHeld ==
    \A r \in Rows :
        HasFile(r) /\ (db.state[r] = "dispatched" \/ MaySendAgain(r)) => r \notin db.released

\* An authorization warning waits to be sent only while its incident lasts:
\* after a new login no stale one goes out, whoever closed the account and
\* however late the warning was prepared (activate of account-store.ts,
\* reconcileUnwarned of incident-router.ts).
NoStaleAlert ==
    \A a \in Alerts :
        db.state[Message(a)] \in {"absent"} \cup Settled \/ account = "warned"

\* No lost wake-up: while the worker is subscribed and idle, a row that is
\* ready has a wake-up on its way or the retry timer armed
\* (delivery-worker.ts:93-121, announceReady of delivery-store.ts).
NoLostWakeup ==
    (worker.subscribed /\ worker.phase = "idle" /\ ListReady(db) # {})
        => announcing \/ worker.timer

\* Once confirmed or failed, a delivery stays so: no late answer, recovery or
\* account change moves it.
SettledIsFinal ==
    [][\A r \in Rows : db.state[r] \in Settled => db'.state[r] = db.state[r]]_vars

\* Messages leave in the order they were committed: none is dispatched while
\* an earlier one waits as prepared (delivery-store.ts:172-176).  The exception
\* is an earlier WeChat delivery that Reconcile has just put back to prepared:
\* the pass goes on without it, and later rows overtake it.
Before(d, q, r) == \E i, j \in DOMAIN d.order : i < j /\ d.order[i] = q /\ d.order[j] = r
Overtakes(r, q) ==
    /\ IsMessage(q) /\ IsMessage(r) /\ Before(db, q, r)
    /\ db.state[q] = "prepared"
    /\ db.state[r] # "dispatched" /\ db'.state[r] = "dispatched"
SendsInCommitOrder == [][\A q, r \in Rows : ~Reconciles(q) => ~Overtakes(r, q)]_vars

\* A mandatory delivery ends: once prepared it is confirmed or failed in the
\* end, through lost answers, refusals, crashes and stops (adapters without
\* reconciliation).
MandatoryEnds ==
    \A r \in Rows : ~Reconciles(r) /\ IsMandatory(r) =>
        (db.state[r] \notin {"absent"} \cup Settled ~> db.state[r] \in Settled)

\* An optional delivery of unknown fate is reported: its warning goes out, also
\* when a crash separates giving it up from preparing the warning.
OptionalIsReported ==
    \A m \in Messages \ (Reconciled \cup Mandatory) :
        (db.state[Message(m)] = "uncertain" ~> db.state[Warning(m)] \in Settled)

\* A WeChat delivery ends, or stays uncertain because of a part of which
\* nobody knows whether it was sent.
WeChatEnds ==
    \A m \in Reconciled :
        (db.state[Message(m)] = "prepared" ~>
            \/ db.state[Message(m)] \in Settled
            \/ db.state[Message(m)] = "uncertain" /\ Resolution(plan[m]) = "unresolved")
=============================================================================
