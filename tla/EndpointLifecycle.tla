------------------------- MODULE EndpointLifecycle -------------------------
(***************************************************************************)
(* One endpoint of EndpointManager (src/src/endpoints/manager.ts): its     *)
(* record, its gate, the adapters made for it (managed-endpoint.ts), the   *)
(* activation in flight, the reconnect timer, the queue of lifecycle       *)
(* actions, and the work that asks for leases.  The runtime on the host,   *)
(* its turn, and what nativeSessions knows of the one managed thread are   *)
(* the environment the actions are judged by.                              *)
(***************************************************************************)
EXTENDS Naturals, Sequences, FiniteSets, AdmissionGate

CONSTANTS
    Works,          \* calls of withWorkLease, each made once
    Adapters,       \* slots for ManagedAppServerEndpoint objects, numbered from 1
    Builtin,        \* TRUE: the one adapter of a built-in endpoint is always used
    Requests,       \* the lifecycle actions an operator may ask for
    MaxRequests,
    MaxReconnect,   \* RECONNECT_MAX_ATTEMPTS
    MaxLosses, MaxErrors, MaxCloses

ASSUME EndpointAssumption ==
    /\ IsFiniteSet(Adapters) /\ Adapters # {} /\ Adapters = 1 .. Cardinality(Adapters)
    /\ Builtin \in BOOLEAN
    /\ Requests \subseteq [kind : {"disconnect", "restart"}, force : BOOLEAN]
    /\ {MaxRequests, MaxReconnect, MaxLosses, MaxErrors, MaxCloses} \subseteq Nat

VARIABLES
    gate,           \* EndpointAdmissionGate
    rec,            \* EndpointRecord: published adapter, generation, timer, attempts, pause
    ads,            \* the adapters
    act,            \* record.activation and who waits for it
    life, queue,    \* the lifecycle action that runs, and those behind it
    wk,             \* the work
    runtime,        \* the app-server process on the host: its number, 0 when there is none
    turn,           \* a turn of the managed thread runs in that process
    view,           \* the thread as nativeSessions sees it, with its endpoint generation
    closing,        \* closeConnections
    used            \* spent bounds

vars == <<gate, rec, ads, act, life, queue, wk, runtime, turn, view, closing, used>>

-----------------------------------------------------------------------------
None == 0
NoTimer == [kind |-> "none", gen |-> 0]
NewAdapter == [st |-> "stopped", starter |-> "none", loss |-> FALSE]
NoActivation == [pc |-> "none", ad |-> None, loss |-> 0, asks |-> {}]
NoAction == [kind |-> "none", force |-> FALSE, pc |-> "none", gen |-> 0, drain |-> 0, cold |-> FALSE,
             prep |-> None, target |-> None, here |-> FALSE, proof |-> FALSE, ident |-> 0,
             stopped |-> FALSE, repl |-> None]
NewWork == [pc |-> "idle", ep |-> None, gen |-> 0]

Init ==
    /\ gate = OpenGate
    /\ rec = [ep |-> IF Builtin THEN 1 ELSE None, gen |-> 0, timer |-> NoTimer,
              attempts |-> 0, gaveUp |-> FALSE, pause |-> FALSE]
    /\ ads = [a \in Adapters |-> NewAdapter]
    /\ act = NoActivation /\ life = NoAction /\ queue = <<>>
    /\ wk = [w \in Works |-> NewWork]
    /\ runtime = 0 /\ turn = FALSE /\ view = [gen |-> 0, st |-> "lost"]
    /\ closing = "no"
    /\ used = [requests |-> 0, losses |-> 0, errors |-> 0, started |-> 0]

-----------------------------------------------------------------------------
(* The adapters: ManagedAppServerEndpoint.  The generation of a start that *)
(* has been overtaken differs from the adapter's: here the adapter names   *)
(* the start that is still current.                                        *)
Ready(a) == a # None /\ ads[a].st = "ready"

InUse(a) == a \in {rec.ep, act.ad, life.prep, life.target, life.repl}
               \cup {wk[w].ep : w \in {x \in Works : wk[x].pc # "done"}}

\* createRemote makes a new adapter; a built-in endpoint has one for ever.
Candidates ==
    IF Builtin THEN {1}
    ELSE LET free == {a \in Adapters : ~InUse(a) /\ ads[a].st = "stopped"}
         IN  {a \in free : \A b \in free : a <= b}

\* start: an adapter that is ready already answers at once.
StartBegun(s, a, who) ==
    IF s[a].st = "ready" THEN s
    ELSE [s EXCEPT ![a] = [st |-> "starting", starter |-> who, loss |-> FALSE]]

Started(s, a) == [s EXCEPT ![a] = [st |-> "ready", starter |-> "none", loss |-> FALSE]]

\* closeConnection, and the adapter's part of shutdownRuntime.
Closed(s, a) == IF a = None THEN s ELSE [s EXCEPT ![a] = NewAdapter]

StartCurrent(a, who) == ads[a].st = "ready" \/ ads[a].starter = who

\* open attaches to the running process, or starts one.
RuntimeFound ==
    /\ runtime' = IF runtime = 0 THEN used.started + 1 ELSE runtime
    /\ used' = [used EXCEPT !.started = IF runtime = 0 THEN @ + 1 ELSE @]

-----------------------------------------------------------------------------
(* The record.                                                             *)
CancelReconnect(r) == [r EXCEPT !.timer = NoTimer]

Publish(r, a) == [CancelReconnect(r) EXCEPT !.ep = a, !.gen = @ + 1, !.pause = FALSE]

\* The listeners of a publication register every managed thread anew.
Registered(r) == [gen |-> r.gen, st |-> "unknown"]

Arm(r, kind) ==
    IF r.attempts >= MaxReconnect THEN [r EXCEPT !.gaveUp = TRUE]
    ELSE [r EXCEPT !.attempts = @ + 1, !.timer = [kind |-> kind, gen |-> r.gen]]

ScheduleReconnect(r, gen) ==
    IF closing # "no" \/ gate.state # "automatic" \/ r.timer # NoTimer \/ r.gen # gen THEN r
    ELSE Arm(r, "loss")

ScheduleActivationRetry(r) ==
    IF closing # "no" \/ gate.state # "automatic" \/ r.timer # NoTimer \/ Ready(r.ep) THEN r
    ELSE Arm(r, "retry")

\* pauseForRecovery: only an error of the generation that was tried counts.
Pauses(r, gen, error) == error = "auth" /\ r.gen = gen

MutantActivationFailed(r, error) ==
    IF \E g \in act.asks : ~Pauses(r, g, error) THEN ScheduleActivationRetry(r) ELSE r

\* What the callers of a failed activation do: the loss timer first.
ActivationFailed(r, error) ==
    LET r1 == IF act.loss = 0 THEN r
              ELSE IF Pauses(r, act.loss, error) THEN [r EXCEPT !.pause = TRUE]
              ELSE ScheduleReconnect(r, act.loss)
        r2 == IF \E g \in act.asks : Pauses(r, g, error) THEN [r1 EXCEPT !.pause = TRUE] ELSE r1
    IN  IF \E g \in act.asks : ~Pauses(r, g, error) THEN ScheduleActivationRetry(r2) ELSE r2

\* An action whose turn has come begins before anything else is heard.
BeginDue == life.pc = "none" /\ queue # <<>>

Waiting == {w \in Works : wk[w].pc = "waiting"}

\* A step that the host or the database may refuse: "plain", or "auth" when
\* no fresh channel can be opened until a person acts.
Fails(error) ==
    /\ error \in {"plain", "auth"}
    /\ used.errors < MaxErrors
    /\ used' = [used EXCEPT !.errors = @ + 1]

-----------------------------------------------------------------------------
(* ensureReady and activate.                                               *)
Ask(a, gen) == [a EXCEPT !.pc = IF @ = "none" THEN "prepare" ELSE @, !.asks = @ \cup {gen}]

WorkAsks(w) ==
    /\ wk[w].pc = "idle" /\ closing = "no" /\ gate.state # "draining"
    /\ gate' = RequestAutomatic(gate)
    /\ IF Ready(rec.ep)
         THEN /\ wk' = [wk EXCEPT ![w] = [pc |-> "ready", ep |-> rec.ep, gen |-> rec.gen]]
              /\ UNCHANGED act
         ELSE /\ wk' = [wk EXCEPT ![w] = [@ EXCEPT !.pc = "waiting"]]
              /\ act' = Ask(act, rec.gen)
    /\ UNCHANGED <<rec, ads, life, queue, runtime, turn, view, closing, used>>

ActPrepared ==
    /\ act.pc = "prepare"
    /\ \E a \in Candidates :
         /\ act' = [act EXCEPT !.pc = "starting", !.ad = a]
         /\ ads' = StartBegun(ads, a, "act")
    /\ UNCHANGED <<gate, rec, life, queue, wk, runtime, turn, view, closing, used>>

ActStarted ==
    /\ act.pc = "starting" /\ StartCurrent(act.ad, "act")
    /\ ads' = Started(ads, act.ad)
    /\ act' = [act EXCEPT !.pc = "started"]
    /\ RuntimeFound
    /\ UNCHANGED <<gate, rec, life, queue, wk, turn, view, closing>>

ActEnds(error) ==
    /\ rec' = ActivationFailed(rec, error)
    /\ act' = NoActivation
    /\ wk' = [w \in Works |-> IF w \in Waiting THEN [NewWork EXCEPT !.pc = "done"] ELSE wk[w]]

\* prepareCandidate is refused, or start: startCandidate closes the adapter.
ActFails ==
    /\ act.pc \in {"prepare", "starting"}
    /\ \E error \in {"plain", "auth"} :
         /\ \/ Fails(error)
            \/ error = "plain" /\ act.pc = "starting" /\ ~StartCurrent(act.ad, "act") /\ UNCHANGED used
         /\ ads' = Closed(ads, act.ad)
         /\ ActEnds(error)
    /\ UNCHANGED <<gate, life, queue, runtime, turn, view, closing>>

ActPublished ==
    /\ act.pc = "started" /\ Ready(act.ad)
    /\ rec' = Publish(rec, act.ad)
    /\ view' = Registered(rec')
    /\ wk' = [w \in Works |-> IF w \in Waiting
                                THEN [pc |-> "ready", ep |-> act.ad, gen |-> rec.gen + 1] ELSE wk[w]]
    /\ act' = NoActivation
    /\ UNCHANGED <<gate, ads, life, queue, runtime, turn, closing, used>>

\* requireReadyCandidate: the connection was lost before the publication.
ActLost ==
    /\ act.pc = "started" /\ ~Ready(act.ad)
    /\ ads' = Closed(ads, act.ad)
    /\ ActEnds("plain")
    /\ UNCHANGED <<gate, life, queue, runtime, turn, view, closing, used>>

TimerFires ==
    /\ rec.timer # NoTimer
    /\ rec' = CancelReconnect(rec)
    /\ act' = IF closing # "no" \/ rec.timer.gen # rec.gen \/ gate.state # "automatic" \/ Ready(rec.ep)
                THEN act
              ELSE IF rec.timer.kind = "loss"
                THEN [act EXCEPT !.pc = IF @ = "none" THEN "prepare" ELSE @, !.loss = rec.gen]
              ELSE IF rec.pause THEN act ELSE Ask(act, rec.gen)
    /\ UNCHANGED <<gate, ads, life, queue, wk, runtime, turn, view, closing, used>>

-----------------------------------------------------------------------------
(* Work under a lease: withWorkLease, and requests made with that lease.   *)
\* One synchronous step from the answer of ensureReady to the first await.
WorkAdmitted(w) ==
    /\ wk[w].pc = "ready" /\ ~BeginDue
    /\ IF CanAcquire(gate) /\ rec.ep = wk[w].ep /\ Ready(rec.ep)
         THEN /\ gate' = Acquire(gate, w)
              /\ wk' = [wk EXCEPT ![w] = [@ EXCEPT !.pc = "running", !.gen = rec.gen]]
         ELSE /\ wk' = [wk EXCEPT ![w] = [NewWork EXCEPT !.pc = "done"]]
              /\ UNCHANGED gate
    /\ UNCHANGED <<rec, ads, act, life, queue, runtime, turn, view, closing, used>>

\* validateReadyWorkLease
LeaseValid(w) == w \in gate.live /\ wk[w].gen = rec.gen /\ Ready(rec.ep)

\* turn/start is sent; the lease is held until the answer is known.
WorkStartsTurn(w) ==
    /\ wk[w].pc = "running" /\ LeaseValid(w) /\ runtime # 0 /\ ~turn
    /\ turn' = TRUE
    /\ wk' = [wk EXCEPT ![w].pc = "asked"]
    /\ UNCHANGED <<gate, rec, ads, act, life, queue, runtime, view, closing, used>>

\* The answer updates the view, or the request is rejected with its connection;
\* then the lease is released.
WorkEnds(w) ==
    /\ wk[w].pc \in {"running", "asked"}
    /\ gate' = Release(gate, w)
    /\ view' = IF wk[w].pc = "asked" /\ turn /\ Ready(wk[w].ep) /\ view.gen = wk[w].gen /\ view.st # "lost"
                 THEN [view EXCEPT !.st = "active"] ELSE view
    /\ wk' = [wk EXCEPT ![w] = [NewWork EXCEPT !.pc = "done"]]
    /\ UNCHANGED <<rec, ads, act, life, queue, runtime, turn, closing, used>>

-----------------------------------------------------------------------------
(* The host and the connections.                                           *)
TurnEnds ==
    /\ turn /\ turn' = FALSE
    /\ view' = IF view.gen = rec.gen /\ view.st = "active" THEN [view EXCEPT !.st = "idle"] ELSE view
    /\ UNCHANGED <<gate, rec, ads, act, life, queue, wk, runtime, closing, used>>

Dropped(s, S) == [a \in Adapters |-> IF a \in S THEN [st |-> "unavailable", starter |-> "none", loss |-> TRUE]
                                               ELSE s[a]]

\* connectionLost of one adapter, or of all with the process.
ConnectionLost ==
    /\ used.losses < MaxLosses
    /\ used' = [used EXCEPT !.losses = @ + 1]
    /\ \/ \E a \in Adapters : /\ Ready(a) /\ ads' = Dropped(ads, {a})
                              /\ UNCHANGED <<runtime, turn>>
       \/ /\ runtime # 0 /\ runtime' = 0 /\ turn' = FALSE
          /\ ads' = Dropped(ads, {a \in Adapters : Ready(a)})
    /\ UNCHANGED <<gate, rec, act, life, queue, wk, view, closing>>

\* After classifyLoss the adapter reports; only the published one is heard.
LossReported(a) ==
    /\ ads[a].loss
    /\ ads' = [ads EXCEPT ![a].loss = FALSE]
    /\ IF a = rec.ep /\ rec.gen > 0
         THEN /\ rec' = ScheduleReconnect(rec, rec.gen)
              /\ view' = [view EXCEPT !.st = "lost"]
         ELSE UNCHANGED <<rec, view>>
    /\ UNCHANGED <<gate, act, life, queue, wk, runtime, turn, closing, used>>

\* The ready owners recover the thread under a lease, then acknowledgeReadyRecovery.
Recovered ==
    /\ closing = "no" /\ gate.state = "automatic" /\ Ready(rec.ep)
    /\ view = [gen |-> rec.gen, st |-> "unknown"]
    /\ view' = [view EXCEPT !.st = IF turn THEN "active" ELSE "idle"]
    /\ rec' = [rec EXCEPT !.attempts = 0, !.gaveUp = FALSE]
    /\ UNCHANGED <<gate, ads, act, life, queue, wk, runtime, turn, closing, used>>

-----------------------------------------------------------------------------
(* Lifecycle actions: disconnect, restart, and their internals.            *)
Request(q) ==
    /\ closing = "no" /\ used.requests < MaxRequests /\ ~BeginDue
    /\ queue' = Append(queue, q)
    /\ gate' = IF q.force THEN DiscardLiveWork(gate) ELSE gate
    /\ used' = [used EXCEPT !.requests = @ + 1]
    /\ UNCHANGED <<rec, ads, act, life, wk, runtime, turn, view, closing>>

\* The action ends; an error of it may pause the recovery of the endpoint.
Finish(r, error) ==
    /\ rec' = IF Pauses(r, life.gen, error) THEN [r EXCEPT !.pause = TRUE] ELSE r
    /\ life' = NoAction

LifeBegins ==
    /\ life.pc = "none" /\ queue # <<>>
    /\ queue' = Tail(queue)
    /\ LET q == Head(queue)
           new == [NoAction EXCEPT !.kind = q.kind, !.force = q.force, !.gen = rec.gen]
       IN  \/ /\ q.kind = "disconnect" /\ gate.state = "disconnected"
              /\ UNCHANGED <<gate, rec, life>>
           \/ /\ q.kind = "disconnect" /\ gate.state # "disconnected"
              /\ rec' = CancelReconnect(rec)
              /\ gate' = BeginDrain(gate, q.force)
              /\ life' = [new EXCEPT !.pc = "drain", !.drain = gate'.gen]
           \/ /\ q.kind = "restart"
              /\ rec' = CancelReconnect(rec)
              /\ gate' = RequestAutomatic(gate)
              /\ life' = [new EXCEPT !.pc = "prepare", !.cold = (gate.state = "disconnected")]
    /\ UNCHANGED <<ads, act, wk, runtime, turn, view, closing, used>>

\* restart prepares the replacement with the gate still open, then drains.
LifePrepared ==
    /\ life.pc = "prepare"
    /\ \E a \in Candidates :
         /\ gate' = BeginDrain(gate, life.force)
         /\ life' = [life EXCEPT !.pc = "drain", !.prep = a, !.drain = gate'.gen]
    /\ UNCHANGED <<rec, ads, act, queue, wk, runtime, turn, view, closing, used>>

LifeUnprepared ==
    /\ life.pc = "prepare"
    /\ \E error \in {"plain", "auth"} : Fails(error) /\ Finish(rec, error)
    /\ UNCHANGED <<gate, ads, act, queue, wk, runtime, turn, view, closing>>

\* The catch of an action: what it made is discarded, the gate reopens, and an
\* adapter it started for the proof is published.  "s" are the adapters by then.
LifeFailed(s, error) ==
    LET useless == {a \in Adapters :
                      \/ life.cold /\ a = life.repl
                      \/ ~life.cold /\ life.stopped /\ a = life.repl
                      \/ ~life.cold /\ ~life.stopped /\ a = life.prep /\ a # rec.ep
                      \/ /\ life.here /\ a = life.target /\ a # rec.ep
                         /\ IF life.kind = "restart" THEN a # life.repl ELSE ~life.stopped}
        s1 == [a \in Adapters |-> IF a \in useless THEN NewAdapter ELSE s[a]]
        keep == ~life.cold /\ ~life.stopped /\ life.proof /\ s1[life.target].st = "ready"
    IN  /\ ads' = s1
        /\ gate' = Settle(gate, life.drain, "automatic")
        /\ Finish(IF keep THEN Publish(rec, life.target) ELSE rec, error)
        /\ view' = IF keep THEN Registered(rec') ELSE view

LifeFailsPlainly(s) ==
    /\ Fails("plain")
    /\ LifeFailed(s, "plain")

IdentityRead(x) ==
    \/ x = runtime /\ UNCHANGED used
    \/ x = 0 /\ runtime # 0 /\ Fails("plain")

\* shutdownTarget.
LifeTargets ==
    /\ life.pc = "drain" /\ gate.drain = "granted"
    /\ \/ /\ life.cold
          /\ ads' = StartBegun(ads, life.prep, "life")
          /\ life' = [life EXCEPT !.pc = "starting"]
          /\ UNCHANGED used
       \/ \E x \in {0, runtime}, a \in IF rec.ep = None THEN Candidates ELSE {rec.ep} :
            /\ ~life.cold /\ life.force
            /\ IdentityRead(x)
            /\ life' = [life EXCEPT !.pc = "idle", !.target = a, !.ident = x, !.here = (rec.ep = None)]
            /\ UNCHANGED ads
       \/ \E x \in {0, runtime} :
            /\ ~life.cold /\ ~life.force /\ x # 0 /\ Ready(rec.ep)
            /\ IdentityRead(x)
            /\ life' = [life EXCEPT !.pc = "idle", !.target = rec.ep, !.ident = x]
            /\ UNCHANGED ads
       \/ \E x \in {0, runtime}, a \in IF rec.ep = None THEN Candidates ELSE {rec.ep} :
            /\ ~life.cold /\ ~life.force /\ (x = 0 \/ ~Ready(rec.ep))
            /\ IdentityRead(x)
            /\ ads' = StartBegun(ads, a, "life")
            /\ life' = [life EXCEPT !.pc = "proving", !.target = a]
    /\ UNCHANGED <<gate, rec, act, queue, wk, runtime, turn, view, closing>>

\* The target was started to prove its identity.
LifeProven ==
    /\ life.pc = "proving" /\ StartCurrent(life.target, "life")
    /\ ads' = Started(ads, life.target)
    /\ RuntimeFound
    /\ life' = [life EXCEPT !.pc = "idle", !.proof = TRUE, !.ident = runtime']
    /\ UNCHANGED <<gate, rec, act, queue, wk, turn, view, closing>>

LifeUnproven ==
    /\ life.pc = "proving"
    /\ \E error \in {"plain", "auth"} :
         /\ \/ Fails(error)
            \/ error = "plain" /\ ~StartCurrent(life.target, "life") /\ UNCHANGED used
         /\ LifeFailed(Closed(ads, life.target), error)
    /\ UNCHANGED <<act, queue, wk, runtime, turn, closing>>

MutantProvenIdle == life.force \/ (view.gen = rec.gen /\ view.st # "active")

\* requireManagedThreadsIdle
ProvenIdle == life.force \/ view = [gen |-> rec.gen, st |-> "idle"]

\* The proof and its two checkpoints, then the adapter stops and asks the host.
LifeStops ==
    /\ life.pc = "idle" /\ ProvenIdle
    /\ ads' = Closed(ads, life.target)
    /\ life' = [life EXCEPT !.pc = "stopping"]
    /\ UNCHANGED <<gate, rec, act, queue, wk, runtime, turn, view, closing, used>>

LifeRefused ==
    /\ life.pc = "idle"
    /\ \/ ~ProvenIdle /\ LifeFailed(ads, "plain") /\ UNCHANGED used
       \/ LifeFailsPlainly(ads)
    /\ UNCHANGED <<act, queue, wk, runtime, turn, closing>>

\* The host stops the exact process, or whatever is there when forced.
Stoppable == life.force \/ runtime \in {0, life.ident}

LifeStopped ==
    /\ life.pc = "stopping" /\ Stoppable
    /\ runtime' = 0 /\ turn' = FALSE
    /\ ads' = Dropped(ads, {a \in Adapters : runtime # 0 /\ Ready(a)})
    /\ life' = [life EXCEPT !.pc = "stopped", !.stopped = TRUE]
    /\ UNCHANGED <<gate, rec, act, queue, wk, view, closing, used>>

LifeUnstopped ==
    /\ life.pc = "stopping"
    /\ \/ ~Stoppable /\ LifeFailed(ads, "plain") /\ UNCHANGED <<runtime, turn, used>>
       \/ LifeFailsPlainly(ads) /\ UNCHANGED <<runtime, turn>>
       \/ Stoppable /\ LifeFailsPlainly(ads) /\ runtime' = 0 /\ turn' = FALSE
    /\ UNCHANGED <<act, queue, wk, closing>>

\* The checkpoint runtime_stopped; then disconnect settles, or restart starts.
LifeContinues ==
    /\ life.pc = "stopped"
    /\ IF life.kind = "disconnect"
         THEN /\ gate' = Settle(gate, life.drain, "disconnected")
              /\ Finish(rec, "none")
              /\ UNCHANGED ads
         ELSE /\ ads' = StartBegun(ads, life.prep, "life")
              /\ life' = [life EXCEPT !.pc = "starting"]
              /\ UNCHANGED <<gate, rec>>
    /\ UNCHANGED <<act, queue, wk, runtime, turn, view, closing, used>>

LifeUncheckpointed ==
    /\ life.pc \in {"stopped", "started"}
    /\ LifeFailsPlainly(ads)
    /\ UNCHANGED <<act, queue, wk, runtime, turn, closing>>

LifeStarted ==
    /\ life.pc = "starting" /\ StartCurrent(life.prep, "life")
    /\ ads' = Started(ads, life.prep)
    /\ RuntimeFound
    /\ life' = [life EXCEPT !.pc = "started", !.repl = life.prep]
    /\ UNCHANGED <<gate, rec, act, queue, wk, turn, view, closing>>

LifeUnstarted ==
    /\ life.pc = "starting"
    /\ \E error \in {"plain", "auth"} :
         /\ \/ Fails(error)
            \/ error = "plain" /\ ~StartCurrent(life.prep, "life") /\ UNCHANGED used
         /\ LifeFailed(Closed(ads, life.prep), error)
    /\ UNCHANGED <<act, queue, wk, runtime, turn, closing>>

\* The identity of the replacement, runtime_started, and publishAfterReopen.
LifePublishes ==
    /\ life.pc = "started"
    /\ IF Ready(life.repl) /\ (life.ident = 0 \/ life.ident # runtime)
         THEN /\ gate' = Settle(gate, life.drain, "automatic")
              /\ Finish(Publish(rec, life.repl), "none")
              /\ view' = Registered(rec')
              /\ UNCHANGED ads
         ELSE LifeFailed(ads, "plain")
    /\ UNCHANGED <<act, queue, wk, runtime, turn, closing, used>>

-----------------------------------------------------------------------------
(* closeConnections: timers first, then the actions and the activation end *)
(* before the published adapter is closed.                                 *)
CloseBegins ==
    /\ closing = "no" /\ MaxCloses > 0
    /\ closing' = "waiting"
    /\ rec' = CancelReconnect(rec)
    /\ UNCHANGED <<gate, ads, act, life, queue, wk, runtime, turn, view, used>>

MutantCloseEnds ==
    /\ closing = "waiting" /\ life.pc = "none" /\ queue = <<>>
    /\ closing' = "closed"
    /\ rec' = CancelReconnect(rec)
    /\ ads' = Closed(ads, rec.ep)
    /\ UNCHANGED <<gate, act, life, queue, wk, runtime, turn, view, used>>

CloseEnds ==
    /\ closing = "waiting" /\ life.pc = "none" /\ queue = <<>> /\ act.pc = "none"
    /\ closing' = "closed"
    /\ rec' = CancelReconnect(rec)
    /\ ads' = Closed(ads, rec.ep)
    /\ UNCHANGED <<gate, act, life, queue, wk, runtime, turn, view, used>>

-----------------------------------------------------------------------------
Activation == ActPrepared \/ ActStarted \/ ActFails \/ ActPublished \/ ActLost \/ TimerFires

Work == \E w \in Works : WorkAsks(w) \/ WorkAdmitted(w) \/ WorkStartsTurn(w) \/ WorkEnds(w)

Host == TurnEnds \/ ConnectionLost \/ Recovered \/ \E a \in Adapters : LossReported(a)

Lifecycle ==
    \/ \E q \in Requests : Request(q)
    \/ LifeBegins \/ LifePrepared \/ LifeUnprepared \/ LifeTargets \/ LifeProven \/ LifeUnproven
    \/ LifeStops \/ LifeRefused \/ LifeStopped \/ LifeUnstopped \/ LifeContinues
    \/ LifeUncheckpointed \/ LifeStarted \/ LifeUnstarted \/ LifePublishes
    \/ CloseBegins \/ CloseEnds

Next == Activation \/ Work \/ Host \/ Lifecycle

Spec == Init /\ [][Next]_vars

\* Timers fire, and what the process has begun it carries on with.  Work may
\* hold its lease for ever: a request on a dead channel is not answered.
LifeStep ==
    \/ LifeBegins \/ LifePrepared \/ LifeUnprepared \/ LifeTargets \/ LifeProven \/ LifeUnproven
    \/ LifeStops \/ LifeRefused \/ LifeStopped \/ LifeUnstopped \/ LifeContinues
    \/ LifeUncheckpointed \/ LifeStarted \/ LifeUnstarted \/ LifePublishes

Fairness == /\ WF_vars(Activation) /\ WF_vars(LifeStep) /\ WF_vars(CloseEnds)
            /\ \A a \in Adapters : WF_vars(LossReported(a))

FairSpec == Spec /\ Fairness

-----------------------------------------------------------------------------
\* The type invariant.  Its last conjunct says that the slots for adapters
\* are enough: createRemote never runs out of them.
TypeOK ==
    /\ gate \in [state : States, gen : Nat \ {0}, live : SUBSET Works, drain : {"none", "waiting", "granted"}]
    /\ rec \in [ep : Adapters \cup {None}, gen : Nat, attempts : 0 .. MaxReconnect, gaveUp : BOOLEAN,
                pause : BOOLEAN, timer : [kind : {"none", "loss", "retry"}, gen : Nat]]
    /\ ads \in [Adapters -> [st : {"starting", "ready", "unavailable", "stopped"},
                             starter : {"none", "act", "life"}, loss : BOOLEAN]]
    /\ act \in [pc : {"none", "prepare", "starting", "started"}, ad : Adapters \cup {None},
                loss : Nat, asks : SUBSET Nat]
    /\ queue \in Seq(Requests)
    /\ wk \in [Works -> [pc : {"idle", "waiting", "ready", "running", "asked", "done"},
                         ep : Adapters \cup {None}, gen : Nat]]
    /\ runtime \in Nat /\ turn \in BOOLEAN /\ (turn => runtime # 0)
    /\ closing \in {"no", "waiting", "closed"}
    /\ Candidates # {}

\* The gate (admission-gate.ts:96): from the moment a lifecycle action has its
\* drain until it settles it, the gate stays shut and nobody holds a lease,
\* whatever connects, publishes or is asked for meanwhile.
DrainHolds ==
    life.pc \in {"proving", "idle", "stopping", "stopped", "starting", "started"}
    => gate.state = "draining" /\ gate.live = {}

Destroyed == life.pc = "stopping" /\ ~life.force /\ turn /\ life'.pc # "stopping" /\ runtime' = 0

\* requireManagedThreadsIdle (manager.ts:804), the drain and the generation of
\* the view together: an action without force stops the runtime under a
\* running turn only when it has itself replaced a connection whose loss was
\* not reported yet.
StopsSpareTurns == [][Destroyed => life.proof]_vars

\* scheduleReconnect and scheduleActivationRetry (manager.ts:845, :870): as
\* long as no lifecycle action was asked for, an endpoint that was published
\* and lost its connection is being retried, or has given up, or waits for a
\* person.  (An action cancels the timer and, when it fails, arms none.)
RetryOwed ==
    /\ closing = "no" /\ gate.state = "automatic" /\ used.requests = 0
    /\ rec.gen > 0 /\ ~Ready(rec.ep) /\ ~ads[rec.ep].loss /\ act.pc = "none"
    => rec.timer # NoTimer \/ rec.pause \/ rec.gaveUp

\* closeConnections (manager.ts:624): afterwards nothing connects any more and
\* the published adapter is closed.
ClosedIsSilent == closing = "closed" => rec.timer = NoTimer /\ act.pc = "none" /\ ~Ready(rec.ep)

\* enqueueLifecycle (manager.ts:979) and the drain: an action that runs comes
\* to its end, or it is unforced and live work holds its drain.
ActionsEnd == life.pc # "none" ~> life.pc = "none" \/ (~life.force /\ life.pc = "drain" /\ gate.live # {})
=============================================================================
