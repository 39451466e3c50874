---------------------- MODULE EndpointLifecycleProofs ----------------------
(***************************************************************************)
(* What holds of an endpoint for any number of adapters, works, requests,  *)
(* losses and refusals.                                                    *)
(***************************************************************************)
EXTENDS EndpointLifecycle, FiniteSetTheorems, TLAPS

Slots == Adapters \cup {None}
Gates == [state : States, gen : Nat \ {0}, live : SUBSET Works, drain : {"none", "waiting", "granted"}]
Timers == [kind : {"none", "loss", "retry"}, gen : Nat]
Records == [ep : Slots, gen : Nat, attempts : 0 .. MaxReconnect, gaveUp : BOOLEAN, pause : BOOLEAN,
            timer : Timers]
AdapterRows == [st : {"starting", "ready", "unavailable", "stopped"},
                starter : {"none", "act", "life"}, loss : BOOLEAN]
AdapterTables == [Adapters -> AdapterRows]
Activations == [pc : {"none", "prepare", "starting", "started"}, ad : Slots, loss : Nat, asks : SUBSET Nat]
Drained == {"proving", "idle", "stopping", "stopped", "starting", "started"}
Lives == [kind : {"none", "disconnect", "restart"}, force : BOOLEAN,
          pc : {"none", "prepare", "drain"} \cup Drained, gen : Nat, drain : Nat, cold : BOOLEAN,
          prep : Slots, target : Slots, here : BOOLEAN, proof : BOOLEAN, ident : Nat,
          stopped : BOOLEAN, repl : Slots]
WorkRows == [pc : {"idle", "waiting", "ready", "running", "asked", "done"}, ep : Slots, gen : Nat]
Views == [gen : Nat, st : {"lost", "unknown", "active", "idle"}]

Typed ==
    /\ gate \in Gates /\ rec \in Records /\ ads \in AdapterTables /\ act \in Activations
    /\ life \in Lives /\ queue \in Seq(Requests) /\ wk \in [Works -> WorkRows]
    /\ runtime \in Nat /\ turn \in BOOLEAN /\ (turn => runtime # 0) /\ view \in Views
    /\ closing \in {"no", "waiting", "closed"}
    /\ used \in [requests : Nat, losses : Nat, errors : Nat, started : Nat]

\* A handle exists exactly while the gate drains, and is given out when
\* nobody holds a lease.
Latched(g) == (g.drain = "none" <=> g.state # "draining") /\ (g.drain = "granted" => g.live = {})

\* The gate belongs to the action that drains it; an action that proves its
\* target has one.
ActionInv ==
    /\ Latched(gate)
    /\ life.pc = "none" => life = NoAction
    /\ life.pc \in {"none", "prepare"} => gate.state # "draining"
    /\ life.pc \notin {"none", "prepare"} => gate.state = "draining" /\ gate.gen = life.drain
    /\ life.pc \in Drained => gate.drain = "granted"
    /\ life.pc = "proving" \/ life.proof => life.target # None
    /\ Builtin => {life.prep, life.target, life.repl} \subseteq {None, 1}

CloseInv ==
    /\ closing # "no" => rec.timer = NoTimer
    /\ closing = "closed" => act.pc = "none" /\ life.pc = "none" /\ queue = <<>> /\ ~Ready(rec.ep)

\* What an activation that goes on, or a timer, owes to the record.
RetryInv ==
    /\ rec.timer # NoTimer => rec.timer.gen = rec.gen
    /\ rec.gen > 0 => rec.ep # None
    /\ Builtin => rec.ep = 1 /\ act.ad \in {None, 1}
    /\ act.pc \in {"none", "prepare"} => act.ad = None
    /\ used.requests = 0 =>
         /\ queue = <<>> /\ life.pc = "none" /\ gate.state = "automatic"
         /\ act.pc = "prepare" => ~Ready(rec.ep)
         /\ act.pc = "starting" => act.ad # None /\ ads[act.ad].st = "starting" /\ ads[act.ad].starter = "act"
         /\ act.loss \in {0, rec.gen} /\ act.asks \subseteq {rec.gen}
         /\ act.pc # "none" /\ rec.gen > 0 => act.loss # 0 \/ act.asks # {}
         /\ closing = "no" /\ rec.gen > 0 /\ ~Ready(rec.ep) /\ ~ads[rec.ep].loss /\ act.pc = "none"
            => rec.timer # NoTimer \/ rec.pause \/ rec.gaveUp

IInv == Typed /\ ActionInv /\ CloseInv /\ RetryInv

Holds(w) == wk[w].pc \in {"running", "asked"}

Idle == [gen |-> rec.gen, st |-> "idle"]

\* The view is of the published generation, and the thread was seen in it.
Seen == view.gen = rec.gen /\ view.st \in {"active", "idle"}

\* Nobody works with the adapter another one has, and a lease that work holds
\* is known to the gate.
SpareAdapters ==
    /\ act.ad # None => act.ad \notin {rec.ep, life.prep, life.target, life.repl}
    /\ life.prep # None => life.prep # rec.ep
    /\ rec.ep = None => rec.gen = 0

SpareWork ==
    /\ view.gen <= rec.gen /\ (view.gen = 0 => view.st = "lost")
    /\ \A w \in Works : Holds(w) =>
         w \in gate.live /\ wk[w].gen <= rec.gen /\ (wk[w].gen = rec.gen => wk[w].ep = rec.ep)

SpareAction ==
    /\ ~life.force
    /\ life.proof => life.pc \in Drained /\ ~life.cold
    /\ life.stopped => life.pc \in Drained
    /\ life.pc = "stopped" => life.stopped
    /\ life.pc = "proving" => ~life.cold
    /\ (life.pc \in {"proving", "idle"} \/ life.proof) /\ Seen => life.target = rec.ep

\* A view that says idle while the turn runs is one nobody can act on: the
\* connection is gone, its work has not ended yet, or the action has proved it anew.
SpareTurn ==
    /\ life.stopped => ~turn
    /\ turn /\ view = Idle =>
         \/ ~Ready(rec.ep) \/ life.proof
         \/ \E w \in Works : wk[w].pc = "asked" /\ wk[w].gen = rec.gen
    /\ life.pc = "idle" /\ ~life.proof /\ view = Idle => ~turn
    /\ life.pc = "stopping" /\ ~life.proof => ~turn

SpareInv == SpareAdapters /\ SpareWork /\ SpareAction /\ SpareTurn

-----------------------------------------------------------------------------
(* The constants.                                                          *)

LEMMA Constants ==
    /\ None \notin Adapters /\ 1 \in Adapters /\ Adapters \subseteq Nat
    /\ Requests \subseteq [kind : {"disconnect", "restart"}, force : BOOLEAN]
    /\ MaxReconnect \in Nat /\ MaxErrors \in Nat /\ MaxLosses \in Nat
<1>1. Cardinality(Adapters) \in Nat
    BY EndpointAssumption, FS_CardinalityType
<1> QED
    BY <1>1, EndpointAssumption DEF None

-----------------------------------------------------------------------------
(* The gate.                                                               *)

LEMMA AcquireIs ==
    ASSUME NEW g \in Gates, Latched(g), CanAcquire(g), NEW w \in Works
    PROVE  /\ Acquire(g, w) \in Gates /\ Latched(Acquire(g, w))
           /\ Acquire(g, w).state = g.state /\ Acquire(g, w).drain = g.drain /\ Acquire(g, w).gen = g.gen
           /\ Acquire(g, w).live = g.live \cup {w}
BY DEF Gates, Latched, CanAcquire, Acquire, States

LEMMA ResolveIs ==
    ASSUME NEW g \in Gates, (g.drain = "none" <=> g.state # "draining"),
           g.drain = "granted" => g.live = {}
    PROVE  /\ ResolveDrain(g) \in Gates /\ Latched(ResolveDrain(g))
           /\ ResolveDrain(g).state = g.state /\ ResolveDrain(g).gen = g.gen /\ ResolveDrain(g).live = g.live
           /\ g.drain = "granted" => ResolveDrain(g).drain = "granted"
BY DEF Gates, Latched, ResolveDrain, States

LEMMA DiscardIs ==
    ASSUME NEW g \in Gates, Latched(g)
    PROVE  /\ DiscardLiveWork(g) \in Gates /\ Latched(DiscardLiveWork(g))
           /\ DiscardLiveWork(g).state = g.state /\ DiscardLiveWork(g).gen = g.gen
           /\ DiscardLiveWork(g).live = {}
           /\ g.drain = "granted" => DiscardLiveWork(g).drain = "granted"
<1> DEFINE e == [g EXCEPT !.live = {}]
<1>1. e \in Gates /\ (e.drain = "none" <=> e.state # "draining") /\ (e.drain = "granted" => e.live = {})
      /\ e.state = g.state /\ e.gen = g.gen /\ e.live = {} /\ e.drain = g.drain
    BY DEF Gates, Latched
<1> HIDE DEF e
<1>2. DiscardLiveWork(g) = ResolveDrain(e)
    BY DEF DiscardLiveWork, e
<1> QED
    BY <1>1, <1>2, ResolveIs

LEMMA ReleaseIs ==
    ASSUME NEW g \in Gates, Latched(g), NEW w
    PROVE  /\ Release(g, w) \in Gates /\ Latched(Release(g, w))
           /\ Release(g, w).state = g.state /\ Release(g, w).gen = g.gen
           /\ Release(g, w).live = g.live \ {w}
           /\ g.drain = "granted" => Release(g, w).drain = "granted"
<1> DEFINE e == [g EXCEPT !.live = @ \ {w}]
<1>1. e \in Gates /\ (e.drain = "none" <=> e.state # "draining") /\ (e.drain = "granted" => e.live = {})
      /\ e.state = g.state /\ e.gen = g.gen /\ e.live = g.live \ {w} /\ e.drain = g.drain
    BY DEF Gates, Latched
<1> HIDE DEF e
<1>2. CASE w \in g.live
    <2>1. Release(g, w) = ResolveDrain(e)
        BY <1>2 DEF Release, e
    <2> QED
        BY <1>1, <2>1, ResolveIs
<1>3. CASE w \notin g.live
    BY <1>3 DEF Release
<1> QED
    BY <1>2, <1>3

LEMMA BeginDrainIs ==
    ASSUME NEW g \in Gates, Latched(g), g.state # "draining", NEW discard \in BOOLEAN
    PROVE  /\ BeginDrain(g, discard) \in Gates /\ Latched(BeginDrain(g, discard))
           /\ BeginDrain(g, discard).state = "draining"
           /\ BeginDrain(g, discard).live = IF discard THEN {} ELSE g.live
<1> DEFINE d == IF discard THEN DiscardLiveWork(g) ELSE g
           e == [d EXCEPT !.state = "draining", !.drain = "waiting"]
<1>1. d \in Gates /\ Latched(d) /\ d.drain = "none" /\ d.live = IF discard THEN {} ELSE g.live
    BY DiscardIs DEF Latched
<1>2. BeginDrain(g, discard) = ResolveDrain(e)
    BY <1>1 DEF BeginDrain
<1> HIDE DEF d
<1>3. e \in Gates /\ e.state = "draining" /\ e.drain = "waiting" /\ e.live = d.live
    BY <1>1 DEF Gates, States
<1> HIDE DEF e
<1> QED
    BY <1>1, <1>2, <1>3, ResolveIs

LEMMA RequestAutomaticIs ==
    ASSUME NEW g \in Gates, Latched(g)
    PROVE  /\ RequestAutomatic(g) \in Gates /\ Latched(RequestAutomatic(g))
           /\ RequestAutomatic(g).live = g.live
           /\ g.state # "draining" => RequestAutomatic(g).state = "automatic"
           /\ g.state = "automatic" => RequestAutomatic(g) = g
<1> DEFINE n == g.gen + 1
<1>1. n \in Nat \ {0}
    BY DEF Gates
<1>2. RequestAutomatic(g) = IF g.state = "disconnected" THEN [g EXCEPT !.gen = n, !.state = "automatic"] ELSE g
    BY DEF RequestAutomatic
<1> HIDE DEF n
<1> QED
    BY <1>1, <1>2 DEF Gates, Latched, States

LEMMA SettleIs ==
    ASSUME NEW g \in Gates, Latched(g), NEW gen, NEW s \in {"automatic", "disconnected"}
    PROVE  /\ Settle(g, gen, s) \in Gates /\ Latched(Settle(g, gen, s))
           /\ Settle(g, gen, s).live = g.live
           /\ g.state = "draining" /\ g.gen = gen => Settle(g, gen, s).state = s
           /\ g.state # "draining" => Settle(g, gen, s) = g
<1> DEFINE n == g.gen + 1
<1>1. n \in Nat \ {0}
    BY DEF Gates
<1>2. Settle(g, gen, s) = IF g.state = "draining" /\ g.gen = gen
                            THEN [g EXCEPT !.gen = n, !.state = s, !.drain = "none"] ELSE g
    BY DEF Settle
<1> HIDE DEF n
<1> QED
    BY <1>1, <1>2 DEF Gates, Latched, States

-----------------------------------------------------------------------------
(* The record.                                                             *)

Same(q, r) == q.ep = r.ep /\ q.gen = r.gen

LEMMA CancelIs ==
    ASSUME NEW r \in Records
    PROVE  /\ CancelReconnect(r) \in Records /\ Same(CancelReconnect(r), r)
           /\ CancelReconnect(r).timer = NoTimer
           /\ CancelReconnect(r).pause = r.pause /\ CancelReconnect(r).gaveUp = r.gaveUp
BY DEF Records, CancelReconnect, Same, NoTimer, Timers

LEMMA PublishIs ==
    ASSUME NEW r \in Records, NEW a \in Slots
    PROVE  /\ Publish(r, a) \in Records /\ Publish(r, a).ep = a /\ Publish(r, a).gen = r.gen + 1
           /\ Publish(r, a).timer = NoTimer
<1> DEFINE c == CancelReconnect(r)
           n == r.gen + 1
<1>1. c \in Records /\ c.gen = r.gen /\ c.timer = NoTimer
    BY CancelIs DEF Same
<1>2. n \in Nat
    BY DEF Records
<1>3. Publish(r, a) = [c EXCEPT !.ep = a, !.gen = n, !.pause = FALSE]
    BY <1>1 DEF Publish, Records
<1> HIDE DEF c, n
<1>4. Publish(r, a) \in Records /\ Publish(r, a).ep = a /\ Publish(r, a).gen = n
      /\ Publish(r, a).timer = NoTimer
    BY <1>1, <1>2, <1>3 DEF Records
<1> QED
    BY <1>4 DEF n

\* Armed: the timer waits, a person is awaited, or the retries are used up.
Armed(r) == r.timer # NoTimer \/ r.pause \/ r.gaveUp
Timely(r) == r.timer # NoTimer => r.timer.gen = r.gen

LEMMA ArmIs ==
    ASSUME NEW r \in Records, NEW kind \in {"loss", "retry"}
    PROVE  /\ Arm(r, kind) \in Records /\ Same(Arm(r, kind), r) /\ Armed(Arm(r, kind))
           /\ Timely(r) => Timely(Arm(r, kind))
<1> DEFINE n == r.attempts + 1
           t == [kind |-> kind, gen |-> r.gen]
<1>1. CASE r.attempts >= MaxReconnect
    BY <1>1 DEF Arm, Records, Same, Armed, Timely
<1>2. CASE ~(r.attempts >= MaxReconnect)
    <2>1. n \in 0 .. MaxReconnect /\ t \in Timers /\ t.gen = r.gen /\ t # NoTimer
        BY <1>2, Constants DEF Records, Timers, NoTimer
    <2>2. Arm(r, kind) = [r EXCEPT !.attempts = n, !.timer = t]
        BY <1>2 DEF Arm, Records
    <2> HIDE DEF n, t
    <2> QED
        BY <2>1, <2>2 DEF Records, Same, Armed, Timely
<1> QED
    BY <1>1, <1>2

LEMMA ScheduleIs ==
    ASSUME NEW r \in Records, NEW gen
    PROVE  /\ ScheduleReconnect(r, gen) \in Records /\ Same(ScheduleReconnect(r, gen), r)
           /\ Timely(r) => Timely(ScheduleReconnect(r, gen))
           /\ Armed(r) => Armed(ScheduleReconnect(r, gen))
           /\ closing # "no" => ScheduleReconnect(r, gen) = r
           /\ closing = "no" /\ gate.state = "automatic" /\ gen = r.gen => Armed(ScheduleReconnect(r, gen))
BY ArmIs DEF ScheduleReconnect, Same, Armed

LEMMA RetryIs ==
    ASSUME NEW r \in Records
    PROVE  /\ ScheduleActivationRetry(r) \in Records /\ Same(ScheduleActivationRetry(r), r)
           /\ Timely(r) => Timely(ScheduleActivationRetry(r))
           /\ Armed(r) => Armed(ScheduleActivationRetry(r))
           /\ closing # "no" => ScheduleActivationRetry(r) = r
           /\ closing = "no" /\ gate.state = "automatic" /\ ~Ready(r.ep) => Armed(ScheduleActivationRetry(r))
BY ArmIs DEF ScheduleActivationRetry, Same, Armed

LEMMA PauseIs ==
    ASSUME NEW r \in Records
    PROVE  /\ [r EXCEPT !.pause = TRUE] \in Records /\ Same([r EXCEPT !.pause = TRUE], r)
           /\ Armed([r EXCEPT !.pause = TRUE])
           /\ [r EXCEPT !.pause = TRUE].timer = r.timer
BY DEF Records, Same, Armed

\* What is left behind by an activation that failed.
LEMMA ActivationFailedIs ==
    ASSUME NEW r \in Records, NEW error
    PROVE  /\ ActivationFailed(r, error) \in Records /\ Same(ActivationFailed(r, error), r)
           /\ Timely(r) => Timely(ActivationFailed(r, error))
           /\ Armed(r) => Armed(ActivationFailed(r, error))
           /\ closing # "no" => ActivationFailed(r, error).timer = r.timer
           /\ /\ closing = "no" /\ gate.state = "automatic" /\ ~Ready(r.ep)
              /\ act.loss \in {0, r.gen} /\ act.asks \subseteq {r.gen}
              /\ act.loss # 0 \/ act.asks # {}
              => Armed(ActivationFailed(r, error))
<1> DEFINE r1 == IF act.loss = 0 THEN r
                 ELSE IF Pauses(r, act.loss, error) THEN [r EXCEPT !.pause = TRUE]
                 ELSE ScheduleReconnect(r, act.loss)
           r2 == IF \E g \in act.asks : Pauses(r, g, error) THEN [r1 EXCEPT !.pause = TRUE] ELSE r1
<1>1. /\ r1 \in Records /\ Same(r1, r) /\ (Timely(r) => Timely(r1)) /\ (Armed(r) => Armed(r1))
      /\ closing # "no" => r1.timer = r.timer
      /\ closing = "no" /\ gate.state = "automatic" /\ act.loss = r.gen /\ act.loss # 0 => Armed(r1)
    BY ScheduleIs, PauseIs DEF Same, Timely
<1> HIDE DEF r1
<1>2. /\ r2 \in Records /\ Same(r2, r) /\ (Timely(r) => Timely(r2)) /\ (Armed(r1) => Armed(r2))
      /\ closing # "no" => r2.timer = r.timer
      /\ (\E g \in act.asks : Pauses(r, g, error)) => Armed(r2)
    BY <1>1, PauseIs DEF Same, Timely
<1> HIDE DEF r2
<1>3. ActivationFailed(r, error) = IF \E g \in act.asks : ~Pauses(r, g, error)
                                     THEN ScheduleActivationRetry(r2) ELSE r2
    BY DEF ActivationFailed, r1, r2
<1> QED
    BY <1>1, <1>2, <1>3, RetryIs DEF Same

-----------------------------------------------------------------------------
(* The adapters.                                                           *)

LEMMA StartBegunIs ==
    ASSUME NEW s \in AdapterTables, NEW a, NEW who \in {"act", "life"}
    PROVE  /\ StartBegun(s, a, who) \in AdapterTables
           /\ \A b \in Adapters : StartBegun(s, a, who)[b].st = "ready" <=> s[b].st = "ready"
           /\ a \in Adapters /\ s[a].st # "ready" =>
                StartBegun(s, a, who)[a].st = "starting" /\ StartBegun(s, a, who)[a].starter = who
BY DEF StartBegun, AdapterTables, AdapterRows

LEMMA StartedIs ==
    ASSUME NEW s \in AdapterTables, NEW a
    PROVE  /\ Started(s, a) \in AdapterTables
           /\ \A b \in Adapters \ {a} : Started(s, a)[b] = s[b]
BY DEF Started, AdapterTables, AdapterRows

LEMMA ClosedIs ==
    ASSUME NEW s \in AdapterTables, NEW a \in Slots
    PROVE  /\ Closed(s, a) \in AdapterTables
           /\ \A b \in Adapters : Closed(s, a)[b] = IF b = a THEN NewAdapter ELSE s[b]
BY Constants DEF Closed, AdapterTables, AdapterRows, NewAdapter, None, Slots

LEMMA DroppedIs ==
    ASSUME NEW s \in AdapterTables, NEW S
    PROVE  /\ Dropped(s, S) \in AdapterTables
           /\ \A b \in Adapters : Dropped(s, S)[b].st = "ready" => s[b].st = "ready" /\ b \notin S
           /\ \A b \in Adapters \ S : Dropped(s, S)[b] = s[b]
BY DEF Dropped, AdapterTables, AdapterRows

LEMMA CandidatesAre ==
    /\ Candidates \subseteq Adapters
    /\ Builtin => Candidates = {1}
    /\ ~Builtin => \A a \in Candidates : ~InUse(a) /\ ads[a].st = "stopped"
BY Constants DEF Candidates

-----------------------------------------------------------------------------
(* The activation.                                                         *)

LEMMA AskIs ==
    ASSUME NEW a \in Activations, NEW gen \in Nat
    PROVE  /\ Ask(a, gen) \in Activations /\ Ask(a, gen).ad = a.ad /\ Ask(a, gen).loss = a.loss
           /\ Ask(a, gen).asks = a.asks \cup {gen}
           /\ Ask(a, gen).pc = IF a.pc = "none" THEN "prepare" ELSE a.pc
BY DEF Ask, Activations

LEMMA WorkAsksStep == ASSUME IInv, NEW w \in Works, WorkAsks(w) PROVE IInv'
<1> USE DEF IInv
<1>1. gate' \in Gates /\ Latched(gate') /\ gate'.state = "automatic" /\ (gate.state = "automatic" => gate' = gate)
    BY RequestAutomaticIs DEF WorkAsks, ActionInv, Typed
<1>2. Ready(rec.ep) => rec.ep \in Slots
    BY DEF Typed, Records
<1>3. wk' \in [Works -> WorkRows]
    <2>1. CASE Ready(rec.ep)
        BY <1>2, <2>1 DEF WorkAsks, Typed, WorkRows, Records
    <2>2. CASE ~Ready(rec.ep)
        BY <2>2 DEF WorkAsks, Typed, WorkRows
    <2> QED BY <2>1, <2>2
<1>4. \/ act' = act
      \/ /\ act' \in Activations /\ act'.ad = act.ad /\ act'.loss = act.loss
         /\ act'.asks = act.asks \cup {rec.gen} /\ act'.pc # "none"
         /\ act'.pc # act.pc => act'.pc = "prepare" /\ act.pc = "none"
         /\ ~Ready(rec.ep)
    BY AskIs DEF WorkAsks, Typed, Records, Activations
<1>5. UNCHANGED <<rec, ads, life, queue, runtime, turn, view, closing, used>> /\ closing = "no" /\ gate.state # "draining"
    BY DEF WorkAsks
<1>6. Typed'
    BY <1>1, <1>3, <1>4, <1>5 DEF Typed
<1>7. ActionInv'
    BY <1>1, <1>5 DEF ActionInv, Latched
<1>8. CloseInv'
    BY <1>5 DEF CloseInv
<1>9. RetryInv'
    BY <1>1, <1>4, <1>5 DEF RetryInv, Ready
<1> QED
    BY <1>6, <1>7, <1>8, <1>9

LEMMA ActPreparedStep == ASSUME IInv, ActPrepared PROVE IInv'
<1> USE DEF IInv
<1> PICK a \in Candidates : act' = [act EXCEPT !.pc = "starting", !.ad = a] /\ ads' = StartBegun(ads, a, "act")
    BY DEF ActPrepared
<1>1. a \in Adapters /\ a # None
    BY CandidatesAre, Constants
<1>2. act' \in Activations /\ act'.pc = "starting" /\ act'.ad = a /\ act'.loss = act.loss /\ act'.asks = act.asks
    BY <1>1 DEF Typed, Activations, Slots
<1>3. /\ ads' \in AdapterTables /\ \A b \in Adapters : ads'[b].st = "ready" <=> ads[b].st = "ready"
      /\ ads[a].st # "ready" => ads'[a].st = "starting" /\ ads'[a].starter = "act"
    <2>1. ads \in AdapterTables /\ ads' = StartBegun(ads, a, "act")
        BY DEF Typed
    <2>2. /\ StartBegun(ads, a, "act") \in AdapterTables
          /\ \A b \in Adapters : StartBegun(ads, a, "act")[b].st = "ready" <=> ads[b].st = "ready"
          /\ ads[a].st # "ready" =>
               StartBegun(ads, a, "act")[a].st = "starting" /\ StartBegun(ads, a, "act")[a].starter = "act"
        <3> HIDE DEF IInv
        <3> QED
            BY <1>1, <2>1, StartBegunIs
    <2> QED
        BY <2>1, <2>2
<1>4. UNCHANGED <<gate, rec, life, queue, wk, runtime, turn, view, closing, used>> /\ act.pc = "prepare"
    BY DEF ActPrepared
<1>5. Typed'
    BY <1>2, <1>3, <1>4 DEF Typed
<1>6. ActionInv'
    BY <1>4 DEF ActionInv
<1>7. CloseInv'
    BY <1>4 DEF CloseInv
<1>8. RetryInv'
    <2>1. used.requests = 0 => ads[a].st # "ready"
        BY <1>1, <1>4, CandidatesAre DEF RetryInv, Ready
    <2>2. Builtin => a = 1
        BY CandidatesAre
    <2> QED
        BY <1>1, <1>2, <1>3, <1>4, <2>1, <2>2 DEF RetryInv, Ready
<1> QED
    BY <1>5, <1>6, <1>7, <1>8

Budgets == [requests : Nat, losses : Nat, errors : Nat, started : Nat]

LEMMA RuntimeFoundIs ==
    ASSUME Typed, RuntimeFound
    PROVE  /\ runtime' \in Nat \ {0} /\ used' \in Budgets /\ used'.requests = used.requests
           /\ runtime # 0 => runtime' = runtime
<1> DEFINE n == used.started + 1
<1>1. n \in Nat \ {0}
    BY DEF Typed, Budgets
<1>2. used' = IF runtime = 0 THEN [used EXCEPT !.started = n] ELSE used
    BY DEF RuntimeFound, Typed, Budgets
<1>3. runtime' = IF runtime = 0 THEN n ELSE runtime
    BY DEF RuntimeFound
<1> HIDE DEF n
<1> QED
    BY <1>1, <1>2, <1>3 DEF Typed, Budgets

LEMMA FailsIs ==
    ASSUME Typed, NEW error, Fails(error)
    PROVE  used' \in Budgets /\ used'.requests = used.requests
<1> DEFINE n == used.errors + 1
<1>1. n \in Nat /\ used' = [used EXCEPT !.errors = n]
    BY DEF Typed, Budgets, Fails
<1> HIDE DEF n
<1> QED
    BY <1>1 DEF Typed, Budgets

LEMMA ActStartedStep == ASSUME IInv, ActStarted PROVE IInv'
<1> USE DEF IInv
<1>1. act' \in Activations /\ act'.pc = "started" /\ act'.ad = act.ad /\ act'.loss = act.loss /\ act'.asks = act.asks
    BY DEF ActStarted, Typed, Activations
<1>2. ads' \in AdapterTables
    BY StartedIs DEF ActStarted, Typed
<1>3. runtime' \in Nat \ {0} /\ used' \in Budgets /\ used'.requests = used.requests
    BY RuntimeFoundIs DEF ActStarted
<1>4. UNCHANGED <<gate, rec, life, queue, wk, turn, view, closing>> /\ act.pc = "starting"
    BY DEF ActStarted
<1>5. Typed'
    BY <1>1, <1>2, <1>3, <1>4 DEF Typed, Budgets
<1>6. ActionInv'
    BY <1>4 DEF ActionInv, Latched
<1>7. CloseInv'
    BY <1>4 DEF CloseInv
<1>8. RetryInv'
    BY <1>1, <1>3, <1>4 DEF RetryInv
<1> QED
    BY <1>5, <1>6, <1>7, <1>8

\* An activation that ends without a publication, with the adapters s.
LEMMA ActEndsStep ==
    ASSUME IInv, NEW error, ActEnds(error), NEW s \in AdapterTables, ads' = s, act.pc # "none",
           used' \in Budgets, used'.requests = used.requests,
           \A a \in Adapters : s[a].st = "ready" => ads[a].st = "ready",
           used.requests = 0 => \A a \in Adapters : ads[a].st = "ready" => s[a].st = "ready",
           UNCHANGED <<gate, life, queue, runtime, turn, view, closing>>
    PROVE  IInv'
<1> USE DEF IInv
<1>1. /\ rec' \in Records /\ Same(rec', rec) /\ Timely(rec') /\ (Armed(rec) => Armed(rec'))
      /\ closing # "no" => rec'.timer = rec.timer
      /\ /\ closing = "no" /\ gate.state = "automatic" /\ ~Ready(rec.ep)
         /\ act.loss \in {0, rec.gen} /\ act.asks \subseteq {rec.gen}
         /\ act.loss # 0 \/ act.asks # {}
         => Armed(rec')
    BY ActivationFailedIs DEF ActEnds, Typed, RetryInv, Timely
<1>2. act' = NoActivation /\ act' \in Activations /\ act'.pc = "none" /\ act'.ad = None
      /\ act'.loss = 0 /\ act'.asks = {}
    BY DEF ActEnds, NoActivation, Activations, Slots
<1>3. wk' \in [Works -> WorkRows]
    BY DEF ActEnds, Typed, WorkRows, NewWork, Slots
<1>4. Typed'
    BY <1>1, <1>2, <1>3 DEF Typed, Budgets
<1>5. ActionInv'
    BY DEF ActionInv, Latched
<1>6. CloseInv'
    BY <1>1 DEF CloseInv
<1>7. rec.ep \in Slots
    BY DEF Typed, Records
<1>8. used.requests = 0 => (Ready(rec.ep)' <=> Ready(rec.ep))
    BY <1>1, <1>7 DEF Ready, Same, Slots
<1>9. RetryInv'
    <2>1. /\ rec'.timer # NoTimer => rec'.timer.gen = rec'.gen
          /\ rec'.gen > 0 => rec'.ep # None
          /\ Builtin => rec'.ep = 1 /\ act'.ad \in {None, 1}
        BY <1>1, <1>2 DEF RetryInv, Timely, Same
    <2>2. used.requests = 0 /\ closing = "no" /\ rec.gen > 0 /\ ~Ready(rec.ep) => Armed(rec')
        BY <1>1 DEF RetryInv
    <2> QED
        BY <1>1, <1>2, <1>8, <2>1, <2>2 DEF RetryInv, Same, Armed
<1> QED
    BY <1>4, <1>5, <1>6, <1>9

LEMMA ActFailsStep == ASSUME IInv, ActFails PROVE IInv'
<1> USE DEF IInv
<1> PICK error \in {"plain", "auth"} :
      /\ \/ Fails(error)
         \/ error = "plain" /\ act.pc = "starting" /\ ~StartCurrent(act.ad, "act") /\ UNCHANGED used
      /\ ads' = Closed(ads, act.ad)
      /\ ActEnds(error)
    BY DEF ActFails
<1>1. used' \in Budgets /\ used'.requests = used.requests
    BY FailsIs DEF Typed, Budgets
<1>2. act.ad \in Slots
    BY DEF Typed, Activations
<1>3. ads' \in AdapterTables /\ \A b \in Adapters : ads'[b] = IF b = act.ad THEN NewAdapter ELSE ads[b]
    BY <1>2, ClosedIs DEF Typed
<1>4. used.requests = 0 => act.ad = None \/ ads[act.ad].st # "ready"
    BY DEF ActFails, RetryInv
<1>5. /\ \A a \in Adapters : ads'[a].st = "ready" => ads[a].st = "ready"
      /\ used.requests = 0 => \A a \in Adapters : ads[a].st = "ready" => ads'[a].st = "ready"
    <2>1. \A a \in Adapters : ads'[a].st = "ready" => ads[a].st = "ready"
        BY <1>3 DEF NewAdapter
    <2>2. \A a \in Adapters : a = act.ad => act.ad # None
        BY Constants
    <2> QED
        BY <1>3, <1>4, <2>1, <2>2
<1>6. UNCHANGED <<gate, life, queue, runtime, turn, view, closing>> /\ act.pc # "none"
    BY DEF ActFails
<1> QED
    BY <1>1, <1>3, <1>5, <1>6, ActEndsStep

LEMMA ActLostStep == ASSUME IInv, ActLost PROVE IInv'
<1> USE DEF IInv
<1>1. used' \in Budgets /\ used'.requests = used.requests
    BY DEF ActLost, Typed, Budgets
<1>2. act.ad \in Slots
    BY DEF Typed, Activations
<1>3. ads' \in AdapterTables /\ \A b \in Adapters : ads'[b] = IF b = act.ad THEN NewAdapter ELSE ads[b]
    BY <1>2, ClosedIs DEF Typed, ActLost
<1>5. /\ \A a \in Adapters : ads'[a].st = "ready" => ads[a].st = "ready"
      /\ \A a \in Adapters : ads[a].st = "ready" => ads'[a].st = "ready"
    BY <1>3, Constants DEF NewAdapter, ActLost, Ready
<1>6. UNCHANGED <<gate, life, queue, runtime, turn, view, closing>> /\ act.pc # "none" /\ ActEnds("plain")
    BY DEF ActLost
<1> QED
    BY <1>1, <1>3, <1>5, <1>6, ActEndsStep

LEMMA RegisteredIs == ASSUME NEW r \in Records PROVE Registered(r) \in Views /\ Registered(r).gen = r.gen
    BY DEF Registered, Views, Records

LEMMA ActPublishedStep == ASSUME IInv, ActPublished PROVE IInv'
<1> USE DEF IInv
<1>1. act.ad \in Slots /\ act.ad # None /\ ads[act.ad].st = "ready" /\ act.pc = "started"
    BY DEF ActPublished, Typed, Activations, Ready
<1>2. rec' \in Records /\ rec'.ep = act.ad /\ rec'.gen = rec.gen + 1 /\ rec'.timer = NoTimer
    BY <1>1, PublishIs DEF ActPublished, Typed
<1>3. view' \in Views
    BY <1>2, RegisteredIs DEF ActPublished
<1>4. wk' \in [Works -> WorkRows]
    <2>1. rec.gen + 1 \in Nat
        BY DEF Typed, Records
    <2> QED
        BY <1>1, <2>1 DEF ActPublished, Typed, WorkRows
<1>5. act' = NoActivation /\ act' \in Activations /\ act'.pc = "none" /\ act'.ad = None
      /\ act'.loss = 0 /\ act'.asks = {}
    BY DEF ActPublished, NoActivation, Activations, Slots
<1>6. UNCHANGED <<gate, ads, life, queue, runtime, turn, closing, used>>
    BY DEF ActPublished
<1>7. Typed'
    BY <1>2, <1>3, <1>4, <1>5, <1>6 DEF Typed
<1>8. ActionInv'
    BY <1>6 DEF ActionInv, Latched
<1>9. CloseInv'
    BY <1>1, <1>2, <1>6 DEF CloseInv
<1>10. RetryInv'
    <2>1. Ready(rec.ep)'
        BY <1>1, <1>2, <1>6 DEF Ready
    <2>2. Builtin => act.ad = 1
        BY <1>1 DEF RetryInv
    <2> QED
        BY <1>1, <1>2, <1>5, <1>6, <2>1, <2>2 DEF RetryInv
<1> QED
    BY <1>7, <1>8, <1>9, <1>10

LEMMA TimerFiresStep == ASSUME IInv, TimerFires PROVE IInv'
<1> USE DEF IInv
<1>1. rec' \in Records /\ Same(rec', rec) /\ rec'.timer = NoTimer /\ rec'.pause = rec.pause /\ rec'.gaveUp = rec.gaveUp
    BY CancelIs DEF TimerFires, Typed
<1>2. rec.timer # NoTimer /\ rec.gen \in Nat /\ rec.timer.gen = rec.gen /\ closing = "no"
    BY DEF TimerFires, Typed, Records, RetryInv, CloseInv
<1>3. UNCHANGED <<gate, ads, life, queue, wk, runtime, turn, view, closing, used>>
    BY DEF TimerFires
<1>4. \/ act' = act /\ (gate.state # "automatic" \/ Ready(rec.ep) \/ rec.pause)
      \/ /\ act' \in Activations /\ act'.pc = (IF act.pc = "none" THEN "prepare" ELSE act.pc) /\ act'.ad = act.ad
         /\ ~Ready(rec.ep)
         /\ act'.loss \in {act.loss, rec.gen} /\ act'.asks \subseteq act.asks \cup {rec.gen}
         /\ act.asks \subseteq act'.asks
         /\ rec.gen = 0 \/ act'.loss # 0 \/ act'.asks # {}
    <2>1. CASE closing # "no" \/ rec.timer.gen # rec.gen \/ gate.state # "automatic" \/ Ready(rec.ep)
        BY <1>2, <2>1 DEF TimerFires
    <2>2. CASE ~(gate.state # "automatic" \/ Ready(rec.ep)) /\ rec.timer.kind = "loss"
        <3> DEFINE p == IF act.pc = "none" THEN "prepare" ELSE act.pc
        <3>1. act' = [act EXCEPT !.pc = p, !.loss = rec.gen]
            BY <1>2, <2>2 DEF TimerFires
        <3>2. p \in {"none", "prepare", "starting", "started"}
            BY DEF Typed, Activations
        <3> HIDE DEF p
        <3>3. /\ act' \in Activations /\ act'.pc = p /\ act'.loss = rec.gen /\ act'.ad = act.ad
              /\ act'.asks = act.asks
            BY <1>2, <3>1, <3>2 DEF Typed, Activations
        <3> QED
            BY <2>2, <3>3 DEF p
    <2>3. CASE ~(gate.state # "automatic" \/ Ready(rec.ep)) /\ rec.timer.kind # "loss"
        <3>1. act \in Activations /\ act' = IF rec.pause THEN act ELSE Ask(act, rec.gen)
            BY <1>2, <2>3 DEF TimerFires, Typed
        <3>2. CASE rec.pause
            BY <3>1, <3>2
        <3>3. CASE ~rec.pause
            <4>1. act' = Ask(act, rec.gen)
                BY <3>1, <3>3
            <4> QED
                BY <1>2, <2>3, <3>1, <4>1, AskIs
        <3> QED
            BY <3>2, <3>3
    <2> QED
        BY <1>2, <2>1, <2>2, <2>3
<1>5. Typed'
    BY <1>1, <1>3, <1>4 DEF Typed
<1>6. ActionInv'
    BY <1>3 DEF ActionInv, Latched
<1>7. CloseInv'
    BY <1>2, <1>3 DEF CloseInv
<1>8. RetryInv'
    BY <1>1, <1>2, <1>3, <1>4 DEF RetryInv, Ready, Same
<1> QED
    BY <1>5, <1>6, <1>7, <1>8

-----------------------------------------------------------------------------
(* The work and the host.                                                  *)

LEMMA WorkAdmittedStep == ASSUME IInv, NEW w \in Works, WorkAdmitted(w) PROVE IInv'
<1> USE DEF IInv
<1>1. UNCHANGED <<rec, ads, act, life, queue, runtime, turn, view, closing, used>>
    BY DEF WorkAdmitted
<1>2. /\ gate' \in Gates /\ Latched(gate') /\ gate'.state = gate.state /\ gate'.drain = gate.drain
      /\ gate'.gen = gate.gen
    BY AcquireIs DEF WorkAdmitted, Typed, ActionInv
<1>3. wk' \in [Works -> WorkRows]
    <2>1. rec.gen \in Nat /\ wk[w] \in WorkRows
        BY DEF Typed, Records
    <2>2. [wk[w] EXCEPT !.pc = "running", !.gen = rec.gen] \in WorkRows
        BY <2>1 DEF WorkRows
    <2>3. [NewWork EXCEPT !.pc = "done"] \in WorkRows
        BY DEF NewWork, WorkRows, Slots
    <2>4. PICK x \in WorkRows : wk' = [wk EXCEPT ![w] = x]
        BY <2>2, <2>3 DEF WorkAdmitted
    <2> QED
        BY <2>4 DEF Typed
<1>4. Typed'
    BY <1>1, <1>2, <1>3 DEF Typed
<1>5. ActionInv'
    BY <1>1, <1>2 DEF ActionInv, Latched
<1>6. CloseInv'
    BY <1>1 DEF CloseInv, Ready
<1>7. RetryInv'
    BY <1>1, <1>2 DEF RetryInv, Ready
<1> QED
    BY <1>4, <1>5, <1>6, <1>7

LEMMA WorkStartsTurnStep == ASSUME IInv, NEW w \in Works, WorkStartsTurn(w) PROVE IInv'
<1> USE DEF IInv
<1>1. UNCHANGED <<gate, rec, ads, act, life, queue, runtime, view, closing, used>> /\ turn' = TRUE /\ runtime # 0
    BY DEF WorkStartsTurn
<1>2. wk' \in [Works -> WorkRows]
    BY DEF WorkStartsTurn, Typed, WorkRows
<1>3. Typed'
    BY <1>1, <1>2 DEF Typed
<1> QED
    BY <1>1, <1>3 DEF ActionInv, Latched, CloseInv, RetryInv, Ready

LEMMA WorkEndsStep == ASSUME IInv, NEW w \in Works, WorkEnds(w) PROVE IInv'
<1> USE DEF IInv
<1>1. UNCHANGED <<rec, ads, act, life, queue, runtime, turn, closing, used>>
    BY DEF WorkEnds
<1>2. /\ gate' \in Gates /\ Latched(gate') /\ gate'.state = gate.state /\ gate'.gen = gate.gen
      /\ gate.drain = "granted" => gate'.drain = "granted"
    BY ReleaseIs DEF WorkEnds, Typed, ActionInv
<1>3. wk' \in [Works -> WorkRows]
    BY DEF WorkEnds, Typed, WorkRows, NewWork, Slots
<1>4. view' \in Views
    BY DEF WorkEnds, Typed, Views
<1>5. Typed'
    BY <1>1, <1>2, <1>3, <1>4 DEF Typed
<1>6. ActionInv'
    BY <1>1, <1>2 DEF ActionInv, Latched
<1>7. CloseInv'
    BY <1>1 DEF CloseInv, Ready
<1>8. RetryInv'
    BY <1>1, <1>2 DEF RetryInv, Ready
<1> QED
    BY <1>5, <1>6, <1>7, <1>8

LEMMA TurnEndsStep == ASSUME IInv, TurnEnds PROVE IInv'
<1> USE DEF IInv
<1>1. UNCHANGED <<gate, rec, ads, act, life, queue, wk, runtime, closing, used>> /\ turn' = FALSE
    BY DEF TurnEnds
<1>2. view' \in Views
    BY DEF TurnEnds, Typed, Views
<1>3. Typed'
    BY <1>1, <1>2 DEF Typed
<1> QED
    BY <1>1, <1>3 DEF ActionInv, Latched, CloseInv, RetryInv, Ready

LEMMA ConnectionLostIs ==
    ASSUME Typed, ConnectionLost
    PROVE  /\ ads' \in AdapterTables
           /\ \A b \in Adapters : ads'[b] = ads[b] \/ (ads[b].st = "ready" /\ ads'[b].st # "ready" /\ ads'[b].loss)
           /\ runtime' \in Nat /\ turn' \in BOOLEAN /\ (turn' => runtime' # 0 /\ turn)
           /\ used' \in Budgets /\ used'.requests = used.requests
<1>1. PICK S \in SUBSET {b \in Adapters : ads[b].st = "ready"} : ads' = Dropped(ads, S)
    BY DEF ConnectionLost, Ready
<1>2. ads' \in AdapterTables
    BY <1>1, DroppedIs DEF Typed
<1>3. \A b \in Adapters : ads'[b] = ads[b] \/ (ads[b].st = "ready" /\ ads'[b].st # "ready" /\ ads'[b].loss)
    BY <1>1 DEF Dropped
<1>4. used' \in Budgets /\ used'.requests = used.requests
    <2> DEFINE n == used.losses + 1
    <2>1. n \in Nat /\ used' = [used EXCEPT !.losses = n]
        BY DEF ConnectionLost, Typed, Budgets
    <2> HIDE DEF n
    <2> QED
        BY <2>1 DEF Typed, Budgets
<1>5. runtime' \in Nat /\ turn' \in BOOLEAN /\ (turn' => runtime' # 0 /\ turn)
    <2>1. (runtime' = runtime /\ turn' = turn) \/ (runtime' = 0 /\ turn' = FALSE)
        BY DEF ConnectionLost
    <2>2. CASE runtime' = runtime /\ turn' = turn
        BY <2>2 DEF Typed
    <2>3. CASE runtime' = 0 /\ turn' = FALSE
        BY <2>3
    <2> QED
        BY <2>1, <2>2, <2>3
<1> QED
    BY <1>2, <1>3, <1>4, <1>5

LEMMA ConnectionLostStep == ASSUME IInv, ConnectionLost PROVE IInv'
<1> USE DEF IInv
<1>1. /\ ads' \in AdapterTables
      /\ \A b \in Adapters : ads'[b] = ads[b] \/ (ads[b].st = "ready" /\ ads'[b].st # "ready" /\ ads'[b].loss)
      /\ runtime' \in Nat /\ turn' \in BOOLEAN /\ (turn' => runtime' # 0)
      /\ used' \in Budgets /\ used'.requests = used.requests
    BY ConnectionLostIs
<1>2. UNCHANGED <<gate, rec, act, life, queue, wk, view, closing>>
    BY DEF ConnectionLost
<1>3. rec.ep \in Slots /\ act.ad \in Slots
    BY DEF Typed, Records, Activations
<1>4. Ready(rec.ep)' => Ready(rec.ep)
    BY <1>1, <1>2, <1>3 DEF Ready, Slots
<1>5. Typed'
    BY <1>1, <1>2 DEF Typed, Budgets
<1>6. ActionInv'
    BY <1>2 DEF ActionInv, Latched
<1>7. CloseInv'
    BY <1>2, <1>4 DEF CloseInv
<1>8. RetryInv'
    <2>1. rec.gen > 0 => rec.ep \in Adapters
        BY <1>3 DEF RetryInv, Slots
    <2>2. ~Ready(rec.ep)' /\ Ready(rec.ep) => ads'[rec.ep].loss
        BY <1>1, <1>2, <1>3 DEF Ready, Slots
    <2>3. rec.gen > 0 /\ ~Ready(rec.ep) => ads'[rec.ep] = ads[rec.ep]
        BY <1>1, <2>1, Constants DEF Ready
    <2>4. act.ad # None /\ ads[act.ad].st = "starting" => ads'[act.ad] = ads[act.ad]
        BY <1>1, <1>3 DEF Slots
    <2> QED
        BY <1>1, <1>2, <1>4, <2>1, <2>2, <2>3, <2>4 DEF RetryInv
<1> QED
    BY <1>5, <1>6, <1>7, <1>8

LEMMA LossReportedIs ==
    ASSUME Typed, NEW a \in Adapters, LossReported(a)
    PROVE  /\ ads' \in AdapterTables
           /\ \A b \in Adapters : ads'[b].st = ads[b].st /\ ads'[b].starter = ads[b].starter
           /\ \A b \in Adapters \ {a} : ads'[b] = ads[b]
BY DEF LossReported, Typed, AdapterTables, AdapterRows

LEMMA LossReportedStep == ASSUME IInv, NEW a \in Adapters, LossReported(a) PROVE IInv'
<1> USE DEF IInv
<1>1. /\ ads' \in AdapterTables
      /\ \A b \in Adapters : ads'[b].st = ads[b].st /\ ads'[b].starter = ads[b].starter
      /\ \A b \in Adapters \ {a} : ads'[b] = ads[b]
    BY LossReportedIs
<1>2. UNCHANGED <<gate, act, life, queue, wk, runtime, turn, closing, used>>
    BY DEF LossReported
<1>3. /\ rec' \in Records /\ Same(rec', rec) /\ Timely(rec') /\ (Armed(rec) => Armed(rec'))
      /\ closing # "no" => rec' = rec
      /\ a = rec.ep /\ rec.gen > 0 /\ closing = "no" /\ gate.state = "automatic" => Armed(rec')
    BY ScheduleIs DEF LossReported, Typed, RetryInv, Timely, Same
<1>4. view' \in Views
    BY DEF LossReported, Typed, Views
<1>5. rec.ep \in Slots /\ act.ad \in Slots
    BY DEF Typed, Records, Activations
<1>6. Ready(rec.ep)' <=> Ready(rec.ep)
    BY <1>1, <1>3, <1>5 DEF Ready, Slots, Same
<1>7. Typed'
    BY <1>1, <1>2, <1>3, <1>4 DEF Typed
<1>8. ActionInv'
    BY <1>2 DEF ActionInv, Latched
<1>9. CloseInv'
    BY <1>2, <1>3, <1>6 DEF CloseInv
<1>10. RetryInv'
    <2>1. rec.gen > 0 => rec.ep \in Adapters
        BY <1>5 DEF RetryInv, Slots
    <2>2. act.ad # None => ads'[act.ad].st = ads[act.ad].st /\ ads'[act.ad].starter = ads[act.ad].starter
        BY <1>1, <1>5 DEF Slots
    <2>3. rec.gen > 0 /\ rec.ep # a => ads'[rec.ep] = ads[rec.ep]
        BY <1>1, <2>1
    <2>4. /\ rec'.timer # NoTimer => rec'.timer.gen = rec'.gen
          /\ rec'.gen > 0 => rec'.ep # None
          /\ Builtin => rec'.ep = 1 /\ act.ad \in {None, 1}
          /\ act.pc \in {"none", "prepare"} => act.ad = None
        BY <1>3 DEF RetryInv, Timely, Same
    <2> QED
        BY <1>1, <1>2, <1>3, <1>6, <2>2, <2>3, <2>4 DEF RetryInv, Same, Armed
<1> QED
    BY <1>7, <1>8, <1>9, <1>10

LEMMA RecoveredStep == ASSUME IInv, Recovered PROVE IInv'
<1> USE DEF IInv
<1>1. UNCHANGED <<gate, ads, act, life, queue, wk, runtime, turn, closing, used>> /\ Ready(rec.ep) /\ closing = "no"
    BY DEF Recovered
<1>2. rec' \in Records /\ Same(rec', rec) /\ rec'.timer = rec.timer
    <2>1. 0 \in 0 .. MaxReconnect
        BY Constants
    <2> QED
        BY <2>1 DEF Recovered, Typed, Records, Same
<1>3. view' \in Views
    BY DEF Recovered, Typed, Views
<1>4. Ready(rec.ep)'
    BY <1>1, <1>2 DEF Ready, Same
<1>5. Typed'
    BY <1>1, <1>2, <1>3 DEF Typed
<1>6. ActionInv'
    BY <1>1 DEF ActionInv, Latched
<1>7. CloseInv'
    BY <1>1 DEF CloseInv
<1>8. RetryInv'
    BY <1>1, <1>2, <1>4 DEF RetryInv, Same
<1> QED
    BY <1>5, <1>6, <1>7, <1>8

-----------------------------------------------------------------------------
(* The lifecycle actions.                                                  *)

LEMMA RequestStep == ASSUME IInv, NEW q \in Requests, Request(q) PROVE IInv'
<1> USE DEF IInv
<1>1. UNCHANGED <<rec, ads, act, life, wk, runtime, turn, view, closing>> /\ closing = "no"
    BY DEF Request
<1>2. /\ gate' \in Gates /\ Latched(gate') /\ gate'.state = gate.state /\ gate'.gen = gate.gen
      /\ gate.drain = "granted" => gate'.drain = "granted"
    BY DiscardIs DEF Request, Typed, ActionInv
<1>3. queue' \in Seq(Requests)
    BY DEF Request, Typed
<1>4. used' \in Budgets /\ used'.requests # 0
    <2> DEFINE n == used.requests + 1
    <2>1. n \in Nat /\ n # 0 /\ used' = [used EXCEPT !.requests = n]
        BY DEF Request, Typed, Budgets
    <2> HIDE DEF n
    <2> QED
        BY <2>1 DEF Typed, Budgets
<1>5. Typed'
    BY <1>1, <1>2, <1>3, <1>4 DEF Typed, Budgets
<1>6. ActionInv'
    BY <1>1, <1>2 DEF ActionInv, Latched
<1>7. CloseInv'
    BY <1>1 DEF CloseInv, Ready
<1>8. RetryInv'
    BY <1>1, <1>4 DEF RetryInv
<1> QED
    BY <1>5, <1>6, <1>7, <1>8

LEMMA NoActionIs == NoAction \in Lives /\ NoAction.pc = "none" /\ ~NoAction.proof /\ ~NoAction.force
                    /\ NoAction.prep = None /\ NoAction.target = None /\ NoAction.repl = None
                    /\ ~NoAction.stopped
BY DEF NoAction, Lives, Slots

LEMMA FinishIs ==
    ASSUME NEW r \in Records, NEW error, Finish(r, error)
    PROVE  rec' \in Records /\ Same(rec', r) /\ rec'.timer = r.timer /\ life' = NoAction
BY PauseIs DEF Finish, Same

\* What the catch of an action leaves behind, with the adapters s.
LEMMA LifeFailedIs ==
    ASSUME IInv, NEW s \in AdapterTables, NEW error, LifeFailed(s, error),
           life.pc \notin {"none", "prepare"}
    PROVE  /\ ads' \in AdapterTables /\ view' \in Views /\ rec' \in Records /\ life' = NoAction
           /\ gate' \in Gates /\ Latched(gate') /\ gate'.state = "automatic" /\ gate'.live = gate.live
           /\ \A a \in Adapters : ads'[a] = s[a] \/ ads'[a] = NewAdapter
           /\ \/ Same(rec', rec) /\ rec'.timer = rec.timer /\ view' = view
                 /\ ~(~life.cold /\ ~life.stopped /\ life.proof /\ ads'[life.target].st = "ready")
              \/ rec'.ep = life.target /\ life.target # None /\ rec'.gen = rec.gen + 1 /\ rec'.timer = NoTimer
                 /\ view' = Registered(rec') /\ life.proof /\ ads'[life.target].st = "ready"
<1> USE DEF IInv
<1> DEFINE useless == {a \in Adapters :
                         \/ life.cold /\ a = life.repl
                         \/ ~life.cold /\ life.stopped /\ a = life.repl
                         \/ ~life.cold /\ ~life.stopped /\ a = life.prep /\ a # rec.ep
                         \/ /\ life.here /\ a = life.target /\ a # rec.ep
                            /\ IF life.kind = "restart" THEN a # life.repl ELSE ~life.stopped}
           s1 == [a \in Adapters |-> IF a \in useless THEN NewAdapter ELSE s[a]]
           keep == ~life.cold /\ ~life.stopped /\ life.proof /\ s1[life.target].st = "ready"
           r == IF keep THEN Publish(rec, life.target) ELSE rec
<1>1. /\ ads' = s1
      /\ gate' = Settle(gate, life.drain, "automatic")
      /\ Finish(r, error)
      /\ view' = IF keep THEN Registered(rec') ELSE view
    BY DEF LifeFailed
<1>2. s1 \in AdapterTables /\ \A a \in Adapters : s1[a] = s[a] \/ s1[a] = NewAdapter
    BY DEF AdapterTables, AdapterRows, NewAdapter
<1> HIDE DEF useless, s1
<1>3. life.target \in Slots /\ (keep => life.target # None)
    BY DEF Typed, Lives, ActionInv
<1>4. /\ r \in Records
      /\ ~keep => Same(r, rec) /\ r.timer = rec.timer
      /\ keep => r.ep = life.target /\ r.gen = rec.gen + 1 /\ r.timer = NoTimer
    BY <1>3, PublishIs DEF Typed, Same
<1> HIDE DEF r
<1>5. rec' \in Records /\ Same(rec', r) /\ rec'.timer = r.timer /\ life' = NoAction
    BY <1>1, <1>4, FinishIs
<1>6. view' \in Views
    BY <1>1, <1>5, RegisteredIs DEF Typed
<1>7. gate' \in Gates /\ Latched(gate') /\ gate'.state = "automatic" /\ gate'.live = gate.live
    BY <1>1, SettleIs DEF Typed, ActionInv
<1>8. CASE keep
    BY <1>1, <1>2, <1>3, <1>4, <1>5, <1>6, <1>7, <1>8 DEF Same
<1>9. CASE ~keep
    BY <1>1, <1>2, <1>3, <1>4, <1>5, <1>6, <1>7, <1>9 DEF Same
<1> QED
    BY <1>8, <1>9

LEMMA LifeFailedStep ==
    ASSUME IInv, NEW s \in AdapterTables, NEW error, LifeFailed(s, error),
           life.pc \notin {"none", "prepare"},
           runtime' \in Nat, turn' \in BOOLEAN, turn' => runtime' # 0,
           used' \in Budgets, used'.requests = used.requests,
           UNCHANGED <<act, queue, wk, closing>>
    PROVE  IInv'
<1> USE DEF IInv
<1>1. /\ ads' \in AdapterTables /\ view' \in Views /\ rec' \in Records /\ life' = NoAction
      /\ gate' \in Gates /\ Latched(gate') /\ gate'.state = "automatic"
    BY LifeFailedIs
<1>2. \/ Same(rec', rec) /\ rec'.timer = rec.timer
      \/ rec'.ep = life.target /\ life.target # None /\ rec'.timer = NoTimer
    BY LifeFailedIs
<1>3. Typed'
    BY <1>1, NoActionIs DEF Typed, Budgets
<1>4. ActionInv'
    BY <1>1, NoActionIs DEF ActionInv, Latched, Drained
<1>5. CloseInv'
    BY <1>2 DEF CloseInv
<1>6. RetryInv'
    BY <1>2 DEF RetryInv, ActionInv, Same
<1> QED
    BY <1>3, <1>4, <1>5, <1>6

LEMMA LifeBeginsStep == ASSUME IInv, LifeBegins PROVE IInv'
<1> USE DEF IInv
<1> DEFINE q == Head(queue)
           new == [NoAction EXCEPT !.kind = q.kind, !.force = q.force, !.gen = rec.gen]
<1>1. q \in Requests /\ queue' \in Seq(Requests) /\ queue # <<>> /\ life.pc = "none" /\ gate.state # "draining"
    BY DEF LifeBegins, Typed, ActionInv
<1>2. q.kind \in {"disconnect", "restart"} /\ q.force \in BOOLEAN /\ rec.gen \in Nat
    BY <1>1, Constants DEF Typed, Records
<1>3. UNCHANGED <<ads, act, wk, runtime, turn, view, closing, used>>
    BY DEF LifeBegins
<1>4. /\ gate' \in Gates /\ Latched(gate') /\ rec' \in Records /\ Same(rec', rec) /\ rec'.timer \in {rec.timer, NoTimer}
      /\ life' \in Lives /\ ~life'.proof /\ life'.prep = None /\ life'.target = None /\ life'.repl = None
      /\ life'.pc = "none" => life' = NoAction
      /\ \/ life'.pc \in {"none", "prepare"} /\ gate'.state # "draining"
         \/ life'.pc = "drain" /\ gate'.state = "draining" /\ gate'.gen = life'.drain
    <2>1. CASE q.kind = "disconnect" /\ gate.state = "disconnected"
        <3>1. UNCHANGED <<gate, rec, life>>
            BY <2>1 DEF LifeBegins
        <3> QED
            BY <1>1, <3>1, NoActionIs DEF Typed, ActionInv, Same
    <2>2. CASE q.kind = "disconnect" /\ gate.state # "disconnected"
        <3>1. rec' = CancelReconnect(rec) /\ gate' = BeginDrain(gate, q.force)
              /\ life' = [new EXCEPT !.pc = "drain", !.drain = gate'.gen]
            BY <2>2 DEF LifeBegins
        <3>2. gate' \in Gates /\ Latched(gate') /\ gate'.state = "draining" /\ gate'.gen \in Nat
            BY <1>1, <1>2, <3>1, BeginDrainIs DEF Typed, ActionInv, Gates
        <3>3. life' \in Lives /\ life'.pc = "drain" /\ life'.drain = gate'.gen /\ ~life'.proof
              /\ life'.prep = None /\ life'.target = None /\ life'.repl = None
            BY <1>2, <3>1, <3>2 DEF NoAction, Lives, Slots
        <3> QED
            BY <3>1, <3>2, <3>3, CancelIs DEF Typed
    <2>3. CASE q.kind = "restart"
        <3> DEFINE c == gate.state = "disconnected"
        <3>1. rec' = CancelReconnect(rec) /\ gate' = RequestAutomatic(gate)
              /\ life' = [new EXCEPT !.pc = "prepare", !.cold = c]
            BY <2>3 DEF LifeBegins
        <3>2. gate' \in Gates /\ Latched(gate') /\ gate'.state = "automatic"
            BY <1>1, <3>1, RequestAutomaticIs DEF Typed, ActionInv
        <3>3. c \in BOOLEAN
            OBVIOUS
        <3> HIDE DEF c
        <3>4. life' \in Lives /\ life'.pc = "prepare" /\ ~life'.proof
              /\ life'.prep = None /\ life'.target = None /\ life'.repl = None
            BY <1>2, <3>1, <3>3 DEF NoAction, Lives, Slots
        <3> QED
            BY <3>1, <3>2, <3>4, CancelIs DEF Typed
    <2> QED
        BY <1>2, <2>1, <2>2, <2>3
<1> HIDE DEF q, new
<1>5. Typed'
    BY <1>1, <1>3, <1>4 DEF Typed
<1>6. ActionInv'
    BY <1>4 DEF ActionInv, Latched, Drained
<1>7. CloseInv'
    BY <1>1, <1>3, <1>4 DEF CloseInv
<1>8. RetryInv'
    BY <1>1, <1>3, <1>4 DEF RetryInv, Same
<1> QED
    BY <1>5, <1>6, <1>7, <1>8

\* A step of an action whose drain was granted.
LEMMA LifeGoesOn ==
    ASSUME IInv, life.pc \notin {"none", "prepare"}, gate.drain = "granted",
           UNCHANGED <<gate, rec, act, queue, wk, view, closing>>,
           ads' \in AdapterTables, life' \in Lives, life'.pc \in Drained, life'.drain = life.drain,
           life'.pc = "proving" \/ life'.proof => life'.target # None,
           Builtin => {life'.prep, life'.target, life'.repl} \subseteq {None, 1},
           runtime' \in Nat, turn' \in BOOLEAN, turn' => runtime' # 0,
           used' \in Budgets, used'.requests = used.requests
    PROVE  IInv'
<1> USE DEF IInv
<1>1. Typed'
    BY DEF Typed, Budgets
<1>2. life'.pc \notin {"none", "prepare"}
    BY DEF Drained
<1>3. ActionInv'
    BY <1>2 DEF ActionInv, Latched
<1>4. CloseInv'
    BY DEF CloseInv
<1>5. RetryInv'
    BY DEF RetryInv
<1> QED
    BY <1>1, <1>3, <1>4, <1>5

LEMMA LifePreparedStep == ASSUME IInv, LifePrepared PROVE IInv'
<1> USE DEF IInv
<1> DEFINE d == gate'.gen
<1>1. PICK a \in Candidates : /\ gate' = BeginDrain(gate, life.force)
                              /\ life' = [life EXCEPT !.pc = "drain", !.prep = a, !.drain = d]
    BY DEF LifePrepared
<1>2. UNCHANGED <<rec, ads, act, queue, wk, runtime, turn, view, closing, used>> /\ life.pc = "prepare"
    BY DEF LifePrepared
<1>3. gate' \in Gates /\ Latched(gate') /\ gate'.state = "draining" /\ d \in Nat
    <2>1. life.force \in BOOLEAN
        BY DEF Typed, Lives
    <2> QED
        BY <1>1, <1>2, <2>1, BeginDrainIs DEF Typed, ActionInv, Gates
<1>4. d = gate'.gen
    OBVIOUS
<1> HIDE DEF d
<1>5. a \in Slots /\ (Builtin => a = 1)
    BY CandidatesAre DEF Slots
<1>6. /\ life' \in Lives /\ life'.pc = "drain" /\ life'.drain = d /\ life'.prep = a
      /\ life'.target = life.target /\ life'.repl = life.repl /\ life'.proof = life.proof
    BY <1>1, <1>3, <1>5 DEF Typed, Lives
<1>7. Typed'
    BY <1>2, <1>3, <1>6 DEF Typed
<1>8. ActionInv'
    BY <1>3, <1>4, <1>5, <1>6 DEF ActionInv, Latched, Drained
<1>9. CloseInv'
    BY <1>2 DEF CloseInv
<1>10. RetryInv'
    BY <1>2 DEF RetryInv, Ready
<1> QED
    BY <1>7, <1>8, <1>9, <1>10

LEMMA LifeUnpreparedStep == ASSUME IInv, LifeUnprepared PROVE IInv'
<1> USE DEF IInv
<1>1. PICK error : Fails(error) /\ Finish(rec, error)
    BY DEF LifeUnprepared
<1>2. UNCHANGED <<gate, ads, act, queue, wk, runtime, turn, view, closing>> /\ life.pc = "prepare"
    BY DEF LifeUnprepared
<1>3. rec' \in Records /\ Same(rec', rec) /\ rec'.timer = rec.timer /\ life' = NoAction
    BY <1>1, FinishIs DEF Typed
<1>4. used' \in Budgets /\ used'.requests = used.requests
    BY <1>1, FailsIs
<1>5. Typed'
    BY <1>2, <1>3, <1>4, NoActionIs DEF Typed, Budgets
<1>6. ActionInv'
    BY <1>2, <1>3, NoActionIs DEF ActionInv, Latched, Drained
<1>7. CloseInv'
    BY <1>2, <1>3 DEF CloseInv
<1>8. RetryInv'
    BY <1>2, <1>3, <1>4 DEF RetryInv, Ready, Same
<1> QED
    BY <1>5, <1>6, <1>7, <1>8

LEMMA LifeTargetsStep == ASSUME IInv, LifeTargets PROVE IInv'
<1> USE DEF IInv
<1>1. life.pc = "drain" /\ gate.drain = "granted" /\ UNCHANGED <<gate, rec, act, queue, wk, runtime, turn, view, closing>>
    BY DEF LifeTargets
<1>2. used' \in Budgets /\ used'.requests = used.requests
    <2>1. used' = used \/ Fails("plain")
        BY DEF LifeTargets, IdentityRead
    <2> QED
        BY <2>1, FailsIs DEF Typed, Budgets
<1>3. ads' \in AdapterTables
    <2>1. ads' = ads \/ \E a : ads' = StartBegun(ads, a, "life")
        BY DEF LifeTargets
    <2> QED
        BY <2>1, StartBegunIs DEF Typed
<1> DEFINE Good == /\ life' \in Lives /\ life'.pc \in Drained /\ life'.drain = life.drain
                   /\ life'.pc = "proving" \/ life'.proof => life'.target # None
                   /\ Builtin => {life'.prep, life'.target, life'.repl} \subseteq {None, 1}
<1>4. Good
    <2>1. CASE life' = [life EXCEPT !.pc = "starting"]
        BY <2>1 DEF Typed, ActionInv, Lives, Drained
    <2>2. ASSUME NEW x \in {0, runtime}, NEW a \in IF rec.ep = None THEN Candidates ELSE {rec.ep},
                 \/ life' = [life EXCEPT !.pc = "idle", !.target = a, !.ident = x, !.here = (rec.ep = None)]
                 \/ life' = [life EXCEPT !.pc = "proving", !.target = a]
          PROVE  Good
        <3> DEFINE h == rec.ep = None
        <3>1. a \in Slots /\ a # None /\ (Builtin => a = 1) /\ x \in Nat
            BY CandidatesAre, Constants DEF Typed, Records, RetryInv, Slots
        <3>2. h \in BOOLEAN
            OBVIOUS
        <3>3. \/ life' = [life EXCEPT !.pc = "idle", !.target = a, !.ident = x, !.here = h]
              \/ life' = [life EXCEPT !.pc = "proving", !.target = a]
            BY <2>2
        <3> HIDE DEF h
        <3>4. CASE life' = [life EXCEPT !.pc = "idle", !.target = a, !.ident = x, !.here = h]
            BY <3>1, <3>2, <3>4 DEF Typed, ActionInv, Lives, Drained
        <3>5. CASE life' = [life EXCEPT !.pc = "proving", !.target = a]
            BY <3>1, <3>5 DEF Typed, ActionInv, Lives, Drained
        <3> QED
            BY <3>3, <3>4, <3>5
    <2>3. ASSUME NEW x \in {0, runtime}, Ready(rec.ep),
                 life' = [life EXCEPT !.pc = "idle", !.target = rec.ep, !.ident = x]
          PROVE  Good
        <3>1. rec.ep \in Slots /\ rec.ep # None /\ (Builtin => rec.ep = 1) /\ x \in Nat
            BY <2>3 DEF Typed, Records, RetryInv, Ready
        <3> QED
            BY <2>3, <3>1 DEF Typed, ActionInv, Lives, Drained
    <2> QED
        BY <2>1, <2>2, <2>3 DEF LifeTargets
<1> QED
    BY <1>1, <1>2, <1>3, <1>4, LifeGoesOn DEF Typed

LEMMA LifeProvenStep == ASSUME IInv, LifeProven PROVE IInv'
<1> USE DEF IInv
<1>1. life.pc = "proving" /\ gate.drain = "granted" /\ UNCHANGED <<gate, rec, act, queue, wk, turn, view, closing>>
    BY DEF LifeProven, ActionInv, Drained
<1>2. /\ runtime' \in Nat \ {0} /\ used' \in Budgets /\ used'.requests = used.requests
    BY RuntimeFoundIs DEF LifeProven
<1>3. ads' \in AdapterTables
    BY StartedIs DEF LifeProven, Typed
<1>4. life' \in Lives /\ life'.pc = "idle" /\ life'.drain = life.drain /\ life'.target = life.target
      /\ life'.prep = life.prep /\ life'.repl = life.repl
    BY <1>2 DEF LifeProven, Typed, Lives, Drained
<1> QED
    BY <1>1, <1>2, <1>3, <1>4, LifeGoesOn DEF Typed, ActionInv, Drained

LEMMA LifeUnprovenStep == ASSUME IInv, LifeUnproven PROVE IInv'
<1> USE DEF IInv
<1>1. life.pc = "proving" /\ UNCHANGED <<act, queue, wk, runtime, turn, closing>>
    BY DEF LifeUnproven
<1>2. PICK error : /\ Fails(error) \/ UNCHANGED used
                   /\ LifeFailed(Closed(ads, life.target), error)
    BY DEF LifeUnproven
<1>3. used' \in Budgets /\ used'.requests = used.requests
    BY <1>2, FailsIs DEF Typed, Budgets
<1>4. Closed(ads, life.target) \in AdapterTables
    BY ClosedIs DEF Typed, Lives
<1> QED
    BY <1>1, <1>2, <1>3, <1>4, LifeFailedStep DEF Typed

LEMMA LifeStopsStep == ASSUME IInv, LifeStops PROVE IInv'
<1> USE DEF IInv
<1>1. life.pc = "idle" /\ gate.drain = "granted"
      /\ UNCHANGED <<gate, rec, act, queue, wk, runtime, turn, view, closing, used>>
    BY DEF LifeStops, ActionInv, Drained
<1>2. ads' \in AdapterTables
    BY ClosedIs DEF LifeStops, Typed, Lives, Drained
<1>3. /\ life' \in Lives /\ life'.pc = "stopping" /\ life'.drain = life.drain /\ life'.target = life.target
      /\ life'.prep = life.prep /\ life'.repl = life.repl /\ life'.proof = life.proof
    BY DEF LifeStops, Typed, Lives, Drained
<1> QED
    BY <1>1, <1>2, <1>3, LifeGoesOn DEF Typed, Budgets, ActionInv, Drained

LEMMA LifeRefusedStep == ASSUME IInv, LifeRefused PROVE IInv'
<1> USE DEF IInv
<1>1. life.pc = "idle" /\ UNCHANGED <<act, queue, wk, runtime, turn, closing>>
    BY DEF LifeRefused
<1>2. LifeFailed(ads, "plain") /\ (Fails("plain") \/ UNCHANGED used)
    BY DEF LifeRefused, LifeFailsPlainly
<1>3. used' \in Budgets /\ used'.requests = used.requests
    BY <1>2, FailsIs DEF Typed, Budgets
<1> QED
    BY <1>1, <1>2, <1>3, LifeFailedStep DEF Typed

LEMMA LifeStoppedStep == ASSUME IInv, LifeStopped PROVE IInv'
<1> USE DEF IInv
<1>1. life.pc = "stopping" /\ gate.drain = "granted" /\ runtime' = 0 /\ turn' = FALSE
      /\ UNCHANGED <<gate, rec, act, queue, wk, view, closing, used>>
    BY DEF LifeStopped, ActionInv, Drained
<1>2. ads' \in AdapterTables
    BY DroppedIs DEF LifeStopped, Typed
<1>3. /\ life' \in Lives /\ life'.pc = "stopped" /\ life'.drain = life.drain /\ life'.target = life.target
      /\ life'.prep = life.prep /\ life'.repl = life.repl /\ life'.proof = life.proof
    BY DEF LifeStopped, Typed, Lives, Drained
<1> QED
    BY <1>1, <1>2, <1>3, LifeGoesOn DEF Typed, Budgets, ActionInv, Drained

LEMMA LifeUnstoppedStep == ASSUME IInv, LifeUnstopped PROVE IInv'
<1> USE DEF IInv
<1>1. life.pc = "stopping" /\ UNCHANGED <<act, queue, wk, closing>>
    BY DEF LifeUnstopped
<1>2. LifeFailed(ads, "plain") /\ (Fails("plain") \/ UNCHANGED used)
    BY DEF LifeUnstopped, LifeFailsPlainly
<1>3. used' \in Budgets /\ used'.requests = used.requests
    BY <1>2, FailsIs DEF Typed, Budgets
<1>4. (runtime' = runtime /\ turn' = turn) \/ (runtime' = 0 /\ turn' = FALSE)
    BY DEF LifeUnstopped
<1>5. CASE runtime' = runtime /\ turn' = turn
    BY <1>1, <1>2, <1>3, <1>5, LifeFailedStep DEF Typed
<1>6. CASE runtime' = 0 /\ turn' = FALSE
    BY <1>1, <1>2, <1>3, <1>6, LifeFailedStep DEF Typed
<1> QED
    BY <1>4, <1>5, <1>6

LEMMA LifeContinuesStep == ASSUME IInv, LifeContinues PROVE IInv'
<1> USE DEF IInv
<1>1. life.pc = "stopped" /\ gate.drain = "granted"
      /\ UNCHANGED <<act, queue, wk, runtime, turn, view, closing, used>>
    BY DEF LifeContinues, ActionInv, Drained
<1>2. CASE life.kind = "disconnect"
    <2>1. gate' = Settle(gate, life.drain, "disconnected") /\ Finish(rec, "none") /\ ads' = ads
        BY <1>2 DEF LifeContinues
    <2>2. gate' \in Gates /\ Latched(gate') /\ gate'.state = "disconnected"
        BY <1>1, <2>1, SettleIs DEF Typed, ActionInv
    <2>3. rec' \in Records /\ Same(rec', rec) /\ rec'.timer = rec.timer /\ life' = NoAction
        BY <2>1, FinishIs DEF Typed
    <2>4. Typed'
        BY <1>1, <2>1, <2>2, <2>3, NoActionIs DEF Typed
    <2>5. ActionInv'
        BY <2>2, <2>3, NoActionIs DEF ActionInv, Latched, Drained
    <2>6. CloseInv'
        BY <1>1, <2>3 DEF CloseInv
    <2>7. RetryInv'
        BY <1>1, <2>3 DEF RetryInv, Same
    <2> QED
        BY <2>4, <2>5, <2>6, <2>7
<1>3. CASE life.kind # "disconnect"
    <2>1. ads' = StartBegun(ads, life.prep, "life") /\ life' = [life EXCEPT !.pc = "starting"]
          /\ UNCHANGED <<gate, rec>>
        BY <1>3 DEF LifeContinues
    <2>2. ads' \in AdapterTables
        BY <2>1, StartBegunIs DEF Typed
    <2>3. /\ life' \in Lives /\ life'.pc = "starting" /\ life'.drain = life.drain /\ life'.target = life.target
          /\ life'.prep = life.prep /\ life'.repl = life.repl /\ life'.proof = life.proof
        BY <2>1 DEF Typed, Lives, Drained
    <2> QED
        BY <1>1, <2>1, <2>2, <2>3, LifeGoesOn DEF Typed, Budgets, ActionInv, Drained
<1> QED
    BY <1>2, <1>3

LEMMA LifeUncheckpointedStep == ASSUME IInv, LifeUncheckpointed PROVE IInv'
<1> USE DEF IInv
<1>1. life.pc \notin {"none", "prepare"} /\ UNCHANGED <<act, queue, wk, runtime, turn, closing>>
    BY DEF LifeUncheckpointed
<1>2. LifeFailed(ads, "plain") /\ Fails("plain")
    BY DEF LifeUncheckpointed, LifeFailsPlainly
<1>3. used' \in Budgets /\ used'.requests = used.requests
    BY <1>2, FailsIs DEF Typed
<1> QED
    BY <1>1, <1>2, <1>3, LifeFailedStep DEF Typed

LEMMA LifeStartedStep == ASSUME IInv, LifeStarted PROVE IInv'
<1> USE DEF IInv
<1>1. life.pc = "starting" /\ gate.drain = "granted" /\ UNCHANGED <<gate, rec, act, queue, wk, turn, view, closing>>
    BY DEF LifeStarted, ActionInv, Drained
<1>2. /\ runtime' \in Nat \ {0} /\ used' \in Budgets /\ used'.requests = used.requests
    BY RuntimeFoundIs DEF LifeStarted
<1>3. ads' \in AdapterTables
    BY StartedIs DEF LifeStarted, Typed
<1>4. /\ life' \in Lives /\ life'.pc = "started" /\ life'.drain = life.drain /\ life'.target = life.target
      /\ life'.prep = life.prep /\ life'.repl = life.prep /\ life'.proof = life.proof
    BY DEF LifeStarted, Typed, Lives, Drained
<1> QED
    BY <1>1, <1>2, <1>3, <1>4, LifeGoesOn DEF Typed, ActionInv, Drained

LEMMA LifeUnstartedStep == ASSUME IInv, LifeUnstarted PROVE IInv'
<1> USE DEF IInv
<1>1. life.pc = "starting" /\ UNCHANGED <<act, queue, wk, runtime, turn, closing>>
    BY DEF LifeUnstarted
<1>2. PICK error : /\ Fails(error) \/ UNCHANGED used
                   /\ LifeFailed(Closed(ads, life.prep), error)
    BY DEF LifeUnstarted
<1>3. used' \in Budgets /\ used'.requests = used.requests
    BY <1>2, FailsIs DEF Typed, Budgets
<1>4. Closed(ads, life.prep) \in AdapterTables
    BY ClosedIs DEF Typed, Lives
<1> QED
    BY <1>1, <1>2, <1>3, <1>4, LifeFailedStep DEF Typed

LEMMA LifePublishesStep == ASSUME IInv, LifePublishes PROVE IInv'
<1> USE DEF IInv
<1>1. life.pc = "started" /\ UNCHANGED <<act, queue, wk, runtime, turn, closing, used>>
    BY DEF LifePublishes
<1>2. CASE Ready(life.repl) /\ (life.ident = 0 \/ life.ident # runtime)
    <2>1. /\ gate' = Settle(gate, life.drain, "automatic") /\ Finish(Publish(rec, life.repl), "none")
          /\ view' = Registered(rec') /\ ads' = ads
        BY <1>2 DEF LifePublishes
    <2>2. gate' \in Gates /\ Latched(gate') /\ gate'.state = "automatic"
        BY <1>1, <2>1, SettleIs DEF Typed, ActionInv
    <2>3. life.repl \in Slots /\ life.repl # None /\ (Builtin => life.repl = 1)
        BY <1>2 DEF Typed, Lives, Ready, ActionInv
    <2>4. /\ rec' \in Records /\ rec'.ep = life.repl /\ rec'.timer = NoTimer /\ life' = NoAction
        BY <2>1, <2>3, PublishIs, FinishIs DEF Typed, Same
    <2>5. view' \in Views
        BY <2>1, <2>4, RegisteredIs
    <2>6. Typed'
        BY <1>1, <2>1, <2>2, <2>4, <2>5, NoActionIs DEF Typed
    <2>7. ActionInv'
        BY <2>2, <2>4, NoActionIs DEF ActionInv, Latched, Drained
    <2>8. CloseInv'
        BY <1>1, <2>4 DEF CloseInv
    <2>9. RetryInv'
        BY <1>1, <2>3, <2>4 DEF RetryInv
    <2> QED
        BY <2>6, <2>7, <2>8, <2>9
<1>3. CASE ~(Ready(life.repl) /\ (life.ident = 0 \/ life.ident # runtime))
    <2>1. LifeFailed(ads, "plain")
        BY <1>3 DEF LifePublishes
    <2> QED
        BY <1>1, <2>1, LifeFailedStep DEF Typed, Budgets
<1> QED
    BY <1>2, <1>3

-----------------------------------------------------------------------------
(* The end of the connections.                                             *)

LEMMA CloseBeginsStep == ASSUME IInv, CloseBegins PROVE IInv'
<1> USE DEF IInv
<1>1. UNCHANGED <<gate, ads, act, life, queue, wk, runtime, turn, view, used>> /\ closing' = "waiting"
    BY DEF CloseBegins
<1>2. rec' \in Records /\ Same(rec', rec) /\ rec'.timer = NoTimer
    BY CancelIs DEF CloseBegins, Typed
<1>3. Typed'
    BY <1>1, <1>2 DEF Typed
<1>4. ActionInv'
    BY <1>1 DEF ActionInv, Latched
<1>5. CloseInv'
    BY <1>1, <1>2 DEF CloseInv
<1>6. RetryInv'
    BY <1>1, <1>2 DEF RetryInv, Ready, Same
<1> QED
    BY <1>3, <1>4, <1>5, <1>6

LEMMA CloseEndsStep == ASSUME IInv, CloseEnds PROVE IInv'
<1> USE DEF IInv
<1>1. UNCHANGED <<gate, act, life, queue, wk, runtime, turn, view, used>> /\ closing' = "closed"
      /\ life.pc = "none" /\ queue = <<>> /\ act.pc = "none"
    BY DEF CloseEnds
<1>2. rec' \in Records /\ Same(rec', rec) /\ rec'.timer = NoTimer
    BY CancelIs DEF CloseEnds, Typed
<1>3. rec.ep \in Slots
    BY DEF Typed, Records
<1>4. ads' \in AdapterTables /\ \A b \in Adapters : ads'[b] = IF b = rec.ep THEN NewAdapter ELSE ads[b]
    BY <1>3, ClosedIs DEF CloseEnds, Typed
<1>5. ~Ready(rec.ep)'
    BY <1>2, <1>3, <1>4 DEF Ready, Same, Slots, NewAdapter
<1>6. Typed'
    BY <1>1, <1>2, <1>4 DEF Typed
<1>7. ActionInv'
    BY <1>1 DEF ActionInv, Latched
<1>8. CloseInv'
    BY <1>1, <1>2, <1>5 DEF CloseInv
<1>9. RetryInv'
    BY <1>1, <1>2 DEF RetryInv, Same
<1> QED
    BY <1>6, <1>7, <1>8, <1>9

-----------------------------------------------------------------------------
LEMMA InitIInv == Init => IInv
<1> SUFFICES ASSUME Init PROVE IInv
    OBVIOUS
<1>1. Typed
    <2>1. rec \in Records
        BY Constants DEF Init, Records, Slots, Timers, NoTimer
    <2>2. gate \in Gates /\ ads \in AdapterTables
        BY DEF Init, Gates, OpenGate, States, AdapterTables, AdapterRows, NewAdapter
    <2>3. act \in Activations /\ life \in Lives /\ queue \in Seq(Requests)
        BY NoActionIs DEF Init, Activations, NoActivation, Slots
    <2>4. wk \in [Works -> WorkRows] /\ view \in Views
        BY DEF Init, WorkRows, NewWork, Slots, Views
    <2> QED
        BY <2>1, <2>2, <2>3, <2>4 DEF Init, Typed
<1>2. ActionInv
    BY NoActionIs DEF Init, ActionInv, Latched, OpenGate, Drained
<1>3. CloseInv
    BY DEF Init, CloseInv
<1>4. RetryInv
    BY DEF Init, RetryInv, NoTimer, NoActivation, NoAction, OpenGate
<1> QED
    BY <1>1, <1>2, <1>3, <1>4 DEF IInv

LEMMA NextIInv == IInv /\ [Next]_vars => IInv'
<1> SUFFICES ASSUME IInv, [Next]_vars PROVE IInv'
    OBVIOUS
<1>1. CASE Activation
    BY <1>1, ActPreparedStep, ActStartedStep, ActFailsStep, ActPublishedStep, ActLostStep, TimerFiresStep
       DEF Activation
<1>2. CASE Work
    BY <1>2, WorkAsksStep, WorkAdmittedStep, WorkStartsTurnStep, WorkEndsStep DEF Work
<1>3. CASE Host
    BY <1>3, TurnEndsStep, ConnectionLostStep, RecoveredStep, LossReportedStep DEF Host
<1>4. CASE Lifecycle
    BY <1>4, RequestStep, LifeBeginsStep, LifePreparedStep, LifeUnpreparedStep, LifeTargetsStep, LifeProvenStep,
       LifeUnprovenStep, LifeStopsStep, LifeRefusedStep, LifeStoppedStep, LifeUnstoppedStep, LifeContinuesStep,
       LifeUncheckpointedStep, LifeStartedStep, LifeUnstartedStep, LifePublishesStep, CloseBeginsStep, CloseEndsStep
       DEF Lifecycle
<1>5. CASE UNCHANGED vars
    BY <1>5 DEF vars, IInv, Typed, ActionInv, Latched, CloseInv, RetryInv, Ready
<1> QED
    BY <1>1, <1>2, <1>3, <1>4, <1>5 DEF Next

\* Whatever is asked for, lost, refused or closed (manager.ts): the record, the
\* gate, the actions and the activation have their types, a drained gate belongs
\* to the action that drained it, and timers and activations belong to the
\* publication they were made for.
THEOREM EndpointInvariant == Spec => []IInv
BY InitIInv, NextIInv, PTL DEF Spec

\* beginDrain and settle (admission-gate.ts:96): from its drain until it settles
\* it, a lifecycle action has the gate for itself, and nobody holds a lease.
THEOREM EndpointDrainHolds == Spec => []DrainHolds
<1>1. IInv => DrainHolds
    BY DEF IInv, ActionInv, Latched, Drained, DrainHolds
<1> QED
    BY <1>1, EndpointInvariant, PTL

\* closeConnections (manager.ts:624): what is closed arms no timer, activates
\* nothing and leaves no published adapter connected.
THEOREM EndpointClosedIsSilent == Spec => []ClosedIsSilent
<1>1. IInv => ClosedIsSilent
    BY DEF IInv, CloseInv, ClosedIsSilent
<1> QED
    BY <1>1, EndpointInvariant, PTL

\* scheduleReconnect and scheduleActivationRetry (manager.ts:845, :870): a
\* published endpoint whose loss was reported is being activated, has a timer,
\* has given up, or waits for a person, as long as no action was asked for.
THEOREM EndpointRetryOwed == Spec => []RetryOwed
<1>1. IInv => RetryOwed
    BY DEF IInv, RetryInv, RetryOwed
<1> QED
    BY <1>1, EndpointInvariant, PTL

-----------------------------------------------------------------------------
(* A running turn is spared: endpoints whose adapters are made anew, with  *)
(* no action that discards the work of others.                             *)

\* Every connection is an adapter of its own (createRemote), and no request
\* discards the work of others.
Plain == ~Builtin /\ \A q \in Requests : ~q.force

LEMMA NobodyHolds ==
    ASSUME IInv, SpareInv, gate.drain = "granted"
    PROVE  \A w \in Works : ~Holds(w)
BY DEF IInv, ActionInv, Latched, SpareInv, SpareWork

LEMMA WorkKept ==
    ASSUME Typed, SpareWork, Same(rec', rec) \/ (rec'.gen = rec.gen + 1),
           view'.gen <= rec'.gen, view'.gen = 0 => view'.st = "lost",
           \A w \in Works : Holds(w)' => wk'[w] = wk[w] /\ (w \in gate.live => w \in gate'.live)
    PROVE  SpareWork'
<1> SUFFICES ASSUME NEW w \in Works, Holds(w)'
             PROVE  w \in gate'.live /\ wk'[w].gen <= rec'.gen /\ (wk'[w].gen = rec'.gen => wk'[w].ep = rec'.ep)
    BY DEF SpareWork
<1>1. wk'[w] = wk[w] /\ Holds(w)
    BY DEF Holds
<1>2. w \in gate'.live /\ wk[w].gen <= rec.gen /\ (wk[w].gen = rec.gen => wk[w].ep = rec.ep)
    BY <1>1 DEF SpareWork
<1>3. rec.gen \in Nat /\ wk[w].gen \in Nat
    BY DEF Typed, Records, WorkRows
<1> QED
    BY <1>1, <1>2, <1>3 DEF Same

\* The action, the record and the turn stay; a connection may be lost.
LEMMA SpareQuiet ==
    ASSUME IInv, SpareInv, life' = life, Same(rec', rec), SpareWork',
           act'.ad \notin {None, act.ad} => act'.ad \notin {rec.ep, life.prep, life.target, life.repl},
           Ready(rec.ep)' => Ready(rec.ep),
           turn' \in BOOLEAN, turn' => turn, turn' => view' = view \/ view'.st # "idle",
           Seen' => Seen \/ gate.drain # "granted",
           \A w \in Works : wk[w].pc = "asked" => wk'[w] = wk[w]
    PROVE  SpareInv'
<1> USE DEF SpareInv
<1>1. SpareAdapters'
    BY DEF SpareAdapters, Same
<1>2. SpareAction'
    <2>1. life.pc \in {"proving", "idle"} \/ life.proof => gate.drain = "granted"
        BY DEF SpareAction, IInv, ActionInv, Drained
    <2>2. (life.pc \in {"proving", "idle"} \/ life.proof) /\ Seen' => life.target = rec.ep
        BY <2>1 DEF SpareAction
    <2> QED
        BY <2>2 DEF SpareAction, Same
<1>3. SpareTurn'
    <2>1. turn' /\ view' = Idle' => turn /\ view = Idle
        BY DEF Same, Idle
    <2>2. turn' /\ view' = Idle' => \/ ~Ready(rec.ep)' \/ life.proof
                                    \/ \E w \in Works : wk'[w].pc = "asked" /\ wk'[w].gen = rec'.gen
        <3>1. SUFFICES ASSUME turn', view' = Idle', ~(~Ready(rec.ep)' \/ life.proof)
                       PROVE  \E w \in Works : wk'[w].pc = "asked" /\ wk'[w].gen = rec'.gen
            OBVIOUS
        <3>2. PICK w \in Works : wk[w].pc = "asked" /\ wk[w].gen = rec.gen
            BY <2>1, <3>1 DEF SpareTurn
        <3> QED
            BY <3>2 DEF Same
    <2>3. life.stopped => ~turn'
        BY DEF SpareTurn
    <2>4. life.pc = "idle" /\ ~life.proof /\ view' = Idle' => ~turn'
        BY <2>1 DEF SpareTurn
    <2>5. life.pc = "stopping" /\ ~life.proof => ~turn'
        BY DEF SpareTurn
    <2> QED
        BY <2>2, <2>3, <2>4, <2>5 DEF SpareTurn
<1> QED
    BY <1>1, <1>2, <1>3

LEMMA ViewKept == ASSUME SpareInv PROVE view.gen <= rec.gen /\ (view.gen = 0 => view.st = "lost")
BY DEF SpareInv, SpareWork

LEMMA SpareWorkAsks == ASSUME IInv, SpareInv, NEW w \in Works, WorkAsks(w) PROVE SpareInv'
<1>1. UNCHANGED <<rec, ads, life, turn, view>> /\ wk[w].pc = "idle" /\ gate'.live = gate.live
    BY RequestAutomaticIs DEF WorkAsks, IInv, Typed, ActionInv
<1>2. act'.ad = act.ad
    <2>1. act \in Activations /\ rec.gen \in Nat
        BY DEF IInv, Typed, Records
    <2> QED
        BY <2>1, AskIs DEF WorkAsks
<1>3. \A x \in Works : Holds(x)' \/ wk[x].pc = "asked" => wk'[x] = wk[x]
    BY <1>1 DEF WorkAsks, IInv, Typed, WorkRows, Holds
<1>4. SpareWork'
    BY <1>1, <1>3, ViewKept, WorkKept DEF IInv, SpareInv, Same
<1> QED
    BY <1>1, <1>2, <1>3, <1>4, SpareQuiet DEF Ready, Same, Seen, IInv, Typed

LEMMA SpareActPrepared == ASSUME Plain, IInv, SpareInv, ActPrepared PROVE SpareInv'
<1> PICK a \in Candidates : act' = [act EXCEPT !.pc = "starting", !.ad = a] /\ ads' = StartBegun(ads, a, "act")
    BY DEF ActPrepared
<1>1. UNCHANGED <<gate, rec, life, wk, turn, view>>
    BY DEF ActPrepared
<1>2. act'.ad = a /\ a \notin {rec.ep, life.prep, life.target, life.repl}
    BY CandidatesAre DEF IInv, Typed, Activations, Plain, InUse
<1>3. Ready(rec.ep)' => Ready(rec.ep)
    BY <1>1, StartBegunIs DEF Ready, IInv, Typed, Records, Slots
<1>4. SpareWork'
    BY <1>1, ViewKept, WorkKept DEF IInv, SpareInv, Same
<1> QED
    BY <1>1, <1>2, <1>3, <1>4, SpareQuiet DEF Same, Seen, IInv, Typed

LEMMA SpareActStarted == ASSUME IInv, SpareInv, ActStarted PROVE SpareInv'
<1>1. UNCHANGED <<gate, rec, life, wk, turn, view>> /\ ads' = Started(ads, act.ad) /\ act'.ad = act.ad
    BY DEF ActStarted, IInv, Typed, Activations
<1>2. Ready(rec.ep)' => Ready(rec.ep)
    <2>1. rec.ep \in Slots /\ (rec.ep # None => rec.ep # act.ad)
        BY DEF SpareInv, SpareAdapters, IInv, Typed, Records
    <2> QED
        BY <1>1, <2>1, StartedIs DEF Ready, IInv, Typed, Slots
<1>3. SpareWork'
    BY <1>1, ViewKept, WorkKept DEF IInv, SpareInv, Same
<1> QED
    BY <1>1, <1>2, <1>3, SpareQuiet DEF Same, Seen, IInv, Typed

LEMMA SpareActEnds ==
    ASSUME IInv, SpareInv, ActFails \/ ActLost PROVE SpareInv'
<1>1. UNCHANGED <<gate, life, turn, view>> /\ ads' = Closed(ads, act.ad) /\ \E error : ActEnds(error)
    BY DEF ActFails, ActLost
<1>2. Same(rec', rec) /\ act' = NoActivation
    BY <1>1, ActivationFailedIs DEF ActEnds, IInv, Typed
<1>3. \A x \in Works : Holds(x)' \/ wk[x].pc = "asked" => wk'[x] = wk[x]
    BY <1>1 DEF ActEnds, Holds, Waiting, NewWork
<1>4. Ready(rec.ep)' => Ready(rec.ep)
    <2>1. rec.ep \in Slots /\ act.ad \in Slots
        BY DEF IInv, Typed, Records, Activations
    <2> QED
        BY <1>1, <1>2, <2>1, ClosedIs DEF Ready, Same, NewAdapter, IInv, Typed, Slots
<1>5. SpareWork'
    BY <1>1, <1>2, <1>3, ViewKept, WorkKept DEF IInv, SpareInv, Same
<1>6. act'.ad = None
    BY <1>2 DEF NoActivation
<1> QED
    BY <1>1, <1>2, <1>3, <1>4, <1>5, <1>6, SpareQuiet DEF Seen, Same, IInv, Typed

\* A publication registers the thread anew: nothing is seen in it yet.
LEMMA SpareActPublished == ASSUME IInv, SpareInv, ActPublished PROVE SpareInv'
<1> USE DEF SpareInv
<1>1. UNCHANGED <<gate, life, ads, turn>> /\ act.ad \in Slots /\ act.ad # None
    BY DEF ActPublished, IInv, Typed, Activations, Ready
<1>2. rec' \in Records /\ rec'.ep = act.ad /\ rec'.gen = rec.gen + 1 /\ view' = Registered(rec') /\ act' = NoActivation
    BY <1>1, PublishIs DEF ActPublished, IInv, Typed
<1>3. view'.gen = rec'.gen /\ view'.st = "unknown" /\ rec.gen \in Nat /\ act'.ad = None
    BY <1>2 DEF Registered, NoActivation, IInv, Typed, Records
<1>4. \A x \in Works : Holds(x)' => wk'[x] = wk[x]
    BY DEF ActPublished, Holds, Waiting
<1>5. SpareWork'
    BY <1>1, <1>2, <1>3, <1>4, WorkKept DEF IInv
<1>6. SpareAdapters'
    BY <1>1, <1>2, <1>3 DEF SpareAdapters
<1>7. ~Seen' /\ view' # Idle'
    BY <1>3 DEF Seen, Idle
<1>8. SpareAction'
    BY <1>1, <1>7 DEF SpareAction
<1>9. SpareTurn'
    BY <1>1, <1>7 DEF SpareTurn
<1> QED
    BY <1>5, <1>6, <1>8, <1>9

LEMMA SpareTimerFires == ASSUME IInv, SpareInv, TimerFires PROVE SpareInv'
<1>1. UNCHANGED <<gate, life, ads, wk, turn, view>> /\ Same(rec', rec)
    BY CancelIs DEF TimerFires, IInv, Typed
<1>2. act'.ad = act.ad
    BY AskIs DEF TimerFires, IInv, Typed, Records, Activations
<1>3. SpareWork'
    BY <1>1, ViewKept, WorkKept DEF IInv, SpareInv, Same
<1> QED
    BY <1>1, <1>2, <1>3, SpareQuiet DEF Same, Seen, Ready, IInv, Typed

LEMMA SpareWorkAdmitted == ASSUME IInv, SpareInv, NEW w \in Works, WorkAdmitted(w) PROVE SpareInv'
<1>1. UNCHANGED <<rec, ads, act, life, turn, view>> /\ wk[w].pc = "ready"
    BY DEF WorkAdmitted
<1>2. \A x \in Works \ {w} : wk'[x] = wk[x]
    BY DEF WorkAdmitted, IInv, Typed
<1>3. SpareWork'
    <2>1. CASE gate' = Acquire(gate, w) /\ rec.ep = wk[w].ep /\ CanAcquire(gate)
               /\ wk' = [wk EXCEPT ![w] = [@ EXCEPT !.pc = "running", !.gen = rec.gen]]
        <3>1. gate'.live = gate.live \cup {w}
            BY <2>1, AcquireIs DEF IInv, Typed, ActionInv
        <3>2. wk'[w].gen = rec.gen /\ wk'[w].ep = rec.ep /\ rec.gen \in Nat
            BY <2>1 DEF IInv, Typed, WorkRows, Records
        <3> QED
            BY <1>1, <1>2, <3>1, <3>2 DEF SpareInv, SpareWork, Holds
    <2>2. CASE gate' = gate /\ wk' = [wk EXCEPT ![w] = [NewWork EXCEPT !.pc = "done"]]
        <3>1. ~Holds(w)'
            BY <2>2 DEF Holds, NewWork, IInv, Typed
        <3> QED
            BY <1>1, <1>2, <2>2, <3>1 DEF SpareInv, SpareWork, Holds
    <2> QED
        BY <2>1, <2>2 DEF WorkAdmitted
<1>4. \A x \in Works : wk[x].pc = "asked" => wk'[x] = wk[x]
    BY <1>1, <1>2
<1> QED
    BY <1>1, <1>3, <1>4, SpareQuiet DEF Same, Seen, Ready, IInv, Typed

LEMMA SpareWorkStartsTurn == ASSUME IInv, SpareInv, NEW w \in Works, WorkStartsTurn(w) PROVE SpareInv'
<1> USE DEF SpareInv
<1>1. UNCHANGED <<gate, rec, ads, act, life, view>> /\ wk[w].pc = "running" /\ w \in gate.live /\ wk[w].gen = rec.gen
    BY DEF WorkStartsTurn, LeaseValid
<1>2. wk'[w].pc = "asked" /\ wk'[w].gen = rec.gen /\ wk'[w].ep = wk[w].ep /\ \A x \in Works \ {w} : wk'[x] = wk[x]
    BY <1>1 DEF WorkStartsTurn, IInv, Typed, WorkRows
<1>3. life.pc \notin Drained
    BY <1>1 DEF IInv, ActionInv, Latched
<1>4. SpareAdapters' /\ SpareAction'
    BY <1>1 DEF SpareAdapters, SpareAction, Seen
<1>5. SpareWork'
    <2>1. Holds(w)
        BY <1>1 DEF Holds
    <2> QED
        BY <1>1, <1>2, <2>1 DEF SpareWork, Holds
<1>6. SpareTurn'
    BY <1>1, <1>2, <1>3 DEF SpareTurn, SpareAction, Drained
<1> QED
    BY <1>4, <1>5, <1>6

LEMMA SpareWorkEnds == ASSUME IInv, SpareInv, NEW w \in Works, WorkEnds(w) PROVE SpareInv'
<1> USE DEF SpareInv
<1>1. UNCHANGED <<rec, ads, act, life, turn>> /\ Holds(w) /\ gate'.live = gate.live \ {w}
    BY ReleaseIs DEF WorkEnds, Holds, IInv, Typed, ActionInv
<1>2. ~Holds(w)' /\ \A x \in Works \ {w} : wk'[x] = wk[x]
    BY DEF WorkEnds, Holds, NewWork, IInv, Typed
<1>3. view'.gen = view.gen /\ (view' = view \/ (view.st # "lost" /\ view'.st = "active"))
    BY DEF WorkEnds, IInv, Typed, Views
<1>4. life.pc \notin Drained
    BY <1>1 DEF IInv, ActionInv, Latched, SpareWork
<1>5. SpareWork'
    BY <1>1, <1>2, <1>3 DEF SpareWork, Holds
<1>6. SpareAdapters'
    BY <1>1 DEF SpareAdapters
<1>7. SpareAction'
    BY <1>1, <1>4 DEF SpareAction, Drained
<1>8. SpareTurn'
    <2>1. SUFFICES ASSUME turn, view' = Idle', Ready(rec.ep)
                   PROVE  \E x \in Works : wk'[x].pc = "asked" /\ wk'[x].gen = rec.gen
        BY <1>1, <1>4 DEF SpareTurn, SpareAction, Drained, Ready
    <2>2. view = Idle /\ view' = view
        BY <1>1, <1>3, <2>1 DEF Idle
    <2>3. PICK x \in Works : wk[x].pc = "asked" /\ wk[x].gen = rec.gen
        BY <1>4, <2>1, <2>2 DEF SpareTurn, SpareAction
    <2>4. CASE x = w
        <3>1. wk[w].ep = rec.ep
            BY <1>1, <2>3, <2>4 DEF SpareWork
        <3>2. view'.st = "active"
            BY <2>1, <2>2, <2>3, <2>4, <3>1 DEF WorkEnds, Idle, IInv, Typed, Views
        <3> QED
            BY <2>2, <3>2 DEF Idle
    <2>5. CASE x # w
        BY <1>2, <2>3, <2>5
    <2> QED
        BY <2>4, <2>5
<1> QED
    BY <1>5, <1>6, <1>7, <1>8

LEMMA SpareTurnEnds == ASSUME IInv, SpareInv, TurnEnds PROVE SpareInv'
<1>1. UNCHANGED <<gate, rec, ads, act, life, wk>> /\ turn' = FALSE
    BY DEF TurnEnds
<1>2. view'.gen = view.gen /\ (view' = view \/ view.st = "active")
    BY DEF TurnEnds, IInv, Typed, Views
<1>3. SpareWork'
    BY <1>1, <1>2, ViewKept, WorkKept DEF IInv, SpareInv, Same
<1> QED
    BY <1>1, <1>2, <1>3, SpareQuiet DEF Same, Seen, Ready

LEMMA SpareConnectionLost == ASSUME IInv, SpareInv, ConnectionLost PROVE SpareInv'
<1>1. UNCHANGED <<gate, rec, act, life, wk, view>>
    BY DEF ConnectionLost
<1>2. Ready(rec.ep)' => Ready(rec.ep)
    BY <1>1, ConnectionLostIs DEF Ready, IInv, Typed, Records, Slots
<1>3. turn' \in BOOLEAN /\ (turn' => turn)
    BY ConnectionLostIs DEF IInv
<1>4. SpareWork'
    BY <1>1, ViewKept, WorkKept DEF IInv, SpareInv, Same
<1> QED
    BY <1>1, <1>2, <1>3, <1>4, SpareQuiet DEF Same, Seen

LEMMA SpareLossReported == ASSUME IInv, SpareInv, NEW a \in Adapters, LossReported(a) PROVE SpareInv'
<1>1. UNCHANGED <<gate, act, life, wk, turn>> /\ Same(rec', rec)
    BY ScheduleIs DEF LossReported, IInv, Typed, Same
<1>2. view'.gen = view.gen /\ (view' = view \/ view'.st = "lost")
    BY DEF LossReported, IInv, Typed, Views
<1>3. Ready(rec.ep)' => Ready(rec.ep)
    BY <1>1, LossReportedIs DEF Ready, Same, IInv, Typed, Records, Slots
<1>4. SpareWork'
    BY <1>1, <1>2, ViewKept, WorkKept DEF IInv, SpareInv, Same
<1> QED
    BY <1>1, <1>2, <1>3, <1>4, SpareQuiet DEF Same, Seen, IInv, Typed

LEMMA SpareRecovered == ASSUME IInv, SpareInv, Recovered PROVE SpareInv'
<1>1. UNCHANGED <<gate, ads, act, life, wk, turn>> /\ Same(rec', rec) /\ gate.drain # "granted"
    BY DEF Recovered, Same, IInv, Typed, Records, ActionInv, Latched
<1>2. view'.gen = view.gen /\ view.st = "unknown" /\ (turn => view'.st = "active")
    BY DEF Recovered, IInv, Typed, Views
<1>3. Ready(rec.ep)' => Ready(rec.ep)
    BY <1>1 DEF Ready, Same
<1>4. SpareWork'
    BY <1>1, <1>2, ViewKept, WorkKept DEF IInv, SpareInv, Same
<1> QED
    BY <1>1, <1>2, <1>3, <1>4, SpareQuiet DEF Same, Seen, IInv, Typed

LEMMA SpareRequest == ASSUME Plain, IInv, SpareInv, NEW q \in Requests, Request(q) PROVE SpareInv'
<1>1. UNCHANGED <<gate, rec, ads, act, life, wk, turn, view>>
    BY DEF Request, Plain
<1>2. SpareWork'
    BY <1>1, ViewKept, WorkKept DEF IInv, SpareInv, Same
<1> QED
    BY <1>1, <1>2, SpareQuiet DEF Same, Seen, Ready, IInv, Typed

LEMMA SpareClose == ASSUME IInv, SpareInv, CloseBegins \/ CloseEnds PROVE SpareInv'
<1>1. UNCHANGED <<gate, act, life, wk, turn, view>> /\ Same(rec', rec) /\ (ads' = ads \/ ads' = Closed(ads, rec.ep))
    BY CancelIs DEF CloseBegins, CloseEnds, IInv, Typed
<1>2. Ready(rec.ep)' => Ready(rec.ep)
    BY <1>1, ClosedIs DEF Ready, Same, NewAdapter, IInv, Typed, Records, Slots
<1>3. SpareWork'
    BY <1>1, ViewKept, WorkKept DEF IInv, SpareInv, Same
<1> QED
    BY <1>1, <1>2, <1>3, SpareQuiet DEF Same, Seen, IInv, Typed

-----------------------------------------------------------------------------
LEMMA SpareLifeBegins == ASSUME Plain, IInv, SpareInv, LifeBegins PROVE SpareInv'
<1> USE DEF SpareInv
<1> DEFINE q == Head(queue)
           c == gate.state = "disconnected"
           new == [NoAction EXCEPT !.kind = q.kind, !.force = q.force, !.gen = rec.gen]
<1>1. UNCHANGED <<ads, act, wk, turn, view>> /\ life = NoAction /\ gate.state # "draining"
    BY DEF LifeBegins, IInv, ActionInv
<1>2. q \in Requests /\ ~q.force /\ q.kind \in {"disconnect", "restart"} /\ q.force = FALSE
    BY Constants DEF LifeBegins, Plain, IInv, Typed
<1>3. /\ Same(rec', rec) /\ gate'.live = gate.live
      /\ ~life'.force /\ ~life'.proof /\ ~life'.stopped
      /\ life'.prep = None /\ life'.target = None /\ life'.repl = None
      /\ life'.pc \in {"none", "prepare", "drain"}
    <2>1. CASE q.kind = "disconnect" /\ gate.state = "disconnected"
        <3>1. UNCHANGED <<gate, rec, life>>
            BY <2>1 DEF LifeBegins
        <3> QED
            BY <1>1, <3>1, NoActionIs DEF Same
    <2>2. CASE q.kind = "disconnect" /\ gate.state # "disconnected"
        <3>1. rec' = CancelReconnect(rec) /\ gate' = BeginDrain(gate, q.force)
              /\ life' = [new EXCEPT !.pc = "drain", !.drain = gate'.gen]
            BY <2>2 DEF LifeBegins
        <3>2. gate'.live = gate.live
            BY <1>1, <1>2, <3>1, BeginDrainIs DEF IInv, Typed, ActionInv
        <3>3. life'.pc = "drain" /\ ~life'.force /\ ~life'.proof /\ ~life'.stopped
              /\ life'.prep = None /\ life'.target = None /\ life'.repl = None
            BY <1>2, <3>1 DEF NoAction
        <3> QED
            BY <3>1, <3>2, <3>3, CancelIs DEF IInv, Typed
    <2>3. CASE q.kind = "restart"
        <3>1. rec' = CancelReconnect(rec) /\ gate' = RequestAutomatic(gate)
              /\ life' = [new EXCEPT !.pc = "prepare", !.cold = c]
            BY <2>3 DEF LifeBegins
        <3>2. gate'.live = gate.live
            BY <3>1, RequestAutomaticIs DEF IInv, Typed, ActionInv
        <3> HIDE DEF c
        <3>3. life'.pc = "prepare" /\ ~life'.force /\ ~life'.proof /\ ~life'.stopped
              /\ life'.prep = None /\ life'.target = None /\ life'.repl = None
            BY <1>2, <3>1 DEF NoAction
        <3> QED
            BY <3>1, <3>2, <3>3, CancelIs DEF IInv, Typed
    <2> QED
        BY <1>2, <2>1, <2>2, <2>3
<1> HIDE DEF q, c, new
<1>4. SpareWork'
    BY <1>1, <1>3, ViewKept, WorkKept DEF IInv, Same
<1>5. SpareAdapters'
    BY <1>1, <1>3, NoActionIs DEF SpareAdapters, Same
<1>6. SpareAction'
    BY <1>3 DEF SpareAction
<1>7. SpareTurn'
    BY <1>1, <1>3, NoActionIs DEF SpareTurn, Same, Idle, Ready
<1> QED
    BY <1>4, <1>5, <1>6, <1>7

LEMMA SpareLifePrepared == ASSUME Plain, IInv, SpareInv, LifePrepared PROVE SpareInv'
<1> USE DEF SpareInv
<1> DEFINE d == gate'.gen
<1>1. PICK a \in Candidates : /\ gate' = BeginDrain(gate, life.force)
                              /\ life' = [life EXCEPT !.pc = "drain", !.prep = a, !.drain = d]
    BY DEF LifePrepared
<1>2. UNCHANGED <<rec, ads, act, wk, turn, view>> /\ life.pc = "prepare"
    BY DEF LifePrepared
<1> HIDE DEF d
<1>3. gate'.live = gate.live
    BY <1>1, <1>2, BeginDrainIs DEF IInv, Typed, ActionInv, SpareAction, Lives
<1>4. /\ life'.pc = "drain" /\ life'.prep = a /\ life'.target = life.target /\ life'.repl = life.repl
      /\ life'.force = life.force /\ life'.proof = life.proof /\ life'.stopped = life.stopped
    BY <1>1 DEF IInv, Typed, Lives
<1>5. a # rec.ep /\ a # act.ad
    BY CandidatesAre DEF Plain, InUse
<1>6. ~life.proof /\ ~life.stopped
    BY <1>2 DEF SpareAction, Drained
<1>7. SpareWork'
    BY <1>2, <1>3, ViewKept, WorkKept DEF IInv, Same
<1>8. SpareAdapters'
    BY <1>2, <1>4, <1>5 DEF SpareAdapters
<1>9. SpareAction'
    BY <1>4, <1>6 DEF SpareAction
<1>10. SpareTurn'
    BY <1>2, <1>4, <1>6 DEF SpareTurn, Idle, Ready
<1> QED
    BY <1>7, <1>8, <1>9, <1>10

LEMMA SpareLifeUnprepared == ASSUME IInv, SpareInv, LifeUnprepared PROVE SpareInv'
<1> USE DEF SpareInv
<1>1. UNCHANGED <<gate, ads, act, wk, turn, view>> /\ life.pc = "prepare" /\ Same(rec', rec) /\ life' = NoAction
    BY FinishIs DEF LifeUnprepared, IInv, Typed
<1>2. ~life.proof
    BY <1>1 DEF SpareAction, Drained
<1>3. SpareWork'
    BY <1>1, ViewKept, WorkKept DEF IInv, Same
<1>4. SpareAdapters'
    BY <1>1, NoActionIs DEF SpareAdapters, Same
<1>5. SpareAction'
    BY <1>1, NoActionIs DEF SpareAction
<1>6. SpareTurn'
    BY <1>1, <1>2, NoActionIs DEF SpareTurn, Same, Idle, Ready
<1> QED
    BY <1>3, <1>4, <1>5, <1>6

\* The end of an action that was drained: what it has proved is published, or
\* its turn is over, or its connection is gone.
LEMMA SpareLifeFailed ==
    ASSUME IInv, SpareInv, life.pc \in Drained, NEW s \in AdapterTables, NEW error, LifeFailed(s, error),
           \A a \in Adapters : s[a].st = "ready" => ads[a].st = "ready",
           turn' \in BOOLEAN, turn' => turn, UNCHANGED <<act, wk>>
    PROVE  SpareInv'
<1> USE DEF SpareInv
<1>1. life.pc \notin {"none", "prepare"} /\ gate.drain = "granted"
    BY DEF Drained, IInv, ActionInv
<1>2. /\ ads' \in AdapterTables /\ rec' \in Records /\ life' = NoAction /\ gate'.live = gate.live
      /\ \A a \in Adapters : ads'[a] = s[a] \/ ads'[a] = NewAdapter
    BY <1>1, LifeFailedIs
<1>3. SpareAction'
    BY <1>2, NoActionIs DEF SpareAction
<1>4. CASE /\ Same(rec', rec) /\ rec'.timer = rec.timer /\ view' = view
           /\ ~(~life.cold /\ ~life.stopped /\ life.proof /\ ads'[life.target].st = "ready")
    <2>1. SpareWork'
        BY <1>2, <1>4, ViewKept, WorkKept DEF IInv, Same
    <2>2. SpareAdapters'
        BY <1>2, <1>4, NoActionIs DEF SpareAdapters, Same
    <2>3. rec.ep \in Slots
        BY DEF IInv, Typed, Records
    <2>4. Ready(rec.ep)' => Ready(rec.ep) /\ ads'[rec.ep].st = "ready"
        BY <1>2, <1>4, <2>3 DEF Ready, Same, Slots, NewAdapter
    <2>5. turn' /\ view' = Idle' => ~Ready(rec.ep)'
        <3>1. SUFFICES ASSUME turn', view = Idle, Ready(rec.ep)' PROVE FALSE
            BY <1>4 DEF Same, Idle
        <3>2. life.proof
            BY <1>1, <2>4, <3>1, NobodyHolds DEF SpareTurn, Holds
        <3>3. life.target = rec.ep /\ ~life.cold /\ ~life.stopped
            BY <3>1, <3>2 DEF SpareAction, SpareTurn, Seen, Idle
        <3> QED
            BY <1>4, <2>4, <3>1, <3>2, <3>3
    <2>6. SpareTurn'
        BY <1>2, <2>5, NoActionIs DEF SpareTurn
    <2> QED
        BY <1>3, <2>1, <2>2, <2>6
<1>5. CASE /\ rec'.ep = life.target /\ life.target # None /\ rec'.gen = rec.gen + 1 /\ rec'.timer = NoTimer
           /\ view' = Registered(rec')
    <2>1. view'.gen = rec'.gen /\ view'.st = "unknown" /\ rec.gen \in Nat
        BY <1>5 DEF Registered, IInv, Typed, Records
    <2>2. SpareWork'
        BY <1>2, <1>5, <2>1, WorkKept DEF IInv
    <2>3. SpareAdapters'
        BY <1>2, <1>5, NoActionIs DEF SpareAdapters
    <2>4. SpareTurn'
        BY <1>2, <2>1, NoActionIs DEF SpareTurn, Idle
    <2> QED
        BY <1>3, <2>2, <2>3, <2>4
<1> QED
    BY <1>1, <1>4, <1>5, LifeFailedIs

\* A step of a drained action that publishes nothing.
LEMMA SpareGoesOn ==
    ASSUME IInv, SpareInv, gate.drain = "granted", UNCHANGED <<gate, rec, act, wk, view>>,
           SpareAdapters', SpareAction', turn' \in BOOLEAN, turn' => turn,
           turn' => ~life'.stopped /\ (life.proof => life'.proof),
           turn' /\ Ready(rec.ep)' => Ready(rec.ep) \/ life'.proof,
           turn' /\ ~life'.proof => life'.pc # "stopping" /\ (life'.pc = "idle" => view # Idle)
    PROVE  SpareInv'
<1> USE DEF SpareInv
<1>1. SpareWork'
    BY ViewKept, WorkKept DEF IInv, Same
<1>2. turn' /\ view' = Idle' => ~Ready(rec.ep)' \/ life'.proof
    BY NobodyHolds DEF SpareTurn, Holds, Idle
<1>3. SpareTurn'
    BY <1>2 DEF SpareTurn, Idle
<1> QED
    BY <1>1, <1>3

LEMMA SpareLifeTargets == ASSUME Plain, IInv, SpareInv, LifeTargets PROVE SpareInv'
<1> USE DEF SpareInv
<1>1. life.pc = "drain" /\ gate.drain = "granted" /\ UNCHANGED <<gate, rec, act, wk, turn, view>>
    BY DEF LifeTargets
<1>2. ~life.proof /\ ~life.stopped /\ ~life.force
    BY <1>1 DEF SpareAction, Drained
<1>3. Ready(rec.ep)' => Ready(rec.ep)
    <2>1. rec.ep \in Slots /\ rec.ep' = rec.ep /\ (ads' = ads \/ \E a : ads' = StartBegun(ads, a, "life"))
        BY <1>1 DEF LifeTargets, IInv, Typed, Records
    <2>2. \A b \in Adapters : ads'[b].st = "ready" => ads[b].st = "ready"
        BY <2>1, StartBegunIs DEF IInv, Typed
    <2> QED
        BY <1>1, <2>1, <2>2 DEF Ready, Slots
<1>4. CASE life.cold /\ life' = [life EXCEPT !.pc = "starting"]
    <2>1. /\ life'.pc = "starting" /\ life'.force = life.force /\ life'.proof = life.proof
          /\ life'.stopped = life.stopped /\ life'.prep = life.prep /\ life'.target = life.target
          /\ life'.repl = life.repl
        BY <1>4 DEF IInv, Typed, Lives
    <2>2. SpareAdapters' /\ SpareAction'
        BY <1>1, <1>2, <2>1 DEF SpareAdapters, SpareAction
    <2> QED
        BY <1>1, <1>2, <1>3, <2>1, <2>2, SpareGoesOn DEF IInv, Typed
<1>5. ASSUME NEW x, ~life.cold, Ready(rec.ep), life' = [life EXCEPT !.pc = "idle", !.target = rec.ep, !.ident = x]
      PROVE  SpareInv'
    <2>1. /\ life'.pc = "idle" /\ life'.force = life.force /\ life'.proof = life.proof /\ life'.cold = life.cold
          /\ life'.stopped = life.stopped /\ life'.prep = life.prep /\ life'.target = rec.ep
          /\ life'.repl = life.repl
        BY <1>5 DEF IInv, Typed, Lives
    <2>2. SpareAdapters' /\ SpareAction'
        BY <1>1, <1>2, <2>1 DEF SpareAdapters, SpareAction
    <2>3. turn => view # Idle
        BY <1>1, <1>2, <1>5, NobodyHolds DEF SpareTurn, Holds
    <2> QED
        BY <1>1, <1>2, <1>3, <2>1, <2>2, <2>3, SpareGoesOn DEF IInv, Typed
<1>6. ASSUME NEW a \in IF rec.ep = None THEN Candidates ELSE {rec.ep}, ~life.cold,
             life' = [life EXCEPT !.pc = "proving", !.target = a]
      PROVE  SpareInv'
    <2>1. /\ life'.pc = "proving" /\ life'.force = life.force /\ life'.proof = life.proof /\ life'.cold = life.cold
          /\ life'.stopped = life.stopped /\ life'.prep = life.prep /\ life'.target = a
          /\ life'.repl = life.repl
        BY <1>6 DEF IInv, Typed, Lives
    <2>2. act.ad # None => act.ad # a
        BY CandidatesAre DEF Plain, InUse, SpareAdapters
    <2>3. Seen => rec.ep # None
        BY DEF Seen, SpareAdapters, SpareWork
    <2>4. SpareAdapters' /\ SpareAction'
        BY <1>1, <1>2, <1>6, <2>1, <2>2, <2>3 DEF SpareAdapters, SpareAction, Seen, Drained
    <2> QED
        BY <1>1, <1>2, <1>3, <2>1, <2>4, SpareGoesOn DEF IInv, Typed
<1> QED
    BY <1>2, <1>4, <1>5, <1>6 DEF LifeTargets

LEMMA SpareLifeProven == ASSUME IInv, SpareInv, LifeProven PROVE SpareInv'
<1> USE DEF SpareInv
<1>1. life.pc = "proving" /\ gate.drain = "granted" /\ UNCHANGED <<gate, rec, act, wk, turn, view>>
    BY DEF LifeProven, IInv, ActionInv, Drained
<1>2. /\ life'.pc = "idle" /\ life'.force = life.force /\ life'.proof /\ life'.cold = life.cold
      /\ life'.stopped = life.stopped /\ life'.prep = life.prep /\ life'.target = life.target
      /\ life'.repl = life.repl
    BY DEF LifeProven, IInv, Typed, Lives
<1>3. SpareAdapters' /\ SpareAction'
    BY <1>1, <1>2 DEF SpareAdapters, SpareAction, Seen, Drained
<1>4. turn => ~life.stopped
    BY DEF SpareTurn
<1> QED
    BY <1>1, <1>2, <1>3, <1>4, SpareGoesOn DEF IInv, Typed

LEMMA SpareLifeStops == ASSUME IInv, SpareInv, LifeStops PROVE SpareInv'
<1> USE DEF SpareInv
<1>1. life.pc = "idle" /\ gate.drain = "granted" /\ UNCHANGED <<gate, rec, act, wk, turn, view>>
    BY DEF LifeStops, IInv, ActionInv, Drained
<1>2. /\ life'.pc = "stopping" /\ life'.force = life.force /\ life'.proof = life.proof /\ life'.cold = life.cold
      /\ life'.stopped = life.stopped /\ life'.prep = life.prep /\ life'.target = life.target
      /\ life'.repl = life.repl
    BY DEF LifeStops, IInv, Typed, Lives
<1>3. SpareAdapters' /\ SpareAction'
    BY <1>1, <1>2 DEF SpareAdapters, SpareAction, Seen, Drained
<1>4. turn => ~life.stopped /\ life.proof
    BY <1>1 DEF SpareTurn, SpareAction, LifeStops, ProvenIdle, Idle
<1>5. Ready(rec.ep)' => Ready(rec.ep)
    <2>1. rec.ep \in Slots /\ life.target \in Slots /\ ads \in AdapterTables
        BY DEF IInv, Typed, Records, Lives
    <2>2. \A b \in Adapters : ads'[b].st = "ready" => ads[b].st = "ready"
        BY <2>1, ClosedIs DEF LifeStops, NewAdapter
    <2> QED
        BY <1>1, <2>1, <2>2 DEF Ready, Slots
<1> QED
    BY <1>1, <1>2, <1>3, <1>4, <1>5, SpareGoesOn DEF IInv, Typed

LEMMA SpareLifeStopped == ASSUME IInv, SpareInv, LifeStopped PROVE SpareInv'
<1> USE DEF SpareInv
<1>1. life.pc = "stopping" /\ gate.drain = "granted" /\ UNCHANGED <<gate, rec, act, wk, view>> /\ turn' = FALSE
    BY DEF LifeStopped, IInv, ActionInv, Drained
<1>2. /\ life'.pc = "stopped" /\ life'.force = life.force /\ life'.proof = life.proof /\ life'.cold = life.cold
      /\ life'.stopped /\ life'.prep = life.prep /\ life'.target = life.target
      /\ life'.repl = life.repl
    BY DEF LifeStopped, IInv, Typed, Lives
<1>3. SpareAdapters' /\ SpareAction'
    BY <1>1, <1>2 DEF SpareAdapters, SpareAction, Seen, Drained
<1> QED
    BY <1>1, <1>2, <1>3, SpareGoesOn

LEMMA SpareLifeContinues == ASSUME IInv, SpareInv, LifeContinues PROVE SpareInv'
<1> USE DEF SpareInv
<1>1. life.pc = "stopped" /\ gate.drain = "granted" /\ UNCHANGED <<act, wk, turn, view>>
    BY DEF LifeContinues, IInv, ActionInv, Drained
<1>2. turn = FALSE
    BY <1>1 DEF SpareAction, SpareTurn, IInv, Typed
<1>3. CASE life.kind = "disconnect"
    <2>1. gate'.live = gate.live /\ Same(rec', rec) /\ life' = NoAction
        BY <1>1, <1>3, SettleIs, FinishIs DEF LifeContinues, IInv, Typed, ActionInv
    <2>2. SpareWork'
        BY <1>1, <2>1, ViewKept, WorkKept DEF IInv, Same
    <2>3. SpareAdapters' /\ SpareAction' /\ SpareTurn'
        BY <1>1, <1>2, <2>1, NoActionIs DEF SpareAdapters, SpareAction, SpareTurn, Same
    <2> QED
        BY <2>2, <2>3
<1>4. CASE life.kind # "disconnect"
    <2>1. life' = [life EXCEPT !.pc = "starting"] /\ UNCHANGED <<gate, rec>>
        BY <1>4 DEF LifeContinues
    <2>2. /\ life'.pc = "starting" /\ life'.force = life.force /\ life'.proof = life.proof /\ life'.cold = life.cold
          /\ life'.stopped = life.stopped /\ life'.prep = life.prep /\ life'.target = life.target
          /\ life'.repl = life.repl
        BY <2>1 DEF IInv, Typed, Lives
    <2>3. SpareAdapters' /\ SpareAction'
        BY <1>1, <2>1, <2>2 DEF SpareAdapters, SpareAction, Seen, Drained
    <2> QED
        BY <1>1, <1>2, <2>1, <2>3, SpareGoesOn
<1> QED
    BY <1>3, <1>4

LEMMA SpareLifeStarted == ASSUME IInv, SpareInv, LifeStarted PROVE SpareInv'
<1> USE DEF SpareInv
<1>1. life.pc = "starting" /\ gate.drain = "granted" /\ UNCHANGED <<gate, rec, act, wk, turn, view>>
    BY DEF LifeStarted, IInv, ActionInv, Drained
<1>2. /\ life'.pc = "started" /\ life'.force = life.force /\ life'.proof = life.proof /\ life'.cold = life.cold
      /\ life'.stopped = life.stopped /\ life'.prep = life.prep /\ life'.target = life.target
      /\ life'.repl = life.prep
    BY DEF LifeStarted, IInv, Typed, Lives
<1>3. SpareAdapters' /\ SpareAction'
    BY <1>1, <1>2 DEF SpareAdapters, SpareAction, Seen, Drained
<1>4. Ready(rec.ep)' => Ready(rec.ep)
    <2>1. rec.ep \in Slots /\ (rec.ep # None => rec.ep # life.prep)
        BY DEF SpareAdapters, IInv, Typed, Records
    <2> QED
        BY <1>1, <2>1, StartedIs DEF LifeStarted, Ready, IInv, Typed, Slots
<1>5. turn => ~life.stopped
    BY DEF SpareTurn
<1> QED
    BY <1>1, <1>2, <1>3, <1>4, <1>5, SpareGoesOn DEF IInv, Typed

LEMMA SpareLifePublishes == ASSUME IInv, SpareInv, LifePublishes PROVE SpareInv'
<1> USE DEF SpareInv
<1>1. life.pc = "started" /\ UNCHANGED <<act, wk, turn>>
    BY DEF LifePublishes
<1>2. CASE Ready(life.repl) /\ (life.ident = 0 \/ life.ident # runtime)
    <2>1. /\ gate' = Settle(gate, life.drain, "automatic") /\ Finish(Publish(rec, life.repl), "none")
          /\ view' = Registered(rec')
        BY <1>2 DEF LifePublishes
    <2>2. gate'.live = gate.live
        BY <2>1, SettleIs DEF IInv, Typed, ActionInv
    <2>3. life.repl \in Slots /\ life.repl # None
        BY <1>2 DEF IInv, Typed, Lives, Ready
    <2>4. /\ rec' \in Records /\ rec'.ep = life.repl /\ rec'.gen = rec.gen + 1 /\ life' = NoAction
        BY <2>1, <2>3, PublishIs, FinishIs DEF IInv, Typed, Same
    <2>5. view'.gen = rec'.gen /\ view'.st = "unknown" /\ rec.gen \in Nat
        BY <2>1, <2>4 DEF Registered, IInv, Typed, Records
    <2>6. SpareWork'
        BY <1>1, <2>2, <2>4, <2>5, WorkKept DEF IInv
    <2>7. SpareAdapters'
        BY <1>1, <2>3, <2>4, NoActionIs DEF SpareAdapters
    <2>8. SpareAction' /\ SpareTurn'
        BY <2>4, <2>5, NoActionIs DEF SpareAction, SpareTurn, Idle
    <2> QED
        BY <2>6, <2>7, <2>8
<1>3. CASE ~(Ready(life.repl) /\ (life.ident = 0 \/ life.ident # runtime))
    <2>1. LifeFailed(ads, "plain")
        BY <1>3 DEF LifePublishes
    <2> QED
        BY <1>1, <2>1, SpareLifeFailed DEF IInv, Typed, Drained
<1> QED
    BY <1>2, <1>3

LEMMA SpareLifeGivesUp ==
    ASSUME IInv, SpareInv, LifeUnproven \/ LifeRefused \/ LifeUnstopped \/ LifeUncheckpointed \/ LifeUnstarted
    PROVE  SpareInv'
<1>1. life.pc \in Drained /\ UNCHANGED <<act, wk>>
    BY DEF LifeUnproven, LifeRefused, LifeUnstopped, LifeUncheckpointed, LifeUnstarted, Drained
<1>2. turn' = turn \/ turn' = FALSE
    BY DEF LifeUnproven, LifeRefused, LifeUnstopped, LifeUncheckpointed, LifeUnstarted
<1>3. turn' \in BOOLEAN /\ (turn' => turn)
    <2>1. CASE turn' = turn
        BY <2>1 DEF IInv, Typed
    <2>2. CASE turn' = FALSE
        BY <2>2
    <2> QED
        BY <1>2, <2>1, <2>2
<1>4. PICK a \in Slots, error \in {"plain", "auth"} : LifeFailed(ads, error) \/ LifeFailed(Closed(ads, a), error)
    <2>1. life.target \in Slots /\ life.prep \in Slots
        BY DEF IInv, Typed, Lives
    <2> QED
        BY <2>1 DEF LifeUnproven, LifeRefused, LifeUnstopped, LifeUncheckpointed, LifeUnstarted, LifeFailsPlainly
<1>5. CASE LifeFailed(ads, error)
    BY <1>1, <1>3, <1>5, SpareLifeFailed DEF IInv, Typed
<1>6. CASE LifeFailed(Closed(ads, a), error)
    <2>1. Closed(ads, a) \in AdapterTables /\ \A b \in Adapters : Closed(ads, a)[b].st = "ready" => ads[b].st = "ready"
        BY ClosedIs DEF NewAdapter, IInv, Typed
    <2> QED
        BY <1>1, <1>3, <1>6, <2>1, SpareLifeFailed
<1> QED
    BY <1>4, <1>5, <1>6

LEMMA NextSpareInv == ASSUME Plain, IInv, SpareInv, [Next]_vars PROVE SpareInv'
<1>1. CASE Activation
    BY <1>1, SpareActPrepared, SpareActStarted, SpareActEnds, SpareActPublished, SpareTimerFires DEF Activation
<1>2. CASE Work
    BY <1>2, SpareWorkAsks, SpareWorkAdmitted, SpareWorkStartsTurn, SpareWorkEnds DEF Work
<1>3. CASE Host
    BY <1>3, SpareTurnEnds, SpareConnectionLost, SpareRecovered, SpareLossReported DEF Host
<1>4. CASE Lifecycle
    BY <1>4, SpareRequest, SpareLifeBegins, SpareLifePrepared, SpareLifeUnprepared, SpareLifeTargets, SpareLifeProven,
       SpareLifeStops, SpareLifeStopped, SpareLifeContinues, SpareLifeStarted, SpareLifePublishes, SpareLifeGivesUp,
       SpareClose
       DEF Lifecycle
<1>5. CASE UNCHANGED vars
    BY <1>5 DEF vars, SpareInv, SpareAdapters, SpareWork, SpareAction, SpareTurn, Seen, Idle, Holds, Ready
<1> QED
    BY <1>1, <1>2, <1>3, <1>4, <1>5 DEF Next

LEMMA InitSpareInv == ASSUME Plain, Init PROVE SpareInv
BY NoActionIs DEF Plain, Init, SpareInv, SpareAdapters, SpareWork, SpareAction, SpareTurn, Seen, Idle, Holds,
                  NoActivation, NewWork, Drained

\* requireManagedThreadsIdle (manager.ts:804): an unforced action stops the
\* runtime under a running turn only after it has itself brought the connection
\* up again to prove the process, while the view still said idle.
THEOREM EndpointStopsSpareTurns == Plain => (Spec => StopsSpareTurns)
<1> SUFFICES ASSUME Plain PROVE Spec => StopsSpareTurns
    OBVIOUS
<1>1. Init => IInv /\ SpareInv
    BY InitIInv, InitSpareInv
<1>2. IInv /\ SpareInv /\ [Next]_vars => (IInv /\ SpareInv)'
    BY NextIInv, NextSpareInv
<1>3. SpareInv => (Destroyed => life.proof)
    BY DEF SpareInv, SpareTurn, Destroyed
<1> QED
    BY <1>1, <1>2, <1>3, PTL DEF Spec, StopsSpareTurns

=============================================================================
