---------------------------- MODULE ClaudeWorker ----------------------------
(***************************************************************************)
(* One managed thread on a Claude endpoint, from the message a caller      *)
(* sends to the process that works on it and back: send and interrupt of   *)
(* sessions/service.ts under the thread gate, the view of the thread       *)
(* (NativeSession), endpoints/claude-runtime.ts with its belief of what    *)
(* runs, the connection to the host, and the host (ClaudeHostSession).     *)
(*                                                                         *)
(* Requests, and what the host sends, are each in order.  A continuation   *)
(* that waits for an answer may go on after events that arrived behind it. *)
(***************************************************************************)
EXTENDS NativeSession, ClaudeHostSession, FiniteSets

CONSTANTS
    MaxTurns,       \* messages sent
    MaxRetries,     \* messages sent again after their send was cut off
    MaxInterrupts, MaxLosses,
    MaxFailures,    \* rejected setModel or setEffort
    Sweeps          \* whether the sweep for stale turns runs

ASSUME WorkerAssumption ==
    {MaxTurns, MaxRetries, MaxInterrupts, MaxLosses, MaxFailures} \subseteq Nat /\ Sweeps \in BOOLEAN

VARIABLES
    sdk, host, accepted,    \* the process, the host's session, acceptedUuids
    interrupt,              \* the host's interrupt: its round trip to the process
    reqs, wire, up,         \* requests on their way, what the host has sent, the connection
    running,                \* ThreadState.running: the runtime's belief
    sweep,                  \* reconcileRunningTurns of the timer waits for the host
    resumed,                \* the thread was resumed over this connection
    native,                 \* the view of the thread
    probes,                 \* repairs of the view in progress
    call,                   \* the call that holds the thread gate
    cut,                    \* messages whose send was cut off
    trouble, targets,       \* history: what the view may not survive, turns to be interrupted
    used                    \* spent bounds

hostVars == <<sdk, host, accepted, interrupt>>
viewVars == <<native, probes>>
historyVars == <<trouble, targets>>
vars == <<hostVars, reqs, wire, up, running, sweep, resumed, viewVars, call, cut, historyVars, used>>

-----------------------------------------------------------------------------
NoCall == [op |-> "none", pc |-> "none", turn |-> 0, token |-> [gen |-> 0, rev |-> 0], steer |-> FALSE]
NoInterrupt == [pc |-> "none", asked |-> Interrupting(Session), survivors |-> {}, client |-> 0]

Init ==
    /\ sdk = Process /\ host = Session /\ accepted = {} /\ interrupt = NoInterrupt
    /\ reqs = <<>> /\ wire = <<>> /\ up = TRUE
    /\ running = <<>> /\ sweep = FALSE /\ resumed = TRUE
    /\ native = [view |-> [ready |-> TRUE, status |-> "idle", turn |-> 0, gen |-> 1, rev |-> 0], dead |-> {}, asked |-> {}]
    /\ probes = {} /\ call = NoCall /\ cut = {}
    /\ trouble = {} /\ targets = {}
    /\ used = [turns |-> 0, retries |-> 0, interrupts |-> 0, losses |-> 0, failures |-> 0]

Trouble(kind, happens) == trouble' = trouble \cup (IF happens THEN {kind} ELSE {})

\* RemoteClaudeHost
Request(kind, turn) == reqs' = Append(reqs, [kind |-> kind, turn |-> turn])

\* The continuation of the oldest answer
Answered(kind) == wire # <<>> /\ wire[1].kind = kind /\ wire' = Tail(wire)

\* What a host without a client emits is lost.
Emit(messages) == wire' = IF up THEN wire \o messages ELSE wire
Reply(kind, turn, set) == [kind |-> kind, turn |-> turn, folded |-> FALSE, set |-> set]

-----------------------------------------------------------------------------
(* The process and the host.                                               *)
SdkFolds ==
    /\ sdk.run # 0 /\ sdk.queue # <<>>
    /\ sdk' = Folded(sdk)
    /\ UNCHANGED <<host, accepted, interrupt, reqs, wire, up, running, sweep, resumed, viewVars, call, cut, historyVars, used>>

SdkSucceeds ==
    /\ sdk.run # 0
    /\ sdk' = Succeeded(sdk)
    /\ UNCHANGED <<host, accepted, interrupt, reqs, wire, up, running, sweep, resumed, viewVars, call, cut, historyVars, used>>

SdkAborts ==
    /\ interrupt.pc = "asked"
    /\ sdk' = Aborted(sdk)
    /\ interrupt' = [interrupt EXCEPT !.pc = "told", !.survivors = Queued(sdk)]
    /\ UNCHANGED <<host, accepted, reqs, wire, up, running, sweep, resumed, viewVars, call, cut, historyVars, used>>

HostReadsResult ==
    /\ sdk.results # <<>>
    /\ sdk' = [sdk EXCEPT !.results = Tail(sdk.results)]
    /\ host' = AfterResult(host, Head(sdk.results))
    /\ Emit(ResultEvents(host, Head(sdk.results)))
    /\ UNCHANGED <<accepted, interrupt, reqs, up, running, sweep, resumed, viewVars, call, cut, historyVars, used>>

\* The answer goes to the connection that asked.
HostReadsReceipt ==
    /\ interrupt.pc = "told"
    /\ LET folded == FoldedAcross(host, interrupt.asked, interrupt.survivors)
       IN  /\ host' = AfterFolded(host, folded)
           /\ Emit(FoldedEvents(host, folded)
                   \o IF interrupt.client = native.view.gen THEN <<Reply("interrupted", 0, {})>> ELSE <<>>)
    /\ interrupt' = NoInterrupt
    /\ UNCHANGED <<sdk, accepted, reqs, up, running, sweep, resumed, viewVars, call, cut, historyVars, used>>

\* ClaudeHostServer.handle.  A message sent while the host has not yet read the
\* end of the turn before it may be taken for one that was folded into it.
ServeSend(turn) ==
    \/ /\ Accepts(accepted, turn)
       /\ accepted' = accepted \cup {turn}
       /\ host' = Sent(host, turn) /\ sdk' = Fed(sdk, turn)
       /\ Emit(<<Reply("sent", turn, {turn})>>)
       /\ Trouble("misread", \E i \in DOMAIN sdk.results : sdk.results[i] # 0)
       /\ UNCHANGED interrupt
    \/ /\ ~Accepts(accepted, turn)
       /\ Emit(<<Reply("sent", turn, {})>>)
       /\ UNCHANGED <<hostVars, trouble>>

ServeInterrupt ==
    /\ interrupt.pc = "none"
    /\ interrupt' = [NoInterrupt EXCEPT !.pc = "asked", !.asked = Interrupting(host), !.client = native.view.gen]
    /\ host' = Interrupted(host)
    /\ UNCHANGED <<sdk, accepted, wire, trouble>>

ServeStatus(kind) ==
    /\ Emit(<<Reply(kind, IF host.inFlight = <<>> THEN 0 ELSE Head(host.inFlight), ToSet(host.inFlight))>>)
    /\ UNCHANGED <<hostVars, trouble>>

HostServes ==
    /\ up /\ reqs # <<>> /\ reqs' = Tail(reqs)
    /\ LET r == Head(reqs)
       IN  \/ r.kind = "send" /\ ServeSend(r.turn)
           \/ r.kind = "interrupt" /\ ServeInterrupt
           \/ r.kind \notin {"send", "interrupt"} /\ ServeStatus(r.kind)
    /\ UNCHANGED <<up, running, sweep, resumed, viewVars, call, cut, targets, used>>

-----------------------------------------------------------------------------
(* Events: onHostEvent of the runtime, and the listener bound to it.       *)
Without(turns, turn) == Only(turns, ToSet(turns) \ {turn})

\* The refreshes that the last notifications asked for are started.
Notified(new) ==
    /\ native' = [new EXCEPT !.asked = {}]
    /\ probes' = probes \cup {[of |-> r, pc |-> "asked", before |-> Registered(new, 0).view] : r \in new.asked}

\* turn/completed: the next turn of the queue is announced first.
AfterDoneUnannounced(turn) == Completed(native, turn)

AfterDone(turn) ==
    LET left == Without(running, turn)
        next == IF running # <<>> /\ Head(running) = turn /\ left # <<>> THEN Executing(native, Head(left)) ELSE native
    IN  Completed(next, turn)

\* The runtime of a new connection knows no thread until one is resumed.
Known == resumed \/ call.op = "resume"

HostEvent ==
    \E i \in DOMAIN wire :
        /\ wire[i].kind = "done" /\ \A j \in 1 .. i - 1 : wire[j].kind # "done"
        /\ wire' = RemoveAt(wire, i)
        /\ IF Known
             THEN /\ running' = Without(running, wire[i].turn)
                  /\ Notified(AfterDone(wire[i].turn))
             ELSE UNCHANGED <<running, viewVars>>
        /\ UNCHANGED <<hostVars, reqs, up, sweep, resumed, call, cut, historyVars, used>>

-----------------------------------------------------------------------------
(* Repairs of the view: repairNative, over threadTurnsList.                *)
ProbeBegins(p) ==
    /\ p.pc = "asked"
    /\ probes' = (probes \ {p}) \cup
                 IF up /\ Repairable(native, p.of) THEN {[p EXCEPT !.pc = "reads", !.before = native.view]} ELSE {}
    /\ UNCHANGED <<hostVars, reqs, wire, up, running, sweep, resumed, native, call, cut, historyVars, used>>

\* The newest turn of the transcript is the one that runs, or another one.
ProbeEnds(p) ==
    /\ p.pc = "reads"
    /\ \E t \in IF running = <<>> THEN {0} ELSE {0, Head(running)} : native' = Repaired(native, p.before, t)
    /\ probes' = probes \ {p}
    /\ UNCHANGED <<hostVars, reqs, wire, up, running, sweep, resumed, call, cut, historyVars, used>>

\* The repair that a call awaits
OwnRepair(x) == IF Repairable(x, 0) THEN {[of |-> 0, pc |-> "reads", before |-> x.view]} ELSE {}
OwnRepairDone == \A p \in probes : p.of # 0

-----------------------------------------------------------------------------
(* reconcileRunningTurns, by its timer.  It does not begin while startingTurns. *)
Starting == {"model", "accept", "held"}

SweepBegins ==
    /\ Sweeps /\ up /\ resumed /\ ~sweep /\ running # <<>> /\ call.pc \notin Starting
    /\ sweep' = TRUE /\ Request("status", 0)
    /\ UNCHANGED <<hostVars, wire, up, running, resumed, viewVars, call, cut, historyVars, used>>

\* Every turn the host no longer has is settled, then the head is announced.
Settle(left, gone) ==
    LET ended[i \in 0..Len(gone)] == IF i = 0 THEN native ELSE Completed(ended[i - 1], gone[i])
    IN  IF gone = <<>> THEN native
        ELSE IF left # <<>> THEN Executing(ended[Len(gone)], Head(left)) ELSE StatusChanged(ended[Len(gone)], "idle")

Reconciles(kind) ==
    /\ Answered(kind)
    /\ LET left == Only(running, wire[1].set)
           gone == Only(running, ToSet(running) \ wire[1].set)
       IN  /\ running' = left /\ Notified(Settle(left, gone))
           /\ Trouble("forgot", ToSet(gone) \cap (ToSet(host.inFlight) \cup {call.turn}) # {})

SweepEnds ==
    /\ sweep /\ Reconciles("status")
    /\ sweep' = FALSE
    /\ UNCHANGED <<hostVars, reqs, up, resumed, call, cut, targets, used>>

-----------------------------------------------------------------------------
(* Calls, one at a time: the thread gate.                                  *)
Begins(c) == call.op = "none" /\ up /\ native.view.ready /\ resumed /\ call' = c

\* sendWithOptions of a new message, or of one whose first send was cut off;
\* currentNative repairs the view before anything is chosen from it.
SendBegins ==
    /\ native.view.status # "unknown"
    /\ \E turn \in cut \cup {used.turns + 1} :
          /\ used' = IF turn \in cut THEN [used EXCEPT !.retries = used.retries + 1] ELSE [used EXCEPT !.turns = used.turns + 1]
          /\ used'.turns <= MaxTurns /\ used'.retries <= MaxRetries
          /\ cut' = cut \ {turn}
          /\ Begins([NoCall EXCEPT !.op = "send", !.pc = "choose", !.turn = turn])
    /\ probes' = probes \cup OwnRepair(native)
    /\ UNCHANGED <<hostVars, reqs, wire, up, running, sweep, resumed, native, historyVars>>

\* turnStart, up to its first wait: the turn is reserved.
Reserve(steer) ==
    /\ running' = IF call.turn \in ToSet(running) THEN running ELSE Append(running, call.turn)
    /\ call' = [call EXCEPT !.pc = "model", !.token = Token(native), !.steer = steer]

\* A message to an active turn steers it.  The runtime's steer is a send of its
\* own; it is refused if another turn runs, and the message then starts a turn.
SendChooses ==
    /\ call.pc = "choose" /\ OwnRepairDone
    /\ IF ~native.view.ready \/ native.view.status = "unknown" \/ (native.view.status = "active" /\ native.view.turn = 0)
         THEN call' = NoCall /\ UNCHANGED running
         ELSE Reserve(native.view.turn # 0 /\ running # <<>> /\ Head(running) = native.view.turn)
    /\ UNCHANGED <<hostVars, reqs, wire, up, sweep, resumed, viewVars, cut, historyVars, used>>

\* host.open, setModel and setEffort
ModelSet ==
    /\ call.pc = "model"
    /\ Request("send", call.turn)
    /\ call' = [call EXCEPT !.pc = "accept"]
    /\ UNCHANGED <<hostVars, wire, up, running, sweep, resumed, viewVars, cut, historyVars, used>>

ModelFails ==
    /\ call.pc = "model" /\ used.failures < MaxFailures
    /\ used' = [used EXCEPT !.failures = used.failures + 1]
    /\ running' = Without(running, call.turn)
    /\ call' = NoCall
    /\ Trouble("unstarted", call.turn = native.view.turn \/ call.turn \in accepted)
    /\ UNCHANGED <<hostVars, reqs, wire, up, sweep, resumed, viewVars, cut, targets>>

\* The end of turnStart, and of send.  "heard" is the view after the events that
\* the runtime emitted.  A steer leaves the view as it is; a start that is not
\* the head of the queue is answered with the turn that is.
StartReturns(heard) ==
    LET head == IF running = <<>> THEN 0 ELSE Head(running)
    IN  /\ call' = [call EXCEPT !.pc = "last"]
        /\ \/ /\ call.steer
              /\ native' = heard /\ UNCHANGED probes
           \/ /\ ~call.steer /\ head # call.turn
              /\ native' = IF head = 0 THEN heard ELSE Refreshed(heard, call.token, "active", head)
              /\ UNCHANGED probes
           \/ /\ ~call.steer /\ head = call.turn
              /\ native' = StartAnswered(heard, call.token, call.turn)
              /\ probes' = probes \cup IF StartOvertaken(heard, call.token, call.turn) THEN OwnRepair(native') ELSE {}

Accepted ==
    /\ call.pc = "accept" /\ Answered("sent") /\ wire[1].set # {}
    /\ StartReturns(IF running = <<>> \/ Head(running) # call.turn THEN native
                    ELSE Executing(Executing(native, call.turn), call.turn))
    /\ UNCHANGED <<hostVars, reqs, up, running, sweep, resumed, cut, historyVars, used>>

\* A message that the host has seen before runs only if the host still has it.
Duplicate ==
    /\ call.pc = "accept" /\ Answered("sent") /\ wire[1].set = {}
    /\ Request("held", 0)
    /\ call' = [call EXCEPT !.pc = "held"]
    /\ UNCHANGED <<hostVars, up, running, sweep, resumed, viewVars, cut, historyVars, used>>

DuplicateReturns ==
    /\ call.pc = "held" /\ Answered("held")
    /\ \/ /\ call.turn \in wire[1].set
          /\ StartReturns(native) /\ UNCHANGED running
       \/ /\ call.turn \notin wire[1].set
          /\ running' = Without(running, call.turn)
          /\ Notified(IF call.steer THEN Completed(native, call.turn) ELSE Completed(Completed(native, call.turn), call.turn))
          /\ call' = [call EXCEPT !.pc = "last"]
    /\ UNCHANGED <<hostVars, reqs, up, sweep, resumed, cut, historyVars, used>>

\* interrupt, and turnInterrupt: a turn that is queued is refused, one that is
\* not known any more needs nothing of the host.
InterruptBegins ==
    /\ used.interrupts < MaxInterrupts /\ native.view.status = "active" /\ native.view.turn # 0
    /\ used' = [used EXCEPT !.interrupts = used.interrupts + 1]
    /\ LET turn == native.view.turn
           pc == IF turn \notin ToSet(running) THEN "observe" ELSE IF Head(running) = turn THEN "sent" ELSE "last"
       IN  /\ Begins([NoCall EXCEPT !.op = "interrupt", !.turn = turn, !.token = Token(native), !.pc = pc])
           /\ IF pc = "sent" THEN Request("interrupt", 0) /\ targets' = targets \cup {turn}
                             ELSE UNCHANGED <<reqs, targets>>
    /\ UNCHANGED <<hostVars, wire, up, running, sweep, resumed, viewVars, cut, trouble>>

\* The answer is observed as the completion of the turn, and asks for nothing.
InterruptEnds ==
    /\ call.op = "interrupt"
    /\ \/ call.pc = "sent" /\ Answered("interrupted")
       \/ call.pc = "observe" /\ UNCHANGED wire
    /\ native' = [Completed(native, call.turn) EXCEPT !.asked = {}]
    /\ call' = NoCall
    /\ UNCHANGED <<hostVars, reqs, up, running, sweep, resumed, probes, cut, historyVars, used>>

\* reconcileManaged over a new connection: thread/resume, in which recoverState
\* asks the host for the turn that runs, ...
ResumeBegins ==
    /\ call.op = "none" /\ up /\ native.view.ready /\ ~resumed
    /\ call' = [NoCall EXCEPT !.op = "resume", !.pc = "recover"]
    /\ Request("recovered", 0)
    /\ UNCHANGED <<hostVars, wire, up, running, sweep, resumed, viewVars, cut, historyVars, used>>

\* ... whose belief is checked against the host once more, ...
ResumeRecovers ==
    /\ call.pc = "recover" /\ Answered("recovered")
    /\ running' = IF wire[1].turn = 0 THEN running ELSE <<wire[1].turn>>
    /\ IF running' = <<>>
         THEN call' = [call EXCEPT !.pc = "view"] /\ UNCHANGED reqs
         ELSE call' = [call EXCEPT !.pc = "check"] /\ Request("checked", 0)
    /\ resumed' = TRUE
    /\ Trouble("unadopted", Cardinality(wire[1].set) > 1)
    /\ UNCHANGED <<hostVars, up, sweep, viewVars, cut, targets, used>>

ResumeChecks ==
    /\ call.pc = "check" /\ Reconciles("checked")
    /\ call' = [call EXCEPT !.pc = "view", !.turn = IF running' = <<>> THEN 0 ELSE Head(running')]
    /\ UNCHANGED <<hostVars, reqs, up, sweep, resumed, cut, targets, used>>

\* ... and the answer is applied after the directory has been verified.
ResumeEnds ==
    /\ call.pc = "view"
    /\ native' = Refreshed(native, Token(native), IF call.turn = 0 THEN "idle" ELSE "active", call.turn)
    /\ probes' = probes \cup OwnRepair(native')
    /\ call' = [call EXCEPT !.pc = "last"]
    /\ UNCHANGED <<hostVars, reqs, wire, up, running, sweep, resumed, cut, historyVars, used>>

CallEnds ==
    /\ call.pc = "last" /\ OwnRepairDone
    /\ call' = NoCall
    /\ UNCHANGED <<hostVars, reqs, wire, up, running, sweep, resumed, viewVars, cut, historyVars, used>>

-----------------------------------------------------------------------------
(* The channel is lost, and the endpoint with it: what was asked fails, what *)
(* was not heard is lost, the next activation has a runtime of its own.     *)
ConnectionLost ==
    /\ up /\ used.losses < MaxLosses
    /\ used' = [used EXCEPT !.losses = used.losses + 1]
    /\ up' = FALSE /\ reqs' = <<>> /\ wire' = <<>>
    /\ running' = <<>> /\ sweep' = FALSE /\ resumed' = FALSE
    /\ native' = Invalidated(native) /\ call' = NoCall
    /\ probes' = {p \in probes : p.pc = "asked"}
    /\ Trouble("lost", interrupt # NoInterrupt \/ sdk.results # <<>>)
    /\ cut' = cut \cup IF call.pc \in {"accept", "held"} THEN {call.turn} ELSE {}
    /\ UNCHANGED <<hostVars, targets>>

Reconnected ==
    /\ ~up /\ up' = TRUE
    /\ native' = Registered(native, native.view.gen + 1)
    /\ UNCHANGED <<hostVars, reqs, wire, running, sweep, resumed, probes, call, cut, historyVars, used>>

-----------------------------------------------------------------------------
Probe == \E p \in probes : ProbeBegins(p) \/ ProbeEnds(p)

Next ==
    \/ SdkFolds \/ SdkSucceeds \/ SdkAborts \/ HostReadsResult \/ HostReadsReceipt \/ HostServes
    \/ HostEvent \/ Probe \/ SweepBegins \/ SweepEnds
    \/ SendBegins \/ SendChooses \/ ModelSet \/ ModelFails \/ Accepted \/ Duplicate \/ DuplicateReturns
    \/ InterruptBegins \/ InterruptEnds
    \/ ResumeBegins \/ ResumeRecovers \/ ResumeChecks \/ ResumeEnds \/ CallEnds
    \/ ConnectionLost \/ Reconnected

Spec == Init /\ [][Next]_vars

\* The host and the process answer what they are asked, a call goes on, the
\* timer fires, the endpoint reconnects.  A turn need not end; nobody need call.
CallStep ==
    \/ SendChooses \/ ModelSet \/ Accepted \/ Duplicate \/ DuplicateReturns
    \/ InterruptEnds \/ ResumeBegins \/ ResumeRecovers \/ ResumeChecks \/ ResumeEnds \/ CallEnds

Fairness ==
    /\ WF_vars(HostServes) /\ WF_vars(SdkAborts \/ HostReadsReceipt) /\ WF_vars(HostReadsResult)
    /\ WF_vars(HostEvent) /\ WF_vars(CallStep) /\ WF_vars(Probe)
    /\ WF_vars(SweepBegins) /\ WF_vars(SweepEnds) /\ WF_vars(Reconnected)

FairSpec == Spec /\ Fairness

-----------------------------------------------------------------------------
(* Properties.                                                             *)
Untroubled == trouble = {}

\* Nothing is on its way between the process and the view.
Quiet ==
    /\ up /\ resumed /\ reqs = <<>> /\ wire = <<>> /\ sdk.results = <<>> /\ interrupt.pc = "none"
    /\ call.op = "none" /\ probes = {} /\ ~sweep

NotReinstated == native.view.turn = 0 \/ native.view.turn \notin native.dead
DeadIsOver == native.dead \cap Has(sdk) = {}
QueuedNotAdopted == native.view.turn \notin Queued(sdk)
BeliefIsTrue == running = host.inFlight
StatusIsTrue ==
    /\ native.view.status = "idle" => sdk.run = 0
    /\ native.view.status = "active" => native.view.turn = sdk.run

\* The view never holds a turn active that was seen to end in its generation
\* (native-session-state.ts, applyRefresh and applyStartResponse).  Outside the
\* cases "trouble" names, it holds no turn that is only queued, and takes no
\* turn for ended that the process still has; and whenever nothing is on its
\* way, view, runtime, host and process agree on what runs.
ViewIsTrue ==
    /\ NotReinstated
    /\ Quiet => native.view.status # "unknown"
    /\ Untroubled => DeadIsOver /\ QueuedNotAdopted
    /\ Quiet /\ Untroubled => BeliefIsTrue /\ StatusIsTrue

\* An interrupt aborts a turn that somebody asked to interrupt, never the next
\* one of the queue (claude-host/session.ts interrupt, claude-runtime.ts
\* turnInterrupt).
SparesOthers ==
    [][Len(sdk'.results) > Len(sdk.results) /\ Last(sdk'.results) = 0 /\ Untroubled => sdk.run \in targets]_vars

\* A message runs once: the process takes up no message but one that the host
\* has not accepted before, whatever connection it is sent over again.
RunsOnce == [][Has(sdk') \subseteq Has(sdk) \cup (accepted' \ accepted)]_vars

\* When the process has come to rest, the view does too: a turn that ended is
\* not shown as running for ever (session.ts consumeResult, the result of a
\* turn that others were folded into; reconcileRunningTurns).
StaleTurnRetires ==
    <>[](sdk.run = 0) => <>(trouble # {}) \/ <>[](native.view.status = "idle" /\ running = <<>>)

\* claude-runtime.ts:746: a turn whose start is in flight is not taken for one
\* that the host has forgotten.
SweepSparesStarts ==
    [][sweep /\ ~sweep' /\ up' =>
        (ToSet(running) \ ToSet(running')) \cap (ToSet(host.inFlight) \cup {call.turn}) = {}]_vars

=============================================================================
