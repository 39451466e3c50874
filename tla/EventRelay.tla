----------------------------- MODULE EventRelay -----------------------------
(***************************************************************************)
(* src/src/events/relay.ts: how the end of a worker's turn becomes an      *)
(* event for the assistant and a message to its owner.  One thread of one  *)
(* endpoint; its mapping in the registry may be removed and made again.    *)
(* The relay keeps what it still owes in memory only: exact targets, one   *)
(* retry timer, and a queue of jobs that run one at a time.  Around it are *)
(* the connection and the admission gate of the endpoint, and the thread   *)
(* gate the lifecycle of the session shares with the relay.                *)
(*                                                                         *)
(* An epoch belongs to one mapping, so a target names the mapping alone.   *)
(* The relay has a second mode that scans the history of the thread        *)
(* (reconcileEndpoint); nothing in the program calls it.                   *)
(***************************************************************************)
EXTENDS Naturals, Sequences, FiniteSets, SequencesExt

CONSTANTS
    Turns,          \* turns of the thread
    MaxMaps,        \* mappings the registry gives the thread, one after another
    MaxAttempts,    \* maxRecoveryAttempts, 6 in the program
    MaxTroubles     \* bound: losses, drains, failed reads and observations,
                    \* wakes of restored sessions, lifecycle steps of the session
                    \* and stops, together

ASSUME RelayAssumption ==
    MaxMaps \in Nat \ {0} /\ MaxAttempts \in Nat \ {0} /\ MaxTroubles \in Nat

VARIABLES
    host,   \* the endpoint: connection, admission, generation, owed recovery
    map,    \* the mapping of the thread and its lifecycle state
    gate,   \* who is inside the thread gate: "free", "job" or "move"
    open,   \* turns that have not ended
    notes,  \* notifications on their way to the relay
    relay,  \* the fields of EventRelay
    jobs,   \* endpointTails: what is queued
    run,    \* the job under way
    out,    \* what is durable: events, incidents and warnings by mapping
    left    \* troubles still allowed

vars == <<host, map, gate, open, notes, relay, jobs, run, out, left>>

Maps == 1..MaxMaps
Targets == [turn : Turns, map : Maps]
NoTimer == 0     \* generations count from 1; an armed timer is its generation
Idle == [pc |-> "idle"]

-----------------------------------------------------------------------------
(* The relay's own bookkeeping, on the record r of its fields. *)

RunIsCurrent(r, gen) == ~r.stopped /\ ~r.unavailable /\ r.gen = gen

Advanced(r) == [r EXCEPT !.gen = @ + 1, !.attempts = 0]

ClearRetryTimer(r) == [r EXCEPT !.timer = NoTimer]

Quiet(r) == [r EXCEPT !.timer = NoTimer, !.attempts = 0]

DegradedSilently(o, ms) == [o EXCEPT !.incident = @ \cup ms]

\* markRecoveryIncident and its warning, whose id is that of the mapping: a
\* second incident of one mapping finds the first warning.
Degraded(o, ms) ==
    [o EXCEPT !.incident = @ \cup ms, !.warned = @ \cup (ms \ o.incident)]

GivesUp(r) ==
    ~r.stopped /\ r.targets # {} /\ ~r.unavailable /\ r.timer = NoTimer /\ r.attempts >= MaxAttempts

ScheduleRetry(r) ==
    CASE r.stopped -> r
      [] ~r.stopped /\ r.targets = {} -> Quiet(r)
      [] GivesUp(r) -> Quiet([r EXCEPT !.targets = {}])
      [] ~r.stopped /\ r.targets # {} /\ ~GivesUp(r) ->
           IF r.unavailable \/ r.timer # NoTimer THEN r
           ELSE [r EXCEPT !.timer = r.gen, !.attempts = @ + 1]

\* scheduleRetry with degradePendingEndpoint.
Retry(r, o) ==
    [relay |-> ScheduleRetry(r),
     out   |-> IF GivesUp(r) THEN Degraded(o, {x.map : x \in r.targets}) ELSE o]

\* settleTarget, for a job of that kind: after a recovery the timer is armed at
\* the end of the pass.
Settled(r, o, x, outcome, gen, kind) ==
    LET again == outcome = "retry" \/ ~RunIsCurrent(r, gen)
        kept  == [r EXCEPT !.targets = IF again THEN @ \cup {x} ELSE @ \ {x}]
    IN  CASE r.stopped -> [relay |-> r, out |-> o]
          [] ~r.stopped /\ kept.targets = {} -> [relay |-> Quiet(kept), out |-> o]
          [] ~r.stopped /\ kept.targets # {} ->
               IF kind = "notify" THEN Retry(kept, o) ELSE [relay |-> kept, out |-> o]

\* endpointUnavailable
Unavailable(r) == IF r.stopped THEN r ELSE ClearRetryTimer(Advanced([r EXCEPT !.unavailable = TRUE]))

AwakeKeepingTimer(r) == Advanced([r EXCEPT !.unavailable = FALSE])

\* endpointReady, before it queues anything
Awake(r) == ClearRetryTimer(Advanced([r EXCEPT !.unavailable = FALSE]))

TargetStateOfThread(x) ==
    CASE map.state = "managed" -> "deliverable" [] map.state = "adopting" -> "retry" [] OTHER -> "stale"

\* targetState
TargetState(x) ==
    CASE map.state = "gone" \/ map.id # x.map -> "stale"
      [] map.id = x.map /\ map.state = "managed" -> "deliverable"
      [] map.id = x.map /\ map.state = "adopting" -> "retry"
      [] map.id = x.map /\ map.state = "leaving" -> "stale"

-----------------------------------------------------------------------------
(* The endpoint, its turns and the lifecycle of the session. *)

Init ==
    /\ host = [conn |-> "up", admits |-> TRUE, gen |-> 1, owed |-> FALSE]
    /\ map \in [id : {1}, state : {"managed", "adopting"}]
    /\ gate = "free"
    /\ open = Turns
    /\ notes = {} /\ jobs = <<>> /\ run = Idle
    /\ relay = [targets |-> {}, timer |-> NoTimer, attempts |-> 0, gen |-> 1,
                unavailable |-> FALSE, stopped |-> FALSE]
    /\ out = [events |-> {}, incident |-> {}, warned |-> {}]
    /\ left = MaxTroubles

\* The work lease a notification or a job may hold.
Admits == host.conn = "up" /\ host.admits
LeaseValid(lease) == lease = host.gen

\* A turn ends on the host, and processWorkerTerminalNotification takes in what
\* the endpoint says of it if it gets a ready lease, or else drops it: the turn
\* as a whole or only its identity, and a second time if the thread's change
\* to idle is told too.
TurnEnds(t) ==
    /\ t \in open /\ map.state \in {"managed", "adopting"}
    /\ open' = open \ {t}
    /\ \E told \in {{TRUE}, {FALSE}, {TRUE, FALSE}} :
         notes' = IF Admits THEN notes \cup [turn : {t}, full : told, lease : {host.gen}] ELSE notes
    /\ UNCHANGED <<host, map, gate, relay, jobs, run, out, left>>

\* handleNotification up to the job it queues; captureTarget under the gate.
NotificationCaptured(n) ==
    /\ n \in notes /\ gate = "free"
    /\ notes' = notes \ {n}
    /\ IF ~relay.stopped /\ map.state \in {"managed", "adopting"}
         THEN LET x == [turn |-> n.turn, map |-> map.id]
              IN  /\ relay' = [relay EXCEPT !.targets = @ \cup {x}]
                  /\ jobs' = Append(jobs, [kind |-> "notify", target |-> x, full |-> n.full, lease |-> n.lease])
         ELSE UNCHANGED <<relay, jobs>>
    /\ UNCHANGED <<host, map, gate, open, run, out, left>>

ConnectionLost ==
    /\ host.conn = "up" /\ left > 0
    /\ host' = [host EXCEPT !.conn = "dropped"]
    /\ left' = left - 1
    /\ UNCHANGED <<map, gate, open, notes, relay, jobs, run, out>>

\* markEndpointOwnersUnavailable; an adapter started again meanwhile never
\* reports the loss.
LossReported ==
    /\ host.conn = "dropped"
    /\ host' = [host EXCEPT !.conn = "down"]
    /\ relay' = Unavailable(relay)
    /\ UNCHANGED <<map, gate, open, notes, jobs, run, out, left>>

\* A connection is published: bindProjectEndpoint asks for a recovery.
Published(h) == [h EXCEPT !.conn = "up", !.gen = @ + 1, !.owed = TRUE]

Reconnected ==
    /\ host.conn \in {"dropped", "down"} /\ host.admits
    /\ host' = Published(host)
    /\ UNCHANGED <<map, gate, open, notes, relay, jobs, run, out, left>>

\* A lifecycle action of the endpoint closes the gate; a forced one discards
\* the leases.
DrainBegins ==
    /\ host.admits /\ left > 0
    /\ \E forced \in BOOLEAN :
         host' = [host EXCEPT !.admits = FALSE, !.gen = IF forced THEN @ + 1 ELSE @]
    /\ left' = left - 1
    /\ UNCHANGED <<map, gate, open, notes, relay, jobs, run, out>>

DrainRefused ==
    /\ ~host.admits /\ host.conn # "closed"
    /\ host' = [host EXCEPT !.admits = TRUE]
    /\ UNCHANGED <<map, gate, open, notes, relay, jobs, run, out, left>>

LiveLeases ==
    {n.lease : n \in notes} \cup {j.lease : j \in {k \in ToSet(jobs) : k.kind = "notify"}}
        \cup (IF run = Idle THEN {} ELSE {run.lease})

\* The action stops the runtime: the adapter is closed without a report.
RuntimeStopped ==
    /\ ~host.admits /\ host.conn # "closed" /\ host.gen \notin LiveLeases
    /\ host' = [host EXCEPT !.conn = "closed"]
    /\ UNCHANGED <<map, gate, open, notes, relay, jobs, run, out, left>>

Reopened ==
    /\ host.conn = "closed"
    /\ host' = Published([host EXCEPT !.admits = TRUE])
    /\ UNCHANGED <<map, gate, open, notes, relay, jobs, run, out, left>>

\* A step of the session's lifecycle under the thread gate: a removal, or an
\* adoption, either of which may be left half done.
MoveBegins ==
    /\ gate = "free" /\ gate' = "move" /\ left > 0 /\ left' = left - 1
    /\ \/ map.state = "managed" /\ map' = [map EXCEPT !.state = "leaving"]
       \/ map.state \in {"adopting", "leaving"} /\ UNCHANGED map
       \/ map.state = "gone" /\ map.id < MaxMaps /\ map' = [id |-> map.id + 1, state |-> "adopting"]
    /\ UNCHANGED <<host, open, notes, relay, jobs, run, out>>

MoveEnds ==
    /\ gate = "move" /\ gate' = "free"
    /\ \/ map.state = "adopting" /\ map' = [map EXCEPT !.state = "managed"]
       \/ map' = [map EXCEPT !.state = "gone"]
       \/ UNCHANGED map
    /\ UNCHANGED <<host, open, notes, relay, jobs, run, out, left>>

-----------------------------------------------------------------------------
(* The jobs of the relay. *)

Ends(res) == run' = Idle /\ relay' = res.relay /\ out' = res.out

\* A target has an outcome: a notification's job is over, a recovery goes on.
Outcome(outcome, o) ==
    LET res == Settled(relay, o, run.target, outcome, run.gen, run.kind)
    IN  IF run.kind = "notify" THEN Ends(res)
        ELSE /\ run' = [run EXCEPT !.pc = "next"] /\ relay' = res.relay /\ out' = res.out

\* An exception: classifyOne turns it into an outcome, a recovery is over.
Throws == IF run.kind = "notify" THEN Outcome("retry", out) ELSE Ends(Retry(relay, out))

JobBegins ==
    /\ run = Idle /\ jobs # <<>>
    /\ jobs' = Tail(jobs)
    /\ LET j == Head(jobs)
       IN  CASE relay.stopped \/ (j.kind # "notify" /\ ~RunIsCurrent(relay, j.gen)) ->
                  UNCHANGED <<relay, run, out>>
             [] ~relay.stopped /\ j.kind = "notify" ->
                  IF relay.unavailable \/ ~LeaseValid(j.lease)
                    THEN Ends(Settled(relay, out, j.target, "retry", relay.gen, "notify"))
                    ELSE /\ run' = [pc |-> "gate", kind |-> j.kind, gen |-> relay.gen, lease |-> j.lease,
                                    target |-> j.target, full |-> j.full, todo |-> {}]
                         /\ UNCHANGED <<relay, out>>
             [] j.kind # "notify" /\ RunIsCurrent(relay, j.gen) ->
                  IF ~Admits \/ relay.targets = {} THEN Ends(Retry(relay, out))
                  ELSE /\ run' = [pc |-> "next", kind |-> j.kind, gen |-> j.gen, lease |-> host.gen,
                                  target |-> CHOOSE x \in relay.targets : TRUE, full |-> FALSE,
                                  todo |-> relay.targets]
                       /\ UNCHANGED <<relay, out>>
    /\ UNCHANGED <<host, map, gate, open, notes, left>>

\* The loop over the targets of a recovery; that of endpointReady passes over
\* one that was settled meanwhile.
JobNext ==
    /\ run.pc = "next"
    /\ \/ /\ run.todo = {} \/ ~RunIsCurrent(relay, run.gen)
          /\ Ends(Retry(relay, out))
       \/ /\ RunIsCurrent(relay, run.gen)
          /\ \E x \in run.todo :
               run' = [run EXCEPT !.pc = IF run.kind = "ready" /\ x \notin relay.targets THEN "next" ELSE "gate",
                                  !.target = x, !.todo = @ \ {x}]
          /\ UNCHANGED <<relay, out>>
    /\ UNCHANGED <<host, map, gate, open, notes, jobs, left>>

\* projectTarget, inside the thread gate, up to its first await.
JobProjects ==
    /\ run.pc = "gate" /\ gate = "free"
    /\ IF ~RunIsCurrent(relay, run.gen) \/ TargetState(run.target) # "deliverable"
         THEN /\ Outcome(IF RunIsCurrent(relay, run.gen) /\ TargetState(run.target) = "stale"
                           THEN "ignored" ELSE "retry", out)
              /\ UNCHANGED gate
         ELSE /\ gate' = "job"
              /\ run' = [run EXCEPT !.pc = IF run.full THEN "commit" ELSE "read"]
              /\ UNCHANGED <<relay, out>>
    /\ UNCHANGED <<host, map, open, notes, jobs, left>>

\* findTurn and exactTurnItems.
JobReads ==
    /\ run.pc = "read" /\ host.conn = "up" /\ LeaseValid(run.lease)
    /\ IF RunIsCurrent(relay, run.gen)
         THEN run' = [run EXCEPT !.pc = "commit"] /\ UNCHANGED <<gate, relay, out>>
         ELSE gate' = "free" /\ Outcome("retry", out)
    /\ UNCHANGED <<host, map, open, notes, jobs, left>>

\* The turn is not in the history yet, the request fails, or the scan has used
\* its budget up.
JobReadFails ==
    /\ run.pc = "read" /\ gate' = "free"
    /\ IF host.conn = "up" /\ LeaseValid(run.lease)
         THEN /\ left > 0 /\ left' = left - 1
              /\ \/ Outcome("retry", out)
                 \/ Throws
                 \/ run.kind = "notify" /\ Outcome("needs_attention", Degraded(out, {run.target.map}))
         ELSE Throws /\ UNCHANGED left
    /\ UNCHANGED <<host, map, open, notes, jobs>>

\* commitTerminal and commitCurrentTerminal.  A current delivery clears the
\* incident.
JobCommits ==
    /\ run.pc = "commit" /\ gate' = "free"
    /\ LET healed == IF RunIsCurrent(relay, run.gen) THEN {run.target.map} ELSE {}
       IN  Outcome("handled", [out EXCEPT !.events = @ \cup {run.target}, !.incident = @ \ healed])
    /\ UNCHANGED <<host, map, open, notes, jobs, left>>

\* The observation of the terminal fails before anything was delivered.
JobCommitFails ==
    /\ run.pc = "commit" /\ gate' = "free"
    /\ left > 0 /\ left' = left - 1
    /\ Throws
    /\ UNCHANGED <<host, map, open, notes, jobs>>

TimerFires ==
    /\ relay.timer # NoTimer /\ RunIsCurrent(relay, relay.timer)
    /\ relay' = [relay EXCEPT !.timer = NoTimer]
    /\ jobs' = Append(jobs, [kind |-> "retry", gen |-> relay.timer])
    /\ UNCHANGED <<host, map, gate, open, notes, run, out, left>>

\* recoverEndpoint, without a scan of the history
EndpointReady ==
    IF relay.stopped THEN UNCHANGED <<relay, jobs>>
    ELSE /\ relay' = Awake(relay)
         /\ jobs' = IF relay.targets = {} THEN jobs ELSE Append(jobs, [kind |-> "ready", gen |-> relay.gen + 1])

\* recoverProjectEndpoint reaches the relay if it gets a ready lease.  Without
\* one it is tried again only after the next publication.
RecoveryRuns ==
    /\ host.owed /\ host' = [host EXCEPT !.owed = FALSE]
    /\ IF Admits THEN EndpointReady ELSE UNCHANGED <<relay, jobs>>
    /\ UNCHANGED <<map, gate, open, notes, run, out, left>>

\* wakeRestoredSessionOwners, when single sessions were restored
SessionsRestored ==
    /\ Admits /\ left > 0 /\ left' = left - 1
    /\ EndpointReady
    /\ UNCHANGED <<host, map, gate, open, notes, run, out>>

Stop ==
    /\ ~relay.stopped /\ left > 0 /\ left' = left - 1
    /\ relay' = Quiet([relay EXCEPT !.stopped = TRUE, !.targets = {}])
    /\ UNCHANGED <<host, map, gate, open, notes, jobs, run, out>>

Job == JobBegins \/ JobNext \/ JobProjects \/ JobReads \/ JobReadFails \/ JobCommits \/ JobCommitFails

Next ==
    \/ \E t \in Turns : TurnEnds(t)
    \/ \E n \in notes : NotificationCaptured(n)
    \/ ConnectionLost \/ LossReported \/ Reconnected
    \/ DrainBegins \/ DrainRefused \/ RuntimeStopped \/ Reopened
    \/ MoveBegins \/ MoveEnds
    \/ JobBegins \/ JobNext \/ JobProjects \/ JobReads \/ JobReadFails \/ JobCommits \/ JobCommitFails
    \/ TimerFires \/ RecoveryRuns \/ SessionsRestored \/ Stop

Spec == Init /\ [][Next]_vars

\* What the relay does itself goes on; the thread gate serves its queue in
\* order; a loss is reported, a lost connection comes back and its recovery
\* runs; actions on the endpoint and on the session come to their end.  A
\* closed endpoint need not be opened again.
Fairness ==
    /\ WF_vars(Job) /\ SF_vars(JobProjects) /\ WF_vars(TimerFires)
    /\ SF_vars(\E n \in notes : NotificationCaptured(n))
    /\ WF_vars(LossReported) /\ WF_vars(Reconnected) /\ WF_vars(RecoveryRuns)
    /\ WF_vars(DrainRefused \/ RuntimeStopped) /\ WF_vars(MoveEnds)

FairSpec == Spec /\ Fairness

-----------------------------------------------------------------------------
(* Properties *)

\* A relay that rests, not told of a loss, owes nothing that no timer of the
\* present generation will take up (settleTarget, scheduleRetry, retryEndpoint
\* and recoverEndpoint each may end the work on a target).
NothingStranded ==
    jobs = <<>> /\ run = Idle /\ ~relay.unavailable /\ relay.targets # {} => relay.timer = relay.gen

\* Whatever happened since a target was captured, its turn is reported only
\* while the mapping it was captured under is there and managed (targetState,
\* under the thread gate the session's lifecycle shares).
NothingForeign ==
    [][\A x \in out'.events \ out.events : map.id = x.map /\ map.state = "managed"]_vars

\* The relay was told of a loss and of no connection since, though there is
\* one, or the owner closed the endpoint: recoverProjectEndpoint was refused
\* by a drain and is not tried again.
Forsaken == relay.unavailable /\ ~host.owed /\ host.conn \in {"up", "closed"}

\* A captured target is eventually reported, becomes the business of no
\* present mapping, or the owner is warned about its mapping; no failed read,
\* loss, drain or re-adoption leaves it open for ever.
EveryTargetSettles ==
    \A x \in Targets :
      \/ <>[]Forsaken
      \/ x \in relay.targets ~>
           (relay.stopped \/ x \in out.events \/ x.map \in out.warned \/ TargetState(x) = "stale")
=============================================================================
