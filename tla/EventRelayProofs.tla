-------------------------- MODULE EventRelayProofs --------------------------
(***************************************************************************)
(* What holds of EventRelay for any number of turns, mappings, attempts    *)
(* and troubles.  Two invariants carry both results: the job that is past  *)
(* the check of its target holds the thread gate, so the mapping it saw    *)
(* cannot change under it; and an open target always has something that    *)
(* will take it up: the job under way, a queued one that is not outdated,  *)
(* or the timer of the present generation.                                 *)
(***************************************************************************)
EXTENDS EventRelay, SequenceTheorems, TLAPS

Relays == [targets : SUBSET Targets, timer : Nat, attempts : Nat, gen : Nat \ {0},
           unavailable : BOOLEAN, stopped : BOOLEAN]
Outs == [events : SUBSET Targets, incident : SUBSET Maps, warned : SUBSET Maps]
NotifyJobs == [kind : {"notify"}, target : Targets, full : BOOLEAN, lease : Nat]
RecoveryJobs == [kind : {"ready", "retry"}, gen : Nat]
Runs == [pc : {"next", "gate", "read", "commit"}, kind : {"notify", "ready", "retry"}, gen : Nat,
         lease : Nat, target : Targets, full : BOOLEAN, todo : SUBSET Targets]

Hosts == [conn : {"up", "dropped", "down", "closed"}, admits : BOOLEAN, gen : Nat, owed : BOOLEAN]
Notes == [turn : Turns, full : BOOLEAN, lease : Nat]

\* An armed timer is of the present generation; a stopped relay owes nothing.
RelayOK(r) ==
    /\ r \in Relays
    /\ r.timer # NoTimer => r.timer = r.gen /\ ~r.unavailable
    /\ r.stopped => r.targets = {}

Taken(r) == r.targets = {} \/ r.unavailable \/ r.timer # NoTimer

\* A job that will not be passed over as outdated.
Present(j) == j.kind = "notify" \/ j.gen = relay.gen

Typing ==
    /\ host \in Hosts
    /\ map \in [id : Maps, state : {"managed", "adopting", "leaving", "gone"}]
    /\ gate \in {"free", "job", "move"}
    /\ notes \subseteq Notes
    /\ jobs \in Seq(NotifyJobs \cup RecoveryJobs)
    /\ run \in {Idle} \cup Runs
    /\ out \in Outs

GateHeld ==
    /\ gate = "job" <=> run.pc \in {"read", "commit"}
    /\ gate = "job" => map.id = run.target.map /\ map.state = "managed"

Owed == Taken(relay) \/ run # Idle \/ \E i \in 1..Len(jobs) : Present(jobs[i])

Inv == Typing /\ RelayOK(relay) /\ GateHeld /\ Owed

\* The action NothingForeign speaks of.
OwnReports == \A x \in out'.events \ out.events : map.id = x.map /\ map.state = "managed"

-----------------------------------------------------------------------------
(* The operators on the record of the relay.                               *)

LEMMA AdvancedIs ==
    ASSUME NEW r \in Relays
    PROVE  /\ Advanced(r) \in Relays /\ Advanced(r).gen = r.gen + 1 /\ Advanced(r).targets = r.targets
           /\ Advanced(r).unavailable = r.unavailable /\ Advanced(r).stopped = r.stopped
<1> DEFINE g == r.gen + 1
<1>1. g \in Nat \ {0}
    BY DEF Relays
<1>2. Advanced(r) = [r EXCEPT !.gen = g, !.attempts = 0]
    BY DEF Advanced
<1> HIDE DEF g
<1>3. Advanced(r) \in Relays
    <2> DEFINE e == [r EXCEPT !.gen = g]
    <2>1. e \in Relays
        BY <1>1 DEF Relays
    <2>2. Advanced(r) = [e EXCEPT !.attempts = 0]
        BY <1>2 DEF Relays
    <2> HIDE DEF e
    <2> QED BY <2>1, <2>2 DEF Relays
<1>4. Advanced(r).gen = g
    BY <1>2 DEF Relays
<1>5. Advanced(r).targets = r.targets
    BY <1>2 DEF Relays
<1>6. Advanced(r).unavailable = r.unavailable /\ Advanced(r).stopped = r.stopped
    BY <1>2 DEF Relays
<1> QED BY <1>3, <1>4, <1>5, <1>6 DEF g

LEMMA ClearIs ==
    ASSUME NEW r \in Relays
    PROVE  /\ ClearRetryTimer(r) \in Relays /\ ClearRetryTimer(r).timer = NoTimer
           /\ ClearRetryTimer(r).gen = r.gen /\ ClearRetryTimer(r).targets = r.targets
           /\ ClearRetryTimer(r).unavailable = r.unavailable /\ ClearRetryTimer(r).stopped = r.stopped
BY DEF ClearRetryTimer, Relays, NoTimer

LEMMA QuietIs ==
    ASSUME NEW r \in Relays
    PROVE  /\ Quiet(r) \in Relays /\ Quiet(r).timer = NoTimer /\ Quiet(r).targets = r.targets
           /\ Quiet(r).stopped = r.stopped
BY DEF Quiet, Relays, NoTimer

LEMMA RetryFacts ==
    ASSUME NEW r, RelayOK(r), NEW o \in Outs
    PROVE  /\ RelayOK(Retry(r, o).relay) /\ Taken(Retry(r, o).relay)
           /\ Retry(r, o).out \in Outs /\ Retry(r, o).out.events = o.events
<1>1. RelayOK(ScheduleRetry(r)) /\ Taken(ScheduleRetry(r))
    <2> DEFINE empty == [r EXCEPT !.targets = {}]
               n == r.attempts + 1
               armed == [r EXCEPT !.timer = r.gen, !.attempts = n]
    <2>0. r \in Relays
        BY DEF RelayOK
    <2>1. CASE r.stopped
        <3>1. ScheduleRetry(r) = r
            BY <2>1 DEF ScheduleRetry, GivesUp
        <3> QED BY <2>1, <3>1 DEF RelayOK, Taken
    <2>2. CASE ~r.stopped /\ r.targets = {}
        <3>1. ScheduleRetry(r) = Quiet(r)
            BY <2>2 DEF ScheduleRetry, GivesUp
        <3> QED BY <2>0, <2>2, <3>1, QuietIs DEF RelayOK, Taken
    <2>3. CASE GivesUp(r)
        <3>1. ScheduleRetry(r) = Quiet(empty)
            BY <2>3 DEF ScheduleRetry, GivesUp
        <3>2. empty \in Relays /\ empty.targets = {}
            BY <2>0 DEF Relays
        <3> HIDE DEF empty
        <3> QED BY <3>1, <3>2, QuietIs DEF RelayOK, Taken
    <2>4. CASE ~r.stopped /\ r.targets # {} /\ ~GivesUp(r)
        <3>1. ScheduleRetry(r) = IF r.unavailable \/ r.timer # NoTimer THEN r ELSE armed
            BY <2>4 DEF ScheduleRetry
        <3>2. CASE r.unavailable \/ r.timer # NoTimer
            BY <3>1, <3>2 DEF RelayOK, Taken
        <3>3. CASE ~(r.unavailable \/ r.timer # NoTimer)
            <4>0. n \in Nat
                BY <2>0 DEF Relays
            <4> HIDE DEF n
            <4>1. /\ armed \in Relays /\ armed.timer = r.gen /\ armed.gen = r.gen /\ r.gen # NoTimer
                  /\ armed.unavailable = r.unavailable /\ armed.stopped = r.stopped
                BY <2>0, <4>0 DEF Relays, NoTimer
            <4> HIDE DEF armed
            <4> QED BY <2>4, <3>1, <3>3, <4>1 DEF RelayOK, Taken
        <3> QED BY <3>2, <3>3
    <2> QED BY <2>1, <2>2, <2>3, <2>4
<1> DEFINE ms == {x.map : x \in r.targets}
<1>2. ms \subseteq Maps
    BY DEF RelayOK, Relays, Targets
<1>3. Degraded(o, ms) \in Outs /\ Degraded(o, ms).events = o.events
    BY <1>2 DEF Degraded, Outs
<1> QED BY <1>1, <1>3 DEF Retry

LEMMA SettledFacts ==
    ASSUME NEW r, RelayOK(r), NEW o \in Outs, NEW x \in Targets, NEW outcome, NEW gen, NEW kind
    PROVE  LET res == Settled(r, o, x, outcome, gen, kind)
           IN  /\ RelayOK(res.relay) /\ (kind = "notify" => Taken(res.relay))
               /\ res.out \in Outs /\ res.out.events = o.events
<1> DEFINE again == outcome = "retry" \/ ~RunIsCurrent(r, gen)
           ts == IF again THEN r.targets \cup {x} ELSE r.targets \ {x}
           kept == [r EXCEPT !.targets = ts]
           res == Settled(r, o, x, outcome, gen, kind)
<1>1. ts \in SUBSET Targets
    BY DEF RelayOK, Relays
<1>2. res = IF r.stopped THEN [relay |-> r, out |-> o]
            ELSE IF kept.targets = {} THEN [relay |-> Quiet(kept), out |-> o]
            ELSE IF kind = "notify" THEN Retry(kept, o) ELSE [relay |-> kept, out |-> o]
    BY DEF Settled, RelayOK, Relays
<1>3. CASE r.stopped
    BY <1>2, <1>3 DEF RelayOK, Taken
<1>4. CASE ~r.stopped
    <2> HIDE DEF ts
    <2>1. RelayOK(kept)
        BY <1>1, <1>4 DEF RelayOK, Relays
    <2>2. CASE kept.targets = {}
        <3>1. res = [relay |-> Quiet(kept), out |-> o]
            BY <1>2, <1>4, <2>2
        <3>2. RelayOK(Quiet(kept)) /\ Taken(Quiet(kept))
            BY <2>1, <2>2 DEF RelayOK, Taken, Quiet, Relays, NoTimer
        <3> QED BY <3>1, <3>2
    <2>3. CASE kept.targets # {} /\ kind = "notify"
        <3>1. res = Retry(kept, o)
            BY <1>2, <1>4, <2>3
        <3> HIDE DEF kept, res
        <3> QED BY <3>1, <2>1, RetryFacts DEF res
    <2>4. CASE kept.targets # {} /\ kind # "notify"
        BY <1>2, <1>4, <2>1, <2>4
    <2> QED BY <2>2, <2>3, <2>4
<1> QED BY <1>3, <1>4

LEMMA UnavailableFacts ==
    ASSUME NEW r, RelayOK(r)
    PROVE  RelayOK(Unavailable(r)) /\ Taken(Unavailable(r))
<1> DEFINE a == [r EXCEPT !.unavailable = TRUE]
<1>1. CASE r.stopped
    BY <1>1 DEF Unavailable, RelayOK, Taken
<1>2. CASE ~r.stopped
    <2>1. a \in Relays /\ a.unavailable /\ a.stopped = r.stopped
        BY DEF RelayOK, Relays
    <2>2. Unavailable(r) = ClearRetryTimer(Advanced(a))
        BY <1>2 DEF Unavailable
    <2> HIDE DEF a
    <2> QED BY <1>2, <2>1, <2>2, AdvancedIs, ClearIs DEF RelayOK, Taken
<1> QED BY <1>1, <1>2

LEMMA AwakeFacts ==
    ASSUME NEW r, RelayOK(r)
    PROVE  RelayOK(Awake(r)) /\ Awake(r).targets = r.targets /\ Awake(r).gen = r.gen + 1
<1> DEFINE a == [r EXCEPT !.unavailable = FALSE]
<1>1. a \in Relays /\ a.targets = r.targets /\ a.gen = r.gen /\ a.stopped = r.stopped
    BY DEF RelayOK, Relays
<1>2. Awake(r) = ClearRetryTimer(Advanced(a))
    BY DEF Awake
<1> HIDE DEF a
<1> QED BY <1>1, <1>2, AdvancedIs, ClearIs DEF RelayOK

-----------------------------------------------------------------------------
(* The steps of a job.                                                     *)

\* What every step that lets go of a target leaves behind.
LetGo ==
    /\ run' \in {Idle} \cup Runs /\ run'.pc \notin {"read", "commit"}
    /\ RelayOK(relay') /\ (Taken(relay') \/ run' # Idle)
    /\ out' \in Outs

LEMMA RunIsRecord ==
    ASSUME Typing, run.pc # "idle" PROVE run \in Runs
BY DEF Typing, Idle

LEMMA NextRun ==
    ASSUME run \in Runs
    PROVE  LET e == [run EXCEPT !.pc = "next"] IN e \in Runs /\ e.pc = "next" /\ e # Idle
<1> DEFINE e == [run EXCEPT !.pc = "next"]
<1>1. e \in Runs /\ e.pc = "next"
    BY DEF Runs
<1>2. Idle.pc = "idle"
    BY DEF Idle
<1> QED BY <1>1, <1>2

LEMMA OutcomeFacts ==
    ASSUME Typing, RelayOK(relay), run \in Runs, NEW outcome, NEW o \in Outs, Outcome(outcome, o)
    PROVE  LetGo /\ out'.events = o.events
<1> DEFINE res == Settled(relay, o, run.target, outcome, run.gen, run.kind)
<1>1. run.target \in Targets
    BY DEF Runs
<1>2. /\ RelayOK(res.relay) /\ (run.kind = "notify" => Taken(res.relay))
      /\ res.out \in Outs /\ res.out.events = o.events
    BY <1>1, SettledFacts
<1>3. relay' = res.relay /\ out' = res.out
    BY DEF Outcome, Ends
<1>4. CASE run.kind = "notify"
    <2>1. run' = Idle
        BY <1>4 DEF Outcome, Ends
    <2>2. run'.pc = "idle"
        BY <2>1 DEF Idle
    <2> HIDE DEF res
    <2> QED BY <1>2, <1>3, <1>4, <2>1, <2>2 DEF LetGo
<1>5. CASE run.kind # "notify"
    <2>1. run' = [run EXCEPT !.pc = "next"]
        BY <1>5 DEF Outcome
    <2> HIDE DEF res
    <2> QED BY <1>2, <1>3, <2>1, NextRun DEF LetGo
<1> QED BY <1>4, <1>5

LEMMA EndsFacts ==
    ASSUME RelayOK(relay), out \in Outs, Ends(Retry(relay, out))
    PROVE  LetGo /\ out'.events = out.events
<1>1. run' = Idle /\ relay' = Retry(relay, out).relay /\ out' = Retry(relay, out).out
    BY DEF Ends
<1>2. run'.pc = "idle"
    BY <1>1 DEF Idle
<1> QED BY <1>1, <1>2, RetryFacts DEF LetGo

LEMMA ThrowsFacts ==
    ASSUME Typing, RelayOK(relay), run \in Runs, Throws
    PROVE  LetGo /\ out'.events = out.events
<1>1. out \in Outs
    BY DEF Typing
<1> QED BY <1>1, OutcomeFacts, EndsFacts DEF Throws

\* Such a step keeps the invariant, with the gate free.
LEMMA LetGoKeeps ==
    ASSUME Inv, LetGo, gate' = "free", UNCHANGED <<map, jobs>>, host' = host, notes' = notes
    PROVE  Inv'
<1>1. Typing'
    BY DEF Inv, Typing, LetGo
<1>2. GateHeld'
    BY DEF LetGo, GateHeld
<1>3. Owed' /\ RelayOK(relay)'
    BY DEF LetGo, Owed
<1> QED BY <1>1, <1>2, <1>3 DEF Inv

LEMMA NextKeeps == ASSUME Inv, JobNext PROVE Inv' /\ OwnReports
<1>1. run \in Runs /\ out \in Outs /\ RelayOK(relay)
    BY RunIsRecord DEF Inv, Typing, JobNext
<1>2. CASE Ends(Retry(relay, out))
    <2>1. LetGo /\ out'.events = out.events
        BY <1>1, <1>2, EndsFacts
    <2>2. gate # "job"
        BY DEF JobNext, Inv, GateHeld
    <2>3. Typing' /\ GateHeld'
        BY <2>1, <2>2 DEF Inv, Typing, LetGo, GateHeld, JobNext
    <2>4. Owed' /\ RelayOK(relay)'
        BY <2>1 DEF LetGo, Owed
    <2> QED BY <2>1, <2>3, <2>4 DEF Inv, OwnReports
<1>3. CASE UNCHANGED <<relay, out>> /\ \E x \in run.todo :
               run' = [run EXCEPT !.pc = IF run.kind = "ready" /\ x \notin relay.targets THEN "next" ELSE "gate",
                                  !.target = x, !.todo = @ \ {x}]
    <2>1. PICK x \in run.todo :
               run' = [run EXCEPT !.pc = IF run.kind = "ready" /\ x \notin relay.targets THEN "next" ELSE "gate",
                                  !.target = x, !.todo = @ \ {x}]
        BY <1>3
    <2> DEFINE pc == IF run.kind = "ready" /\ x \notin relay.targets THEN "next" ELSE "gate"
               todo == run.todo \ {x}
    <2>2. x \in Targets /\ todo \in SUBSET Targets /\ pc \in {"next", "gate"}
        BY <1>1, <2>1 DEF Runs
    <2>3. run' = [run EXCEPT !.pc = pc, !.target = x, !.todo = todo]
        BY <2>1
    <2> HIDE DEF pc, todo
    <2>4. run' \in Runs /\ run'.pc \in {"next", "gate"}
        BY <1>1, <2>2, <2>3 DEF Runs
    <2>5. run' # Idle
        BY <2>4 DEF Idle
    <2>6. gate # "job"
        BY DEF JobNext, Inv, GateHeld
    <2>7. Typing' /\ GateHeld'
        BY <1>3, <2>4, <2>6 DEF Inv, Typing, GateHeld, JobNext
    <2> QED BY <1>1, <1>3, <2>5, <2>7 DEF Inv, Owed, OwnReports
<1> QED BY <1>2, <1>3 DEF JobNext

LEMMA ProjectsKeeps == ASSUME Inv, JobProjects PROVE Inv' /\ OwnReports
<1>1. run \in Runs /\ out \in Outs /\ RelayOK(relay) /\ Typing
    BY RunIsRecord DEF Inv, Typing, JobProjects
<1>2. CASE ~RunIsCurrent(relay, run.gen) \/ TargetState(run.target) # "deliverable"
    <2>1. gate' = "free" /\ host' = host /\ notes' = notes /\ UNCHANGED <<map, jobs>>
        BY <1>2 DEF JobProjects
    <2>2. PICK outcome : Outcome(outcome, out)
        BY <1>2 DEF JobProjects
    <2>3. LetGo /\ out'.events = out.events
        BY <1>1, <2>2, OutcomeFacts
    <2> QED BY <2>1, <2>3, LetGoKeeps DEF OwnReports
<1>3. CASE RunIsCurrent(relay, run.gen) /\ TargetState(run.target) = "deliverable"
    <2> DEFINE pc == IF run.full THEN "commit" ELSE "read"
    <2>1. gate' = "job" /\ run' = [run EXCEPT !.pc = pc] /\ UNCHANGED <<relay, out, host, map, notes, jobs>>
        BY <1>3 DEF JobProjects
    <2>2. pc \in {"read", "commit"}
        OBVIOUS
    <2> HIDE DEF pc
    <2>3. run' \in Runs /\ run'.pc \in {"read", "commit"} /\ run'.target = run.target
        BY <1>1, <2>1, <2>2 DEF Runs
    <2>4. map.id = run.target.map /\ map.state = "managed"
        BY <1>1, <1>3 DEF TargetState, Typing
    <2>5. run' # Idle
        BY <2>3 DEF Idle
    <2>6. Typing' /\ GateHeld'
        BY <1>1, <2>1, <2>3, <2>4 DEF Typing, GateHeld
    <2> QED BY <1>1, <2>1, <2>5, <2>6 DEF Inv, Owed, OwnReports
<1> QED BY <1>2, <1>3

LEMMA ReadsKeeps == ASSUME Inv, JobReads PROVE Inv' /\ OwnReports
<1>1. run \in Runs /\ out \in Outs /\ RelayOK(relay) /\ Typing
    BY RunIsRecord DEF Inv, Typing, JobReads
<1>2. CASE ~RunIsCurrent(relay, run.gen)
    <2>1. LetGo /\ out'.events = out.events
        BY <1>1, <1>2, OutcomeFacts DEF JobReads
    <2> QED BY <1>2, <2>1, LetGoKeeps DEF OwnReports, JobReads
<1>3. CASE RunIsCurrent(relay, run.gen)
    <2>1. run' = [run EXCEPT !.pc = "commit"] /\ UNCHANGED <<gate, relay, out, host, map, notes, jobs>>
        BY <1>3 DEF JobReads
    <2>2. run' \in Runs /\ run'.pc = "commit" /\ run'.target = run.target
        BY <1>1, <2>1 DEF Runs
    <2>3. run' # Idle
        BY <2>2 DEF Idle
    <2>4. Typing' /\ GateHeld'
        BY <1>1, <2>1, <2>2 DEF Typing, GateHeld, Inv, JobReads
    <2> QED BY <1>1, <2>1, <2>3, <2>4 DEF Inv, Owed, OwnReports
<1> QED BY <1>2, <1>3

LEMMA ReadFailsKeeps == ASSUME Inv, JobReadFails PROVE Inv' /\ OwnReports
<1>1. run \in Runs /\ out \in Outs /\ RelayOK(relay) /\ Typing
    BY RunIsRecord DEF Inv, Typing, JobReadFails
<1> DEFINE o == Degraded(out, {run.target.map})
<1>2. o \in Outs /\ o.events = out.events
    BY <1>1 DEF Degraded, Outs, Runs, Targets
<1>3. Outcome("retry", out) \/ Throws \/ Outcome("needs_attention", o)
    BY DEF JobReadFails
<1> HIDE DEF o
<1>4. LetGo /\ out'.events = out.events
    BY <1>1, <1>2, <1>3, OutcomeFacts, ThrowsFacts
<1> QED BY <1>4, LetGoKeeps DEF OwnReports, JobReadFails

LEMMA CommitsKeeps == ASSUME Inv, JobCommits PROVE Inv' /\ OwnReports
<1>1. run \in Runs /\ out \in Outs /\ RelayOK(relay) /\ Typing
    BY RunIsRecord DEF Inv, Typing, JobCommits
<1> DEFINE healed == IF RunIsCurrent(relay, run.gen) THEN {run.target.map} ELSE {}
           o == [out EXCEPT !.events = @ \cup {run.target}, !.incident = @ \ healed]
<1>2. o \in Outs /\ o.events = out.events \cup {run.target}
    <2> HIDE DEF healed
    <2> QED BY <1>1 DEF Outs, Runs
<1>3. Outcome("handled", o)
    BY DEF JobCommits
<1> HIDE DEF o
<1>4. LetGo /\ out'.events = out.events \cup {run.target}
    BY <1>1, <1>2, <1>3, OutcomeFacts
<1>5. map.id = run.target.map /\ map.state = "managed"
    BY DEF JobCommits, Inv, GateHeld
<1> QED BY <1>4, <1>5, LetGoKeeps DEF OwnReports, JobCommits

LEMMA CommitFailsKeeps == ASSUME Inv, JobCommitFails PROVE Inv' /\ OwnReports
<1>1. run \in Runs /\ RelayOK(relay) /\ Typing
    BY RunIsRecord DEF Inv, Typing, JobCommitFails
<1>2. LetGo /\ out'.events = out.events
    BY <1>1, ThrowsFacts DEF JobCommitFails
<1> QED BY <1>2, LetGoKeeps DEF OwnReports, JobCommitFails

-----------------------------------------------------------------------------
(* The queue of jobs.                                                      *)

\* A job that is not passed over stays a witness when one is added.
LEMMA AppendOwes ==
    ASSUME NEW q \in Seq(NotifyJobs \cup RecoveryJobs), NEW j \in NotifyJobs \cup RecoveryJobs
    PROVE  /\ Append(q, j) \in Seq(NotifyJobs \cup RecoveryJobs)
           /\ \A i \in 1..Len(q) : i \in 1..Len(Append(q, j)) /\ Append(q, j)[i] = q[i]
           /\ Len(q) + 1 \in 1..Len(Append(q, j)) /\ Append(q, j)[Len(q) + 1] = j
BY AppendProperties, LenProperties

LEMMA TailOwes ==
    ASSUME NEW q \in Seq(NotifyJobs \cup RecoveryJobs), q # <<>>
    PROVE  /\ Tail(q) \in Seq(NotifyJobs \cup RecoveryJobs) /\ Head(q) \in NotifyJobs \cup RecoveryJobs
           /\ Head(q) = q[1]
           /\ \A i \in 1..Len(q) : i # 1 => i - 1 \in 1..Len(Tail(q)) /\ Tail(q)[i - 1] = q[i]
<1>1. /\ Head(q) \in NotifyJobs \cup RecoveryJobs /\ Tail(q) \in Seq(NotifyJobs \cup RecoveryJobs)
      /\ Len(Tail(q)) = Len(q) - 1 /\ Len(q) \in Nat
      /\ \A i \in 1..Len(Tail(q)) : Tail(q)[i] = q[i + 1]
    BY HeadTailProperties, LenProperties
<1>2. Head(q) = q[1]
    OBVIOUS
<1>3. \A i \in 1..Len(q) : i # 1 => i - 1 \in 1..Len(Tail(q)) /\ (i - 1) + 1 = i
    BY <1>1
<1>4. \A i \in 1..Len(q) : i # 1 => Tail(q)[i - 1] = q[i]
    BY <1>1, <1>3
<1> QED BY <1>1, <1>2, <1>3, <1>4

LEMMA BeginsKeeps == ASSUME Inv, JobBegins PROVE Inv' /\ OwnReports
<1> DEFINE j == Head(jobs)
<1>1. /\ run = Idle /\ jobs # <<>> /\ jobs' = Tail(jobs)
      /\ UNCHANGED <<host, map, gate, notes>>
    BY DEF JobBegins
<1>2. jobs' \in Seq(NotifyJobs \cup RecoveryJobs) /\ j \in NotifyJobs \cup RecoveryJobs
    BY <1>1, TailOwes DEF Inv, Typing
<1>3. RelayOK(relay) /\ out \in Outs /\ gate # "job" /\ host.gen \in Nat
    BY <1>1 DEF Inv, Typing, Hosts, GateHeld, Idle
<1>4. CASE relay.stopped \/ (j.kind # "notify" /\ ~RunIsCurrent(relay, j.gen))
    <2>1. UNCHANGED <<relay, run, out>>
        BY <1>4 DEF JobBegins, RunIsCurrent
    <2>2. Owed'
        <3>1. CASE relay.stopped
            BY <1>3, <2>1, <3>1 DEF RelayOK, Owed, Taken
        <3>2. CASE ~relay.stopped
            <4>1. SUFFICES ASSUME ~Taken(relay) PROVE \E i \in 1..Len(jobs') : Present(jobs'[i])
                BY <2>1 DEF Owed, Present
            <4>2. PICK i \in 1..Len(jobs) : Present(jobs[i])
                BY <1>1, <4>1 DEF Inv, Owed
            <4>3. ~Present(j)
                BY <1>4, <3>2, <4>1 DEF Present, RunIsCurrent, Taken
            <4>4. i - 1 \in 1..Len(jobs') /\ jobs'[i - 1] = jobs[i]
                BY <1>1, <4>2, <4>3, TailOwes DEF Inv, Typing
            <4> QED BY <4>2, <4>4
        <3> QED BY <3>1, <3>2
    <2> QED BY <1>1, <1>2, <1>3, <2>1, <2>2 DEF Inv, Typing, GateHeld, OwnReports
<1>5. CASE ~relay.stopped /\ j.kind = "notify"
    <2>1. j \in NotifyJobs
        BY <1>2, <1>5 DEF RecoveryJobs
    <2>2. CASE relay.unavailable \/ ~LeaseValid(j.lease)
        <3> DEFINE res == Settled(relay, out, j.target, "retry", relay.gen, "notify")
        <3>1. run' = Idle /\ relay' = res.relay /\ out' = res.out
            BY <1>5, <2>2 DEF JobBegins, Ends
        <3>2. RelayOK(res.relay) /\ Taken(res.relay) /\ res.out \in Outs /\ res.out.events = out.events
            <4>1. j.target \in Targets
                BY <2>1 DEF NotifyJobs
            <4> QED BY <1>3, <4>1, SettledFacts
        <3> HIDE DEF res
        <3>3. Typing' /\ GateHeld'
            BY <1>1, <1>2, <1>3, <3>1, <3>2 DEF Inv, Typing, GateHeld, Idle
        <3> QED BY <3>1, <3>2, <3>3 DEF Inv, Owed, OwnReports
    <2>3. CASE ~(relay.unavailable \/ ~LeaseValid(j.lease))
        <3>1. /\ run' = [pc |-> "gate", kind |-> j.kind, gen |-> relay.gen, lease |-> j.lease,
                         target |-> j.target, full |-> j.full, todo |-> {}]
              /\ UNCHANGED <<relay, out>>
            BY <1>5, <2>3 DEF JobBegins
        <3>2. run' \in Runs /\ run'.pc = "gate"
            BY <1>3, <1>5, <2>1, <3>1 DEF Runs, NotifyJobs, RelayOK, Relays
        <3>3. run' # Idle
            BY <3>2 DEF Idle
        <3>4. Typing' /\ GateHeld'
            BY <1>1, <1>2, <1>3, <3>1, <3>2 DEF Inv, Typing, GateHeld
        <3> QED BY <1>3, <3>1, <3>3, <3>4 DEF Inv, Owed, OwnReports
    <2> QED BY <2>2, <2>3
<1>6. CASE ~relay.stopped /\ j.kind # "notify" /\ RunIsCurrent(relay, j.gen)
    <2>1. j \in RecoveryJobs
        BY <1>2, <1>6 DEF NotifyJobs
    <2>2. CASE ~Admits \/ relay.targets = {}
        <3>1. LetGo /\ out'.events = out.events /\ run' = Idle
            BY <1>3, <1>6, <2>2, EndsFacts DEF JobBegins, Ends
        <3>2. Typing' /\ GateHeld'
            BY <1>1, <1>2, <1>3, <3>1 DEF Inv, Typing, GateHeld, LetGo
        <3> QED BY <3>1, <3>2 DEF Inv, Owed, OwnReports, LetGo
    <2>3. CASE ~(~Admits \/ relay.targets = {})
        <3> DEFINE x == CHOOSE y \in relay.targets : TRUE
        <3>1. /\ run' = [pc |-> "next", kind |-> j.kind, gen |-> j.gen, lease |-> host.gen,
                         target |-> x, full |-> FALSE, todo |-> relay.targets]
              /\ UNCHANGED <<relay, out>>
            BY <1>6, <2>3 DEF JobBegins
        <3>2. x \in Targets /\ relay.targets \in SUBSET Targets
            BY <1>3, <2>3 DEF RelayOK, Relays
        <3> HIDE DEF x
        <3>3. run' \in Runs /\ run'.pc = "next"
            BY <1>3, <2>1, <3>1, <3>2 DEF Runs, RecoveryJobs
        <3>4. run' # Idle
            BY <3>3 DEF Idle
        <3>5. Typing' /\ GateHeld'
            BY <1>1, <1>2, <1>3, <3>1, <3>3 DEF Inv, Typing, GateHeld
        <3> QED BY <1>3, <3>1, <3>4, <3>5 DEF Inv, Owed, OwnReports
    <2> QED BY <2>2, <2>3
<1> QED BY <1>4, <1>5, <1>6 DEF RunIsCurrent

-----------------------------------------------------------------------------
(* The steps around the jobs.                                              *)

\* The endpoint and its turns do not touch what the invariant is about.
LEMMA AsideKeeps ==
    ASSUME Inv, UNCHANGED <<map, gate, relay, jobs, run, out>>, host' \in Hosts, notes' \subseteq Notes
    PROVE  Inv' /\ OwnReports
<1>1. Typing' /\ GateHeld'
    BY DEF Inv, Typing, GateHeld
<1>2. Owed' /\ RelayOK(relay)'
    BY DEF Inv, Owed, Present
<1> QED BY <1>1, <1>2 DEF Inv, OwnReports

LEMMA HostKeeps ==
    ASSUME Inv, ConnectionLost \/ Reconnected \/ DrainBegins \/ DrainRefused \/ RuntimeStopped \/ Reopened
    PROVE  Inv' /\ OwnReports
<1>0. host \in Hosts /\ notes \subseteq Notes
    BY DEF Inv, Typing
<1> DEFINE next == host.gen + 1
<1>1. next \in Nat
    BY <1>0 DEF Hosts
<1>2. notes' = notes /\ UNCHANGED <<map, gate, relay, jobs, run, out>>
    BY DEF ConnectionLost, Reconnected, DrainBegins, DrainRefused, RuntimeStopped, Reopened
<1>3. \A h \in Hosts : h.gen = host.gen => Published(h) \in Hosts
    <2> SUFFICES ASSUME NEW h \in Hosts, h.gen = host.gen PROVE Published(h) \in Hosts
        OBVIOUS
    <2>1. Published(h) = [h EXCEPT !.conn = "up", !.gen = next, !.owed = TRUE]
        BY DEF Published
    <2> HIDE DEF next
    <2> QED BY <1>1, <2>1 DEF Hosts
<1>4. host' \in Hosts
    <2>1. CASE ConnectionLost \/ DrainRefused \/ RuntimeStopped
        BY <1>0, <2>1 DEF ConnectionLost, DrainRefused, RuntimeStopped, Hosts
    <2>2. CASE Reconnected
        BY <1>0, <1>3, <2>2 DEF Reconnected
    <2>3. CASE Reopened
        <3> DEFINE h == [host EXCEPT !.admits = TRUE]
        <3>1. h \in Hosts /\ h.gen = host.gen
            BY <1>0 DEF Hosts
        <3>2. host' = Published(h)
            BY <2>3 DEF Reopened
        <3> HIDE DEF h
        <3> QED BY <1>3, <3>1, <3>2
    <2>4. CASE DrainBegins
        <3>1. PICK forced \in BOOLEAN :
                 host' = [host EXCEPT !.admits = FALSE, !.gen = IF forced THEN next ELSE host.gen]
            BY <2>4 DEF DrainBegins
        <3> DEFINE g == IF forced THEN next ELSE host.gen
        <3>2. g \in Nat
            BY <1>0, <1>1 DEF Hosts
        <3>3. host' = [host EXCEPT !.admits = FALSE, !.gen = g]
            BY <3>1
        <3> HIDE DEF g
        <3> QED BY <1>0, <3>2, <3>3 DEF Hosts
    <2> QED BY <2>1, <2>2, <2>3, <2>4
<1> QED BY <1>0, <1>2, <1>4, AsideKeeps

LEMMA TurnEndsKeeps == ASSUME Inv, NEW t \in Turns, TurnEnds(t) PROVE Inv' /\ OwnReports
<1>1. host \in Hosts /\ notes \subseteq Notes /\ host' = host /\ UNCHANGED <<map, gate, relay, jobs, run, out>>
    BY DEF Inv, Typing, TurnEnds
<1>2. PICK told \in {{TRUE}, {FALSE}, {TRUE, FALSE}} :
         notes' = IF Admits THEN notes \cup [turn : {t}, full : told, lease : {host.gen}] ELSE notes
    BY DEF TurnEnds
<1>3. [turn : {t}, full : told, lease : {host.gen}] \subseteq Notes
    BY <1>1 DEF Hosts, Notes
<1> QED BY <1>1, <1>2, <1>3, AsideKeeps

LEMMA MoveKeeps == ASSUME Inv, MoveBegins \/ MoveEnds PROVE Inv' /\ OwnReports
<1>1. gate # "job" /\ gate' # "job" /\ gate' \in {"free", "move"}
    BY DEF MoveBegins, MoveEnds
<1>2. UNCHANGED <<host, notes, relay, jobs, run, out>>
    BY DEF MoveBegins, MoveEnds
<1>3. map' \in [id : Maps, state : {"managed", "adopting", "leaving", "gone"}]
    <2> DEFINE next == map.id + 1
    <2>0. map.id \in Maps /\ (map.id < MaxMaps => next \in Maps)
        BY RelayAssumption DEF Inv, Typing, Maps
    <2>1. CASE MoveBegins
        <3>1. \/ map' = [map EXCEPT !.state = "leaving"] \/ map' = map
              \/ map.id < MaxMaps /\ map' = [id |-> next, state |-> "adopting"]
            BY <2>1 DEF MoveBegins
        <3> HIDE DEF next
        <3> QED BY <2>0, <3>1 DEF Inv, Typing
    <2>2. CASE MoveEnds
        BY <2>2 DEF MoveEnds, Inv, Typing
    <2> QED BY <2>1, <2>2
<1>4. Typing' /\ GateHeld'
    BY <1>1, <1>2, <1>3 DEF Inv, Typing, GateHeld
<1>5. Owed' /\ RelayOK(relay)'
    BY <1>2 DEF Inv, Owed, Present
<1> QED BY <1>2, <1>4, <1>5 DEF Inv, OwnReports

\* A step that only adds a job the relay will not pass over.
LEMMA QueuedKeeps ==
    ASSUME Inv, NEW j \in NotifyJobs \cup RecoveryJobs, jobs' = Append(jobs, j), RelayOK(relay'),
           j.kind = "notify" \/ j.gen = relay'.gen,
           UNCHANGED <<map, gate, run, out>>, host' \in Hosts, notes' \subseteq Notes
    PROVE  Inv' /\ OwnReports
<1>1. jobs' \in Seq(NotifyJobs \cup RecoveryJobs) /\ Len(jobs) + 1 \in 1..Len(jobs') /\ jobs'[Len(jobs) + 1] = j
    BY AppendOwes DEF Inv, Typing
<1>2. Owed'
    BY <1>1 DEF Owed, Present
<1>3. Typing' /\ GateHeld'
    BY <1>1 DEF Inv, Typing, GateHeld
<1> QED BY <1>2, <1>3 DEF Inv, OwnReports

\* A step that leaves nothing open, or something that will take it up.
LEMMA TakenKeeps ==
    ASSUME Inv, RelayOK(relay'), Taken(relay'), UNCHANGED <<map, gate, jobs, run, out>>,
           host' \in Hosts, notes' \subseteq Notes
    PROVE  Inv' /\ OwnReports
<1>1. Typing' /\ GateHeld' /\ Owed'
    BY DEF Inv, Typing, GateHeld, Owed
<1> QED BY <1>1 DEF Inv, OwnReports

LEMMA CapturedKeeps == ASSUME Inv, NEW n \in notes, NotificationCaptured(n) PROVE Inv' /\ OwnReports
<1>1. host' \in Hosts /\ notes' \subseteq Notes /\ n \in Notes /\ UNCHANGED <<map, gate, run, out>>
    BY DEF Inv, Typing, NotificationCaptured
<1>2. CASE UNCHANGED <<relay, jobs>>
    BY <1>1, <1>2, AsideKeeps
<1>3. CASE ~relay.stopped /\ map.state \in {"managed", "adopting"}
    <2> DEFINE x == [turn |-> n.turn, map |-> map.id]
               j == [kind |-> "notify", target |-> x, full |-> n.full, lease |-> n.lease]
               ts == relay.targets \cup {x}
    <2>1. relay' = [relay EXCEPT !.targets = ts] /\ jobs' = Append(jobs, j)
        BY <1>3 DEF NotificationCaptured
    <2>2. x \in Targets
        BY <1>1 DEF Inv, Typing, Notes, Targets
    <2> HIDE DEF x
    <2>3. j \in NotifyJobs /\ j.kind = "notify"
        BY <1>1, <2>2 DEF NotifyJobs, Notes
    <2>4. ts \in SUBSET Targets
        BY <2>2 DEF Inv, RelayOK, Relays
    <2> HIDE DEF j, ts
    <2>5. RelayOK(relay')
        BY <1>3, <2>1, <2>4 DEF Inv, RelayOK, Relays
    <2> QED BY <1>1, <2>1, <2>3, <2>5, QueuedKeeps
<1> QED BY <1>2, <1>3 DEF NotificationCaptured

LEMMA TimerKeeps == ASSUME Inv, TimerFires PROVE Inv' /\ OwnReports
<1> DEFINE j == [kind |-> "retry", gen |-> relay.timer]
<1>1. /\ relay' = [relay EXCEPT !.timer = NoTimer] /\ jobs' = Append(jobs, j)
      /\ host' \in Hosts /\ notes' \subseteq Notes /\ UNCHANGED <<map, gate, run, out>>
    BY DEF TimerFires, Inv, Typing
<1>2. relay \in Relays /\ relay.timer = relay.gen
    BY DEF TimerFires, Inv, RelayOK
<1>3. RelayOK(relay') /\ relay'.gen = relay.gen
    BY <1>1, <1>2 DEF Inv, RelayOK, Relays, NoTimer
<1>4. j \in RecoveryJobs /\ j.gen = relay.gen
    BY <1>2 DEF RecoveryJobs, Relays
<1> HIDE DEF j
<1> QED BY <1>1, <1>3, <1>4, QueuedKeeps

LEMMA ReadyKeeps ==
    ASSUME Inv, EndpointReady, UNCHANGED <<map, gate, run, out>>, host' \in Hosts, notes' \subseteq Notes
    PROVE  Inv' /\ OwnReports
<1>1. CASE relay.stopped
    BY <1>1, AsideKeeps DEF EndpointReady
<1>2. CASE ~relay.stopped /\ relay.targets = {}
    <2>1. relay' = Awake(relay) /\ jobs' = jobs
        BY <1>2 DEF EndpointReady
    <2>2. RelayOK(relay') /\ Taken(relay')
        BY <1>2, <2>1, AwakeFacts DEF Inv, Taken
    <2> QED BY <2>1, <2>2, TakenKeeps
<1>3. CASE ~relay.stopped /\ relay.targets # {}
    <2> DEFINE j == [kind |-> "ready", gen |-> relay.gen + 1]
    <2>1. relay' = Awake(relay) /\ jobs' = Append(jobs, j)
        BY <1>3 DEF EndpointReady
    <2>2. RelayOK(relay') /\ relay'.gen = relay.gen + 1
        BY <2>1, AwakeFacts DEF Inv
    <2>3. j \in RecoveryJobs /\ j.gen = relay.gen + 1
        BY DEF RecoveryJobs, Inv, RelayOK, Relays
    <2> HIDE DEF j
    <2> QED BY <2>1, <2>2, <2>3, QueuedKeeps
<1> QED BY <1>1, <1>2, <1>3

LEMMA RecoveryKeeps == ASSUME Inv, RecoveryRuns PROVE Inv' /\ OwnReports
<1>1. host' \in Hosts /\ notes' \subseteq Notes /\ UNCHANGED <<map, gate, run, out>>
    BY DEF RecoveryRuns, Inv, Typing, Hosts
<1>2. EndpointReady \/ UNCHANGED <<relay, jobs>>
    BY DEF RecoveryRuns
<1> QED BY <1>1, <1>2, ReadyKeeps, AsideKeeps

LEMMA RestoredKeeps == ASSUME Inv, SessionsRestored PROVE Inv' /\ OwnReports
BY ReadyKeeps DEF SessionsRestored, Inv, Typing

LEMMA LossKeeps == ASSUME Inv, LossReported PROVE Inv' /\ OwnReports
<1>1. host' \in Hosts /\ notes' \subseteq Notes /\ UNCHANGED <<map, gate, jobs, run, out>>
    BY DEF LossReported, Inv, Typing, Hosts
<1>2. RelayOK(relay') /\ Taken(relay')
    BY UnavailableFacts DEF LossReported, Inv
<1> QED BY <1>1, <1>2, TakenKeeps

LEMMA StopKeeps == ASSUME Inv, Stop PROVE Inv' /\ OwnReports
<1> DEFINE e == [relay EXCEPT !.stopped = TRUE, !.targets = {}]
<1>1. host' \in Hosts /\ notes' \subseteq Notes /\ relay' = Quiet(e) /\ UNCHANGED <<map, gate, jobs, run, out>>
    BY DEF Stop, Inv, Typing
<1>2. e \in Relays /\ e.targets = {}
    BY DEF Inv, RelayOK, Relays
<1> HIDE DEF e
<1>3. RelayOK(relay') /\ Taken(relay')
    BY <1>1, <1>2, QuietIs DEF RelayOK, Taken
<1> QED BY <1>1, <1>3, TakenKeeps

-----------------------------------------------------------------------------
(* The two results.                                                        *)

LEMMA InitInv == Init => Inv
<1> SUFFICES ASSUME Init PROVE Inv
    OBVIOUS
<1>1. 1 \in Maps
    BY RelayAssumption DEF Maps
<1>2. Typing
    BY <1>1 DEF Init, Typing, Hosts, Outs
<1>3. RelayOK(relay)
    BY DEF Init, RelayOK, Relays, NoTimer
<1>4. GateHeld /\ Owed
    BY DEF Init, GateHeld, Owed, Taken, Idle
<1> QED BY <1>2, <1>3, <1>4 DEF Inv

LEMMA InvStep == Inv /\ [Next]_vars => Inv' /\ (OwnReports \/ UNCHANGED vars)
<1> SUFFICES ASSUME Inv, [Next]_vars PROVE Inv' /\ (OwnReports \/ UNCHANGED vars)
    OBVIOUS
<1>1. CASE UNCHANGED vars
    BY <1>1, AsideKeeps DEF vars, Inv, Typing
<1>2. ASSUME NEW t \in Turns, TurnEnds(t) PROVE Inv' /\ OwnReports
    BY <1>2, TurnEndsKeeps
<1>3. ASSUME NEW n \in notes, NotificationCaptured(n) PROVE Inv' /\ OwnReports
    BY <1>3, CapturedKeeps
<1>4. CASE ConnectionLost \/ Reconnected \/ DrainBegins \/ DrainRefused \/ RuntimeStopped \/ Reopened
    BY <1>4, HostKeeps
<1>5. CASE MoveBegins \/ MoveEnds
    BY <1>5, MoveKeeps
<1>6. CASE JobBegins \/ JobNext \/ JobProjects \/ JobReads
    BY <1>6, BeginsKeeps, NextKeeps, ProjectsKeeps, ReadsKeeps
<1>7. CASE JobReadFails \/ JobCommits \/ JobCommitFails
    BY <1>7, ReadFailsKeeps, CommitsKeeps, CommitFailsKeeps
<1>8. CASE LossReported \/ TimerFires \/ RecoveryRuns \/ SessionsRestored \/ Stop
    BY <1>8, LossKeeps, TimerKeeps, RecoveryKeeps, RestoredKeeps, StopKeeps
<1> QED BY <1>1, <1>2, <1>3, <1>4, <1>5, <1>6, <1>7, <1>8 DEF Next

LEMMA Always == Spec => []Inv
BY InitInv, InvStep, PTL DEF Spec

LEMMA OwedIsSafe == Inv => NothingStranded
BY DEF Inv, Owed, Taken, RelayOK, NothingStranded

\* However many attempts, losses and drains there were, a resting relay that
\* still owes a target has the timer of its present generation armed
\* (settleTarget, scheduleRetry, endpointReady of relay.ts).
THEOREM RelayStrandsNothing == Spec => []NothingStranded
BY Always, OwedIsSafe, PTL

LEMMA StepReportsOwn == Inv /\ [Next]_vars => [OwnReports]_vars
BY InvStep

\* A turn is reported to the assistant only under the mapping its target was
\* captured under, while that mapping is managed (projectTarget, inside the
\* thread gate, of relay.ts).
THEOREM RelayReportsItsOwn == Spec => NothingForeign
<1>1. Inv /\ [Next]_vars => [\A x \in out'.events \ out.events : map.id = x.map /\ map.state = "managed"]_vars
    BY StepReportsOwn DEF OwnReports
<1> QED BY <1>1, Always, PTL DEF Spec, NothingForeign
=============================================================================
