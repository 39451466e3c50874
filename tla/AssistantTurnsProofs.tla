-------------------------- MODULE AssistantTurnsProofs --------------------------
(***************************************************************************)
(* Theorems about AssistantTurns, for every value of its constants.        *)
(*                                                                         *)
(* The handlers are operators on worlds.  Handles(w, v) says what every    *)
(* one of them keeps; a lemma for each operator establishes it, and a step *)
(* for each action carries it over to the state.                           *)
(***************************************************************************)
EXTENDS AssistantTurns, ConversationStoreProofs, SequenceTheorems

OpenDispatchers ==      \* Becomes enforces the bound on stale reads
    [cur : {NoAttempt} \cup Attempts, busy : BOOLEAN, paused : BOOLEAN,
     steerPause : {NoAttempt} \cup Attempts, timer : BOOLEAN, wake : BOOLEAN,
     ready : BOOLEAN, admission : {"none", "asking", "granted", "waiting"},
     stale : Nat, published : SUBSET Turns]

Settlings == [Turns -> {"idle", "queued", "waiting", "finishing", "draining"}]
Processing == {"waiting", "finishing", "draining"}

Worlds == [db : Databases, d : OpenDispatchers, call : Calls, read : Reads,
           settle : Settlings, used : Budgets]

\* No more turns than attempts: the rows that are still free are numbered
\* above the turns of the thread, and have no turn.
FreeRows(e) ==
    \A b \in Attempts : e.att[b].state = "absent" => Len(turns) < b /\ e.att[b].turn = NoTurn

\* A call belongs to a submission; the start that is on its way to the thread
\* is the one of the newest attempt.
CallFits(e, c) ==
    /\ c.kind = "none" => c.stage = "none"
    /\ c.kind # "none" => c.att \in Attempts /\ c.src \in Sources
    /\ (c.kind = "start" /\ c.stage = "ok") => c.turn \in Turns
    /\ (c.kind = "start" /\ c.stage = "sent") =>
         /\ Len(turns) < c.att
         /\ \A b \in Attempts : e.att[b].state = "absent" => c.att < b

ReadFits(r) == r.kind = "failure" => r.att \in Attempts /\ r.src \in Sources

OK(w) == w \in Worlds /\ FreeRows(w.db) /\ CallFits(w.db, w.call) /\ ReadFits(w.read)

Handles(w, v) ==
    /\ OK(v) /\ Evolves(w.db, v.db)
    /\ \A t \in Turns : v.settle[t] \in Processing => w.settle[t] \in Processing

LEMMA HandlesReflexive == ASSUME NEW w, OK(w) PROVE Handles(w, w)
    BY EvolvesReflexive DEF Handles, OK, Worlds

LEMMA HandlesTransitive ==
    ASSUME NEW w, NEW v, NEW x, Handles(w, v), Handles(v, x) PROVE Handles(w, x)
    BY EvolvesTransitive DEF Handles

\* What a step of a handler has to show.
LEMMA WorldStep ==
    ASSUME NEW w, NEW v \in Worlds, OK(w), Evolves(w.db, v.db),
           CallFits(w.db, v.call), ReadFits(v.read),
           \A t \in Turns : v.settle[t] \in Processing => w.settle[t] \in Processing
    PROVE  Handles(w, v)
<1>1. FreeRows(v.db)
    BY DEF FreeRows, OK, Evolves
<1>2. CallFits(v.db, v.call)
    BY DEF CallFits, Evolves
<1> QED
    BY <1>1, <1>2 DEF Handles, OK

\* A handler that only changes the database and the dispatcher.
LEMMA QuietStep ==
    ASSUME NEW w, OK(w), NEW e, Evolves(w.db, e), NEW x \in OpenDispatchers
    PROVE  Handles(w, [w EXCEPT !.db = e, !.d = x])
<1> DEFINE v == [w EXCEPT !.db = e, !.d = x]
<1>1. /\ v \in Worlds /\ v.db = e /\ v.call = w.call /\ v.read = w.read /\ v.settle = w.settle
    BY DEF OK, Worlds, Evolves
<1> HIDE DEF v
<1>2. Handles(w, v)
    BY <1>1, WorldStep DEF OK
<1> QED
    BY <1>2 DEF v

LEMMA DatabaseStep ==
    ASSUME NEW w, OK(w), NEW e, Evolves(w.db, e)
    PROVE  Handles(w, [w EXCEPT !.db = e])
<1>1. [w EXCEPT !.db = e] = [w EXCEPT !.db = e, !.d = w.d]
    BY DEF OK, Worlds
<1> QED
    BY <1>1, QuietStep DEF OK, Worlds

LEMMA DispatcherStep ==
    ASSUME NEW w, OK(w), NEW x \in OpenDispatchers
    PROVE  Handles(w, [w EXCEPT !.d = x])
<1>1. [w EXCEPT !.d = x] = [w EXCEPT !.db = w.db, !.d = x]
    BY DEF OK, Worlds
<1> QED
    BY <1>1, QuietStep, EvolvesReflexive DEF OK, Worlds

-----------------------------------------------------------------------------
(* The small steps *)

LEMMA SettledHandles == ASSUME NEW w, OK(w) PROVE Handles(w, Settled(w))
<1>1. [w.d EXCEPT !.wake = TRUE] \in OpenDispatchers
    BY DEF OK, Worlds, OpenDispatchers
<1>2. [w EXCEPT !.d.wake = TRUE] = [w EXCEPT !.d = [w.d EXCEPT !.wake = TRUE]]
    OBVIOUS
<1> QED
    BY <1>1, <1>2, DispatcherStep, HandlesReflexive DEF Settled

LEMMA ReadStep ==
    ASSUME NEW w, OK(w), NEW r \in Reads, ReadFits(r), NEW x \in OpenDispatchers
    PROVE  Handles(w, [w EXCEPT !.read = r, !.d = x])
<1> DEFINE v == [w EXCEPT !.read = r, !.d = x]
<1>1. /\ v \in Worlds /\ v.db = w.db /\ v.call = w.call /\ v.read = r /\ v.settle = w.settle
    BY DEF OK, Worlds
<1> HIDE DEF v
<1>2. Handles(w, v)
    BY <1>1, WorldStep, EvolvesReflexive DEF OK, Worlds
<1> QED
    BY <1>2 DEF v

LEMMA NoReadFits == NoRead \in Reads /\ ReadFits(NoRead)
    BY DEF NoRead, Reads, ReadFits, NoAttempt, NoSource

LEMMA NewGenerationHandles ==
    ASSUME NEW w, OK(w)
    PROVE  /\ Handles(w, NewGeneration(w))
           /\ NewGeneration(w).db = w.db /\ NewGeneration(w).call = w.call
<1> DEFINE x == [w.d EXCEPT !.stale = w.d.stale + 1]
<1>1. x \in OpenDispatchers
    BY DEF OK, Worlds, OpenDispatchers
<1>2. NewGeneration(w) = IF w.read.kind = "none" THEN w ELSE [w EXCEPT !.read = NoRead, !.d = x]
    BY DEF NewGeneration
<1> HIDE DEF x
<1>3. Handles(w, [w EXCEPT !.read = NoRead, !.d = x])
    BY <1>1, ReadStep, NoReadFits
<1> QED
    BY <1>2, <1>3, HandlesReflexive DEF OK, Worlds

LEMMA LaunchReadHandles ==
    ASSUME NEW w, OK(w), NEW kind \in {"recover", "failure"},
           NEW a \in {NoAttempt} \cup Attempts, NEW s \in {NoSource} \cup Sources,
           kind = "failure" => a \in Attempts /\ s \in Sources
    PROVE  Handles(w, LaunchRead(w, kind, a, s))
<1> DEFINE n == NewGeneration(w)
           r == [NoRead EXCEPT !.kind = kind, !.att = a, !.src = s, !.stage = "waiting"]
<1>1. Handles(w, n)
    BY NewGenerationHandles
<1>2. r \in Reads /\ ReadFits(r)
    BY DEF NoRead, Reads, ReadFits
<1>3. LaunchRead(w, kind, a, s) = [n EXCEPT !.read = r, !.d = n.d]
    BY <1>1 DEF LaunchRead, Handles, OK, Worlds
<1> HIDE DEF n, r
<1>4. Handles(n, [n EXCEPT !.read = r, !.d = n.d])
    BY <1>1, <1>2, ReadStep DEF Handles, OK, Worlds
<1> QED
    BY <1>1, <1>3, <1>4, HandlesTransitive

LEMMA NotePresenceHandles ==
    ASSUME NEW w, OK(w) PROVE Handles(w, NotePresence(w))
<1> DEFINE n == NewGeneration(w)
           x == [n.d EXCEPT !.ready = TRUE, !.timer = FALSE]
<1>1. Handles(w, n)
    BY NewGenerationHandles
<1>2. x \in OpenDispatchers
    BY <1>1 DEF Handles, OK, Worlds, OpenDispatchers
<1>3. NotePresence(w) = [n EXCEPT !.d = x]
    BY DEF NotePresence
<1> HIDE DEF n, x
<1> QED
    BY <1>1, <1>2, <1>3, DispatcherStep, HandlesTransitive DEF Handles

\* Publishing may only queue the processing of a turn that has none.
LEMMA PublishHandles ==
    ASSUME NEW w, OK(w), NEW t \in Turns PROVE Handles(w, Publish(w, t))
<1> DEFINE x == [w.d EXCEPT !.published = w.d.published \cup {t}]
           l == [w.settle EXCEPT ![t] = IF w.settle[t] = "idle" THEN "queued" ELSE w.settle[t]]
           v == [w EXCEPT !.d = x, !.settle = l]
<1>1. x \in OpenDispatchers
    BY DEF OK, Worlds, OpenDispatchers
<1>2. l \in Settlings /\ \A u \in Turns : l[u] \in Processing => w.settle[u] \in Processing
    BY DEF OK, Worlds, Settlings, Processing
<1> HIDE DEF x, l
<1>3. v \in Worlds /\ v.db = w.db /\ v.call = w.call /\ v.read = w.read /\ v.settle = l
    BY <1>1, <1>2 DEF OK, Worlds
<1> HIDE DEF v
<1>4. Handles(w, v)
    BY <1>2, <1>3, WorldStep, EvolvesReflexive DEF OK, Worlds
<1>5. Publish(w, t) = IF t \in w.d.published THEN w ELSE v
    BY DEF Publish, v, x, l, OK, Worlds
<1> QED
    BY <1>4, <1>5, HandlesReflexive

LEMMA FreeHandles == ASSUME NEW w, OK(w) PROVE Handles(w, Free(w))
<1>1. [w.d EXCEPT !.cur = NoAttempt, !.busy = FALSE, !.steerPause = NoAttempt] \in OpenDispatchers
    BY DEF OK, Worlds, OpenDispatchers
<1> QED
    BY <1>1, DispatcherStep DEF Free

LEMMA DropCurrentHandles == ASSUME NEW w, OK(w), NEW a PROVE Handles(w, DropCurrent(w, a))
<1>1. [w.d EXCEPT !.cur = NoAttempt] \in OpenDispatchers
    BY DEF OK, Worlds, OpenDispatchers
<1>2. Handles(w, [w EXCEPT !.d = [w.d EXCEPT !.cur = NoAttempt]])
    BY <1>1, DispatcherStep
<1> QED
    BY <1>2, HandlesReflexive DEF DropCurrent

-----------------------------------------------------------------------------
(* pump *)

LEMMA NewCallType ==
    ASSUME NEW kind \in {"start", "steer"}, NEW a \in Attempts, NEW s \in Sources,
           NEW t \in {NoTurn} \cup Turns
    PROVE  /\ NewCall(kind, a, s, t) \in Calls
           /\ NewCall(kind, a, s, t).kind = kind
           /\ NewCall(kind, a, s, t).att = a
           /\ NewCall(kind, a, s, t).src = s
           /\ NewCall(kind, a, s, t).stage \in {"sent", "error"}
    BY DEF NewCall, NoCall, Calls

LEMMA LaunchStartHandles ==
    ASSUME NEW w, OK(w), NEW a \in NextAttempt(w.db), NEW s \in Sources,
           NEW v \in LaunchStart(w, a, s)
    PROVE  Handles(w, v)
<1> DEFINE e == Reserve(CreateAttempt(w.db, a, s), a, s, "start_submitting")
           x == [w.d EXCEPT !.cur = a, !.busy = TRUE, !.admission = "none"]
           c == NewCall("start", a, s, NoTurn)
           sent == [w EXCEPT !.db = e, !.d = x, !.call = c]
           unsaved == [w EXCEPT !.db = e, !.d = x, !.call = [c EXCEPT !.stage = "unsaved"],
                                !.used = [w.used EXCEPT !.errors = w.used.errors + 1]]
<1>1. /\ a \in Attempts /\ w.db.att[a].state = "absent"
      /\ w.db.att[a].turn = NoTurn /\ Len(turns) < a
      /\ \A b \in 1..(a - 1) : w.db.att[b].state # "absent"
    BY DEF NextAttempt, OK, FreeRows
<1>2. Evolves(w.db, CreateAttempt(w.db, a, s))
    BY <1>1, CreateAttemptEvolves DEF OK, Worlds
<1>3. Evolves(w.db, e)
    <2>1. CreateAttempt(w.db, a, s) \in Databases
        BY <1>2 DEF Evolves
    <2>2. Evolves(CreateAttempt(w.db, a, s), e)
        BY <1>1, <2>1, ReserveEvolves
    <2> QED
        BY <1>2, <2>2, EvolvesTransitive
<1>4. \A b \in Attempts : e.att[b].state = "absent" => a < b
    <2>1. e.att[a].state = "active"
        BY <1>1 DEF Reserve, CreateAttempt, QueueNotices, OK, Worlds, Databases
    <2>2. ASSUME NEW b \in Attempts, e.att[b].state = "absent" PROVE a < b
        BY <1>1, <1>3, <2>1, <2>2, BoundsAssumption DEF Evolves, Attempts
    <2> QED
        BY <2>2
<1>5. x \in OpenDispatchers
    BY <1>1 DEF OK, Worlds, OpenDispatchers
<1>6. /\ c \in Calls /\ c.kind = "start" /\ c.att = a /\ c.src = s /\ c.stage \in {"sent", "error"}
      /\ [c EXCEPT !.stage = "unsaved"] \in Calls
    BY <1>1, NewCallType DEF Calls
<1>7. CallFits(e, c) /\ CallFits(e, [c EXCEPT !.stage = "unsaved"])
    BY <1>1, <1>4, <1>6 DEF CallFits, Calls
<1> HIDE DEF e, x, c
<1>8. FreeRows(e)
    BY <1>3 DEF FreeRows, OK, Evolves
<1>9. sent \in Worlds /\ Handles(w, sent)
    BY <1>3, <1>5, <1>6, <1>7, <1>8 DEF OK, Worlds, Handles, Evolves
<1>10. ASSUME w.used.errors # MaxErrors PROVE Handles(w, unsaved)
    <2>1. [w.used EXCEPT !.errors = w.used.errors + 1] \in Budgets
        BY <1>10, RunBoundsAssumption DEF OK, Worlds, Budgets
    <2> QED
        BY <1>3, <1>5, <1>6, <1>7, <1>8, <2>1 DEF OK, Worlds, Handles, Evolves
<1>11. v = sent \/ (w.used.errors # MaxErrors /\ v = unsaved)
    BY ZenonT(60) DEF LaunchStart, e, x, c
<1> QED
    BY <1>9, <1>10, <1>11

LEMMA StartNextHandles ==
    ASSUME NEW w, OK(w), NEW v \in StartNext(w) PROVE Handles(w, v)
<1>1. ASSUME NEW s \in Candidates(w)
      PROVE  s \in Sources /\ Handles(w, WithCandidate(w, s)) /\ WithCandidate(w, s).db.att = w.db.att
    <2>1. s \in Sources
        BY <1>1 DEF Candidates, Pending, NextSource
    <2>2. CASE w.db.src[s].state = "absent"
        <3> DEFINE e == InsertSource(w.db, s, Internal)
                   u == [w.used EXCEPT !.events = w.used.events + 1]
                   x == [w EXCEPT !.db = e, !.used = u]
        <3>1. w.used.events < MaxEvents
            BY <1>1, <2>2, RunBoundsAssumption DEF Candidates, Pending
        <3>2. u \in Budgets
            BY <3>1, RunBoundsAssumption DEF OK, Worlds, Budgets
        <3>3. Evolves(w.db, e) /\ e.att = w.db.att
            BY <2>1, InsertSourceEvolves DEF OK, Worlds, InsertSource, Databases
        <3> HIDE DEF e, u
        <3>4. x \in Worlds /\ x.db = e /\ x.call = w.call /\ x.read = w.read /\ x.settle = w.settle
            BY <3>2, <3>3 DEF OK, Worlds, Evolves
        <3> HIDE DEF x
        <3>5. Handles(w, x)
            BY <3>3, <3>4, WorldStep DEF OK
        <3>6. WithCandidate(w, s) = x
            BY <2>2 DEF WithCandidate, e, u, x
        <3> QED
            BY <2>1, <3>3, <3>4, <3>5, <3>6
    <2>3. CASE w.db.src[s].state # "absent"
        BY <2>1, <2>3, HandlesReflexive DEF WithCandidate
    <2> QED
        BY <2>2, <2>3
<1>2. ASSUME NEW s \in Candidates(w), NEW a \in NextAttempt(w.db),
             NEW x \in LaunchStart(WithCandidate(w, s), a, s)
      PROVE  Handles(w, x)
    <2>1. a \in NextAttempt(WithCandidate(w, s).db)
        BY <1>1, <1>2 DEF NextAttempt
    <2> QED
        BY <1>1, <1>2, <2>1, LaunchStartHandles, HandlesTransitive DEF Handles
<1>3. Handles(w, [w EXCEPT !.d.admission = "asking"])
    <2>1. [w.d EXCEPT !.admission = "asking"] \in OpenDispatchers
        BY DEF OK, Worlds, OpenDispatchers
    <2> QED
        BY <2>1, DispatcherStep
<1>4. \/ v = w \/ v = [w EXCEPT !.d.admission = "asking"]
      \/ \E s \in Candidates(w), a \in NextAttempt(w.db) : v \in LaunchStart(WithCandidate(w, s), a, s)
    BY DEF StartNext
<1> QED
    BY <1>2, <1>3, <1>4, HandlesReflexive

LEMMA SteerNextHandles ==
    ASSUME NEW w, OK(w), NEW v \in SteerNext(w) PROVE Handles(w, v)
<1> DEFINE a == w.d.cur
           x(s) == [w EXCEPT !.db = Reserve(w.db, a, s, "steer_submitting"),
                             !.call = NewCall("steer", a, s, w.db.att[a].turn)]
<1>1. ASSUME NEW s \in NextSteer(w.db, a), CanSteer(w) PROVE Handles(w, x(s))
    <2>1. a \in Attempts /\ s \in Sources /\ w.db.att[a].turn \in {NoTurn} \cup Turns
        BY <1>1 DEF CanSteer, NextSteer, Pending, OK, Worlds, OpenDispatchers, Databases, AttemptRows
    <2> DEFINE e == Reserve(w.db, a, s, "steer_submitting")
               c == NewCall("steer", a, s, w.db.att[a].turn)
    <2>2. Evolves(w.db, e) /\ e \in Databases
        BY <2>1, ReserveEvolves DEF OK, Worlds, Evolves
    <2>a. c \in Calls /\ c.kind = "steer" /\ c.att = a /\ c.src = s
        BY <2>1, NewCallType
    <2> HIDE DEF e, c
    <2>3. c \in Calls /\ CallFits(w.db, c)
        BY <2>1, <2>a DEF CallFits
    <2> DEFINE y == [w EXCEPT !.db = e, !.call = c]
    <2>4. y \in Worlds /\ y.db = e /\ y.call = c /\ y.read = w.read /\ y.settle = w.settle
        BY <2>2, <2>3 DEF OK, Worlds
    <2> HIDE DEF y
    <2>5. Handles(w, y)
        BY <2>2, <2>3, <2>4, WorldStep DEF OK
    <2> QED
        BY <2>5 DEF y, e, c
<1>2. v = w \/ (CanSteer(w) /\ \E s \in NextSteer(w.db, a) : v = x(s))
    BY DEF SteerNext
<1> QED
    BY <1>1, <1>2, HandlesReflexive

LEMMA PumpHandles ==
    ASSUME NEW w, OK(w), NEW v \in Pump(w) PROVE Handles(w, v)
    BY StartNextHandles, SteerNextHandles, HandlesReflexive DEF Pump

-----------------------------------------------------------------------------
(* The notifications *)

LEMMA PauseIdentityConflictHandles ==
    ASSUME NEW w, OK(w), NEW a \in Attempts PROVE Handles(w, PauseIdentityConflict(w, a))
<1> DEFINE steers == {s \in Members(w.db, a, {"steer_submitting"}) : CanMarkUncertain(w.db, a, s)}
           row == [s \in Sources |-> IF s \in steers THEN [w.db.mem[a][s] EXCEPT !.state = "uncertain"]
                                     ELSE w.db.mem[a][s]]
           f == [w.db.mem EXCEPT ![a] = row]
           x == [w.d EXCEPT !.paused = TRUE, !.timer = w.d.timer \/ steers # {},
                            !.steerPause = IF w.d.cur = a THEN a ELSE w.d.steerPause]
<1>1. ASSUME NEW s \in Sources PROVE row[s] \in MemberRows
    <2>1. w.db.mem[a][s] \in MemberRows /\ "uncertain" \in MemberStates
        BY DEF OK, Worlds, Databases, MemberStates, Live, Unresolved
    <2> HIDE DEF steers
    <2> QED
        BY <2>1 DEF MemberRows
<1>2. f \in MemberTables
    <2> HIDE DEF row
    <2>1. row \in [Sources -> MemberRows]
        BY <1>1 DEF row
    <2> QED
        BY <2>1 DEF OK, Worlds, Databases, MemberTables
<1>3. x \in OpenDispatchers
    <2>1. (w.d.timer \/ steers # {}) \in BOOLEAN
        OBVIOUS
    <2> HIDE DEF steers
    <2> QED
        BY <2>1 DEF OK, Worlds, OpenDispatchers
<1>4. PauseIdentityConflict(w, a) = [w EXCEPT !.db = [w.db EXCEPT !.mem = f], !.d = x]
    BY Zenon DEF PauseIdentityConflict
<1> HIDE DEF f, x
<1>5. Evolves(w.db, [w.db EXCEPT !.mem = f])
    BY <1>2, MemberTableUpdate DEF OK, Worlds
<1>6. Handles(w, [w EXCEPT !.db = [w.db EXCEPT !.mem = f], !.d = x])
    BY <1>3, <1>5, QuietStep
<1> QED
    BY <1>4, <1>6

LEMMA CorrelatedType ==
    ASSUME NEW w, OK(w), NEW t, NEW shown \in BOOLEAN
    PROVE  Correlated(w, t, shown) \subseteq Submissions
<1>1. \A a : UnresolvedStart(w, a) \subseteq Sources
    BY DEF UnresolvedStart
<1>2. w.d.cur # NoAttempt => w.d.cur \in Attempts
    BY DEF OK, Worlds, OpenDispatchers
<1> DEFINE seen(a) == {s \in UnresolvedStart(w, a) : shown /\ <<a, s>> \in turns[t].inputs}
           all == {m \in Submissions : m[2] \in seen(m[1])}
           mine == {<<w.d.cur, s>> : s \in seen(w.d.cur)}
<1>3. seen(w.d.cur) \subseteq Sources
    BY <1>1
<1>4. w.d.cur # NoAttempt => mine \subseteq Submissions
    <2> HIDE DEF seen
    <2> QED
        BY <1>2, <1>3 DEF Submissions
<1>5. all \subseteq Submissions /\ {} \subseteq Submissions
    OBVIOUS
<1>6. \/ w.d.cur # NoAttempt /\ Correlated(w, t, shown) = mine
      \/ Correlated(w, t, shown) = all
      \/ Correlated(w, t, shown) = {}
    BY DEF Correlated
<1> QED
    BY <1>4, <1>5, <1>6

\* Binding a start, whatever becomes of the dispatcher's fields.
LEMMA ConfirmStartHandles ==
    ASSUME NEW w, OK(w), NEW a \in Attempts, NEW s \in Sources, NEW t \in Turns,
           NEW terminal \in BOOLEAN, NEW x \in OpenDispatchers
    PROVE  Handles(w, [w EXCEPT !.db = ConfirmStart(w.db, a, s, t, terminal), !.d = x])
    BY ConfirmStartEvolves, QuietStep DEF OK, Worlds

\* Terminals that were buffered for the call are dropped from it, or added.
LEMMA EarlyStep ==
    ASSUME NEW w, OK(w), NEW T \in SUBSET Turns
    PROVE  Handles(w, [w EXCEPT !.call.early = T])
<1> DEFINE c == [w.call EXCEPT !.early = T]
           v == [w EXCEPT !.call = c]
<1>1. /\ c \in Calls /\ c.kind = w.call.kind /\ c.stage = w.call.stage
      /\ c.att = w.call.att /\ c.src = w.call.src /\ c.turn = w.call.turn
    BY DEF OK, Worlds, Calls
<1>2. CallFits(w.db, c)
    BY <1>1 DEF OK, CallFits
<1> HIDE DEF c
<1>3. v \in Worlds /\ v.db = w.db /\ v.call = c /\ v.read = w.read /\ v.settle = w.settle
    BY <1>1 DEF OK, Worlds
<1> HIDE DEF v
<1>4. Handles(w, v)
    BY <1>2, <1>3, WorldStep, EvolvesReflexive DEF OK, Worlds
<1> QED
    BY <1>4 DEF v, c

LEMMA StartedHandles ==
    ASSUME NEW w0, OK(w0), NEW t \in Turns, NEW shown \in BOOLEAN, NEW v \in Started(w0, t, shown)
    PROVE  Handles(w0, v)
<1> DEFINE w == [NotePresence(w0) EXCEPT !.d.busy = TRUE]
           m == Correlated(w, t, shown)
           a == (CHOOSE x \in m : TRUE)[1]
           s == (CHOOSE x \in m : TRUE)[2]
           early == w.call.att = a /\ t \in w.call.early
           w1 == [w EXCEPT !.d.cur = a, !.call.early = IF early THEN {} ELSE w.call.early]
           w2 == [w1 EXCEPT !.db = ConfirmStart(w1.db, a, s, t, early)]
<1>1. Handles(w0, w)
    <2> DEFINE n == NotePresence(w0)
    <2>1. Handles(w0, n)
        BY NotePresenceHandles
    <2>2. [n.d EXCEPT !.busy = TRUE] \in OpenDispatchers
        BY <2>1 DEF Handles, OK, Worlds, OpenDispatchers
    <2> HIDE DEF n
    <2>3. Handles(n, [n EXCEPT !.d = [n.d EXCEPT !.busy = TRUE]])
        BY <2>1, <2>2, DispatcherStep DEF Handles
    <2>4. w = [n EXCEPT !.d = [n.d EXCEPT !.busy = TRUE]]
        BY DEF n
    <2> QED
        BY <2>1, <2>3, <2>4, HandlesTransitive
<1>2. v \in Started(w0, t, shown) => 
         \/ m = {} /\ v = w
         \/ /\ m # {}
            /\ \/ v = PauseIdentityConflict(w1, a)
               \/ v = Publish(Free(w2), t)
               \/ v \in Pump(w2)
    BY DEF Started
<1> HIDE DEF w
<1>3. ASSUME m # {} PROVE a \in Attempts /\ s \in Sources
    <2>1. (CHOOSE x \in m : TRUE) \in Submissions
        BY <1>1, <1>3, CorrelatedType DEF Handles
    <2> QED
        BY <2>1 DEF Submissions
<1> HIDE DEF a, s, m
<1>4. ASSUME m # {} PROVE Handles(w0, w1)
    <2> DEFINE y == [w.d EXCEPT !.cur = a]
               T == IF early THEN {} ELSE w.call.early
    <2>1. y \in OpenDispatchers
        BY <1>1, <1>3, <1>4 DEF Handles, OK, Worlds, OpenDispatchers
    <2>2. T \in SUBSET Turns
        BY <1>1 DEF Handles, OK, Worlds, Calls
    <2> HIDE DEF y, T
    <2>3. Handles(w, [w EXCEPT !.d = y])
        BY <1>1, <2>1, DispatcherStep DEF Handles
    <2>4. Handles([w EXCEPT !.d = y], [[w EXCEPT !.d = y] EXCEPT !.call.early = T])
        BY <2>2, <2>3, EarlyStep DEF Handles
    <2>5. w1 = [[w EXCEPT !.d = y] EXCEPT !.call.early = T]
        BY <1>1 DEF y, T, Handles, OK, Worlds
    <2> QED
        BY <1>1, <2>3, <2>4, <2>5, HandlesTransitive
<1>5. early \in BOOLEAN
    OBVIOUS
<1> HIDE DEF w1, early
<1>6. ASSUME m # {} PROVE Handles(w0, w2)
    <2>1. Evolves(w1.db, ConfirmStart(w1.db, a, s, t, early))
        BY <1>3, <1>4, <1>5, <1>6, ConfirmStartEvolves DEF Handles, OK, Worlds
    <2>2. Handles(w1, [w1 EXCEPT !.db = ConfirmStart(w1.db, a, s, t, early)])
        BY <1>4, <1>6, <2>1, DatabaseStep DEF Handles
    <2> QED
        BY <1>4, <1>6, <2>2, HandlesTransitive
<1> HIDE DEF w2
<1>7. ASSUME m # {} PROVE Handles(w0, PauseIdentityConflict(w1, a))
    BY <1>3, <1>4, <1>7, PauseIdentityConflictHandles, HandlesTransitive DEF Handles
<1>8. ASSUME m # {} PROVE Handles(w0, Publish(Free(w2), t))
    <2>1. Handles(w0, Free(w2))
        BY <1>6, <1>8, FreeHandles, HandlesTransitive DEF Handles
    <2> QED
        BY <2>1, PublishHandles, HandlesTransitive DEF Handles
<1>9. ASSUME m # {}, v \in Pump(w2) PROVE Handles(w0, v)
    BY <1>6, <1>9, PumpHandles, HandlesTransitive DEF Handles
<1> QED
    BY <1>1, <1>2, <1>7, <1>8, <1>9

\* Closing an attempt to further input, then freeing the thread.
LEMMA PublishFreeHandles ==
    ASSUME NEW w, OK(w), NEW t \in Turns PROVE Handles(w, Publish(Free(w), t))
<1>1. Handles(w, Free(w))
    BY FreeHandles
<1> QED
    BY <1>1, PublishHandles, HandlesTransitive DEF Handles

LEMMA TerminalHandles ==
    ASSUME NEW w0, OK(w0), NEW t \in Turns, NEW shown \in BOOLEAN, NEW v \in Terminal(w0, t, shown)
    PROVE  Handles(w0, v)
<1> DEFINE w == [NotePresence(w0) EXCEPT !.d.paused = FALSE]
           inFlight == w.call.kind = "start" /\ w.call.att = w.d.cur
           m == IF inFlight THEN {<<w.d.cur, s>> : s \in UnresolvedStart(w, w.d.cur)}
                ELSE Correlated(w, t, shown)
           a == (CHOOSE x \in m : TRUE)[1]
           s == (CHOOSE x \in m : TRUE)[2]
           w1 == [w EXCEPT !.d.cur = a]
           ended == [w EXCEPT !.db = Terminalize(w.db, w.d.cur)]
           idle == [w EXCEPT !.d.busy = FALSE]
           bound == [w1 EXCEPT !.db = ConfirmStart(w1.db, a, s, t, TRUE)]
           T == IF inFlight THEN w.call.early \cup {t} ELSE w.call.early
           unknown == [w1 EXCEPT !.db = ObserveUnknownStartTerminal(w1.db, a, s), !.call.early = T]
<1>1. Handles(w0, w)
    <2> DEFINE n == NotePresence(w0)
    <2>1. Handles(w0, n)
        BY NotePresenceHandles
    <2>2. [n.d EXCEPT !.paused = FALSE] \in OpenDispatchers
        BY <2>1 DEF Handles, OK, Worlds, OpenDispatchers
    <2> HIDE DEF n
    <2>3. Handles(n, [n EXCEPT !.d = [n.d EXCEPT !.paused = FALSE]])
        BY <2>1, <2>2, DispatcherStep DEF Handles
    <2>4. w = [n EXCEPT !.d = [n.d EXCEPT !.paused = FALSE]]
        BY DEF n
    <2> QED
        BY <2>1, <2>3, <2>4, HandlesTransitive
<1>2. \/ w.d.cur # NoAttempt /\ v = Publish(Free(ended), t)
      \/ v \in Pump(idle)
      \/ v = w
      \/ m # {} /\ v = PauseIdentityConflict(w1, a)
      \/ m # {} /\ v = Publish(Free(bound), t)
      \/ m # {} /\ v = unknown
    BY DEF Terminal
<1> HIDE DEF w
<1>3. w.d.cur # NoAttempt => w.d.cur \in Attempts
    BY <1>1 DEF Handles, OK, Worlds, OpenDispatchers
<1>4. ASSUME m # {} PROVE a \in Attempts /\ s \in Sources
    <2>1. m \subseteq Submissions
        <3>1. CASE inFlight
            <4>1. w.d.cur \in Attempts
                BY <1>1, <3>1 DEF Handles, OK, CallFits
            <4>2. UnresolvedStart(w, w.d.cur) \subseteq Sources
                BY DEF UnresolvedStart
            <4> QED
                BY <3>1, <4>1, <4>2 DEF Submissions
        <3>2. CASE ~inFlight
            BY <1>1, <3>2, CorrelatedType DEF Handles
        <3> QED
            BY <3>1, <3>2
    <2>2. (CHOOSE x \in m : TRUE) \in Submissions
        BY <1>4, <2>1
    <2> QED
        BY <2>2 DEF Submissions
<1> HIDE DEF a, s, m
<1>5. ASSUME w.d.cur # NoAttempt PROVE Handles(w0, Publish(Free(ended), t))
    <2>1. Evolves(w.db, Terminalize(w.db, w.d.cur))
        BY <1>1, <1>3, <1>5, TerminalizeEvolves DEF Handles, OK, Worlds
    <2>2. Handles(w, ended)
        BY <1>1, <2>1, DatabaseStep DEF Handles
    <2> HIDE DEF ended
    <2> QED
        BY <1>1, <2>2, PublishFreeHandles, HandlesTransitive DEF Handles
<1>6. ASSUME v \in Pump(idle) PROVE Handles(w0, v)
    <2>1. [w.d EXCEPT !.busy = FALSE] \in OpenDispatchers
        BY <1>1 DEF Handles, OK, Worlds, OpenDispatchers
    <2>2. Handles(w, idle)
        BY <1>1, <2>1, DispatcherStep DEF Handles
    <2> HIDE DEF idle
    <2> QED
        BY <1>1, <1>6, <2>2, PumpHandles, HandlesTransitive DEF Handles
<1>7. ASSUME m # {} PROVE Handles(w0, w1)
    <2>1. [w.d EXCEPT !.cur = a] \in OpenDispatchers
        BY <1>1, <1>4, <1>7 DEF Handles, OK, Worlds, OpenDispatchers
    <2>2. Handles(w, w1)
        BY <1>1, <2>1, DispatcherStep DEF Handles
    <2> HIDE DEF w1
    <2> QED
        BY <1>1, <2>2, HandlesTransitive
<1>8. w1.call = w.call
    BY <1>1 DEF Handles, OK, Worlds
<1> HIDE DEF w1
<1>9. ASSUME m # {} PROVE Handles(w0, PauseIdentityConflict(w1, a))
    BY <1>4, <1>7, <1>9, PauseIdentityConflictHandles, HandlesTransitive DEF Handles
<1>10. ASSUME m # {} PROVE Handles(w0, Publish(Free(bound), t))
    <2>1. Evolves(w1.db, ConfirmStart(w1.db, a, s, t, TRUE))
        BY <1>4, <1>7, <1>10, ConfirmStartEvolves DEF Handles, OK, Worlds
    <2>2. Handles(w1, bound)
        BY <1>7, <1>10, <2>1, DatabaseStep DEF Handles
    <2> HIDE DEF bound
    <2> QED
        BY <1>7, <1>10, <2>2, PublishFreeHandles, HandlesTransitive DEF Handles
<1>11. ASSUME m # {} PROVE Handles(w0, unknown)
    <2> DEFINE e == ObserveUnknownStartTerminal(w1.db, a, s)
               y == [w1 EXCEPT !.db = e]
    <2>1. Evolves(w1.db, e)
        BY <1>4, <1>7, <1>11, ObserveUnknownStartTerminalEvolves DEF Handles, OK, Worlds
    <2>2. Handles(w1, y)
        BY <1>7, <1>11, <2>1, DatabaseStep DEF Handles
    <2>3. T \in SUBSET Turns
        BY <1>1 DEF Handles, OK, Worlds, Calls
    <2>4. unknown = [y EXCEPT !.call.early = T]
        OBVIOUS
    <2> HIDE DEF y, T
    <2>5. Handles(y, [y EXCEPT !.call.early = T])
        BY <2>2, <2>3, EarlyStep DEF Handles
    <2> QED
        BY <1>7, <1>11, <2>2, <2>4, <2>5, HandlesTransitive
<1> QED
    BY <1>1, <1>2, <1>5, <1>6, <1>9, <1>10, <1>11

-----------------------------------------------------------------------------
(* The answers *)

LEMMA UncertainHandles ==
    ASSUME NEW w0, OK(w0), NEW a \in Attempts, NEW s \in Sources, NEW v \in Uncertain(w0, a, s)
    PROVE  Handles(w0, v)
<1> DEFINE w == NewGeneration(w0)
           u == [w EXCEPT !.db = MarkUncertain(w.db, a, s)]
           decided(d) == [u EXCEPT !.db = BeginReconciliation(u.db, a, s, d)]
<1>1. Handles(w0, w)
    BY NewGenerationHandles
<1>2. Handles(w0, u)
    <2>1. Evolves(w.db, MarkUncertain(w.db, a, s))
        BY <1>1, MarkUncertainEvolves DEF Handles, OK, Worlds
    <2> HIDE DEF w
    <2>2. Handles(w, u)
        BY <1>1, <2>1, DatabaseStep DEF Handles
    <2> QED
        BY <1>1, <2>2, HandlesTransitive
<1>3. \/ v = w
      \/ \E d \in ReconcileDecisions(u.db, a, s) :
           \/ d = "needs_attention" /\ v = DropCurrent(decided(d), a)
           \/ d = "wait" /\ v = [decided(d) EXCEPT !.d.timer = TRUE]
           \/ d = "ready" /\ v = LaunchRead(decided(d), "failure", a, s)
    BY DEF Uncertain, ReconcileDecisions
<1> HIDE DEF w, u
<1>4. ASSUME NEW d \in ReconcileDecisions(u.db, a, s) PROVE Handles(w0, decided(d))
    <2>1. Evolves(u.db, BeginReconciliation(u.db, a, s, d))
        BY <1>2, BeginReconciliationEvolves DEF Handles, OK, Worlds
    <2>2. Handles(u, decided(d))
        BY <1>2, <2>1, DatabaseStep DEF Handles
    <2> QED
        BY <1>2, <2>2, HandlesTransitive
<1> HIDE DEF decided
<1>5. ASSUME NEW d \in ReconcileDecisions(u.db, a, s)
      PROVE  /\ Handles(w0, DropCurrent(decided(d), a))
             /\ Handles(w0, [decided(d) EXCEPT !.d.timer = TRUE])
             /\ Handles(w0, LaunchRead(decided(d), "failure", a, s))
    <2>1. OK(decided(d)) /\ Handles(w0, decided(d))
        BY <1>4 DEF Handles
    <2>2. [decided(d).d EXCEPT !.timer = TRUE] \in OpenDispatchers
        BY <2>1 DEF OK, Worlds, OpenDispatchers
    <2>3. Handles(decided(d), [decided(d) EXCEPT !.d = [decided(d).d EXCEPT !.timer = TRUE]])
        BY <2>1, <2>2, DispatcherStep
    <2>4. Handles(decided(d), DropCurrent(decided(d), a))
        BY <2>1, DropCurrentHandles
    <2>5. Handles(decided(d), LaunchRead(decided(d), "failure", a, s))
        BY <2>1, LaunchReadHandles
    <2> QED
        BY <2>1, <2>3, <2>4, <2>5, HandlesTransitive
<1> QED
    BY <1>1, <1>3, <1>5

LEMMA UnsavedHandles ==
    ASSUME NEW w, OK(w), NEW a \in Attempts, NEW s \in Sources
    PROVE  Handles(w, Unsaved(w, a, s))
<1> DEFINE e == RestorePending(w.db, a, s)
           x == [w.d EXCEPT !.paused = TRUE, !.cur = NoAttempt, !.busy = FALSE, !.timer = TRUE]
<1>1. Evolves(w.db, e) /\ e \in Databases
    BY RestorePendingEvolves DEF OK, Worlds, Evolves
<1>2. Evolves(w.db, FailUnstartedAttempt(e, a))
    BY <1>1, FailUnstartedAttemptEvolves, EvolvesTransitive
<1>3. x \in OpenDispatchers
    BY DEF OK, Worlds, OpenDispatchers
<1> QED
    BY <1>2, <1>3, QuietStep DEF Unsaved

LEMMA NotSteerableHandles ==
    ASSUME NEW w, OK(w), NEW a \in Attempts, NEW s \in Sources
    PROVE  Handles(w, NotSteerable(w, a, s))
<1>1. Evolves(w.db, RestorePending(w.db, a, s))
    BY RestorePendingEvolves DEF OK, Worlds
<1>2. [w.d EXCEPT !.steerPause = a] \in OpenDispatchers
    BY DEF OK, Worlds, OpenDispatchers
<1>3. Handles(w, [w EXCEPT !.db = RestorePending(w.db, a, s), !.d = [w.d EXCEPT !.steerPause = a]])
    BY <1>1, <1>2, QuietStep
<1> QED
    BY <1>3, HandlesReflexive DEF NotSteerable

LEMMA StartAnsweredHandles ==
    ASSUME NEW w, OK(w), NEW a \in Attempts, NEW s \in Sources, NEW t \in Turns,
           NEW early \in BOOLEAN, NEW reported \in BOOLEAN
    PROVE  Handles(w, StartAnswered(w, a, s, t, early, reported))
<1> DEFINE terminal == early \/ reported
           c  == StartConfirmation(w.db, a, s, t, terminal)
           x  == [w.d EXCEPT !.cur = IF c = "bound" THEN a ELSE w.d.cur]
           w1 == [w EXCEPT !.db = ConfirmStart(w.db, a, s, t, terminal), !.d = x]
<1>1. x \in OpenDispatchers
    BY DEF OK, Worlds, OpenDispatchers
<1>2. \/ StartAnswered(w, a, s, t, early, reported) = PauseIdentityConflict(w, a)
      \/ StartAnswered(w, a, s, t, early, reported) \in {w1, Publish(Free(w1), t), Free(w1)}
    BY DEF StartAnswered
<1>3. terminal \in BOOLEAN
    OBVIOUS
<1> HIDE DEF x, terminal
<1>4. Handles(w, w1)
    BY <1>1, <1>3, ConfirmStartHandles
<1> HIDE DEF w1
<1>5. Handles(w, Free(w1)) /\ Handles(w, Publish(Free(w1), t))
    BY <1>4, FreeHandles, PublishFreeHandles, HandlesTransitive DEF Handles
<1> QED
    BY <1>2, <1>4, <1>5, PauseIdentityConflictHandles

LEMMA SteerAnsweredHandles ==
    ASSUME NEW w, OK(w), NEW a \in Attempts, NEW s \in Sources, NEW t
    PROVE  Handles(w, SteerAnswered(w, a, s, t))
<1>1. Evolves(w.db, ConfirmSteer(w.db, a, s, t))
    BY ConfirmSteerEvolves DEF OK, Worlds
<1>2. Handles(w, [w EXCEPT !.db = ConfirmSteer(w.db, a, s, t)])
    BY <1>1, DatabaseStep
<1> QED
    BY <1>2, PauseIdentityConflictHandles DEF SteerAnswered

LEMMA NoCallFits == ASSUME NEW e PROVE NoCall \in Calls /\ CallFits(e, NoCall)
    BY DEF NoCall, Calls, CallFits, NoAttempt, NoSource, NoTurn

\* The answer arrives: the call is no longer in flight.
LEMMA CallOverHandles ==
    ASSUME NEW w, OK(w) PROVE Handles(w, [w EXCEPT !.call = NoCall])
<1> DEFINE v == [w EXCEPT !.call = NoCall]
<1>1. v \in Worlds /\ v.db = w.db /\ v.call = NoCall /\ v.read = w.read /\ v.settle = w.settle
    BY NoCallFits DEF OK, Worlds
<1> HIDE DEF v
<1>2. Handles(w, v)
    BY <1>1, NoCallFits, WorldStep, EvolvesReflexive DEF OK, Worlds
<1> QED
    BY <1>2 DEF v

LEMMA AnsweredHandles ==
    ASSUME NEW w, OK(w), NEW c \in Calls, CallFits(w.db, c), NEW reported \in BOOLEAN,
           c.stage \in {"ok", "refused", "unsaved", "error"}, NEW v \in Answered(w, c, reported)
    PROVE  Handles(w, v)
<1>1. c.kind \in {"start", "steer"} /\ c.att \in Attempts /\ c.src \in Sources /\ c.stale \in BOOLEAN
    BY DEF CallFits, Calls
<1>2. CASE c.stage = "unsaved"
    BY <1>1, <1>2, UnsavedHandles DEF Answered
<1>3. CASE c.stage = "refused"
    BY <1>1, <1>3, NotSteerableHandles DEF Answered
<1>4. CASE c.stage = "error" \/ (c.stage = "ok" /\ c.stale)
    <2>1. v \in Uncertain(w, c.att, c.src)
        BY <1>1, <1>4 DEF Answered
    <2> QED
        BY <1>1, <2>1, UncertainHandles
<1>5. CASE c.stage = "ok" /\ ~c.stale /\ c.kind = "start"
    <2>1. v = StartAnswered(w, c.att, c.src, c.turn, c.turn \in c.early, reported)
        BY <1>1, <1>5 DEF Answered
    <2>2. c.turn \in Turns /\ (c.turn \in c.early) \in BOOLEAN
        BY <1>5 DEF CallFits
    <2> QED
        BY <1>1, <2>1, <2>2, StartAnsweredHandles
<1>6. CASE c.stage = "ok" /\ ~c.stale /\ c.kind = "steer"
    <2>1. v = SteerAnswered(w, c.att, c.src, c.turn)
        BY <1>1, <1>6 DEF Answered
    <2> QED
        BY <1>1, <2>1, SteerAnsweredHandles
<1> QED
    BY <1>1, <1>2, <1>3, <1>4, <1>5, <1>6

-----------------------------------------------------------------------------
(* Reading the history back *)

LEMMA ListedTurns ==
    ASSUME NEW view, turns \in Seq(NativeTurns), Len(turns) <= MaxAttempts
    PROVE  Listed(view) \subseteq Turns /\ Len(turns) \in Nat
    BY LenProperties, BoundsAssumption DEF Listed, Turns, Attempts

LEMMA EndedHandles ==
    ASSUME NEW w, OK(w), NEW a \in Attempts, NEW t \in Turns
    PROVE  Handles(w, Ended(w, a, t))
<1> DEFINE w1 == DropCurrent(w, a)
           own == w.db.att[a].state = "active" /\ w.db.att[a].turn = t
           e == IF own THEN Terminalize(w1.db, a) ELSE w1.db
           x == [w1.d EXCEPT !.busy = FALSE, !.steerPause = NoAttempt]
<1>1. Handles(w, w1)
    BY DropCurrentHandles
<1>2. Ended(w, a, t) = Publish([w1 EXCEPT !.db = e, !.d = x], t)
    BY DEF Ended
<1> HIDE DEF w1
<1>3. Evolves(w1.db, e)
    BY <1>1, TerminalizeEvolves, EvolvesReflexive DEF Handles, OK, Worlds
<1>4. x \in OpenDispatchers
    BY <1>1 DEF Handles, OK, Worlds, OpenDispatchers
<1> HIDE DEF e, x
<1>5. Handles(w1, [w1 EXCEPT !.db = e, !.d = x])
    BY <1>1, <1>3, <1>4, QuietStep DEF Handles
<1>6. Handles([w1 EXCEPT !.db = e, !.d = x], Publish([w1 EXCEPT !.db = e, !.d = x], t))
    BY <1>5, PublishHandles DEF Handles
<1> QED
    BY <1>1, <1>2, <1>5, <1>6, HandlesTransitive

LEMMA StartFoundHandles ==
    ASSUME NEW w, OK(w), NEW a \in Attempts, NEW s \in Sources, NEW t \in Turns
    PROVE  Handles(w, StartFound(w, a, s, t))
<1> DEFINE ended == ShownEnded(t)
           e == ConfirmStart(w.db, a, s, t, ended)
           x == [w.d EXCEPT !.cur = IF ended THEN NoAttempt ELSE a, !.busy = ~ended]
           w1 == [w EXCEPT !.db = e, !.d = x]
<1>1. StartFound(w, a, s, t) \in {PauseIdentityConflict(w, a), Publish(Free(w1), t), w1}
    BY DEF StartFound
<1>2. ended \in BOOLEAN
    BY DEF ShownEnded
<1> HIDE DEF ended
<1>3. x \in OpenDispatchers
    BY <1>2 DEF OK, Worlds, OpenDispatchers
<1> HIDE DEF x
<1>4. Handles(w, w1)
    BY <1>2, <1>3, ConfirmStartHandles
<1> HIDE DEF w1
<1>5. Handles(w, Publish(Free(w1), t))
    BY <1>4, PublishFreeHandles, HandlesTransitive DEF Handles
<1> QED
    BY <1>1, <1>4, <1>5, PauseIdentityConflictHandles

LEMMA SteerFoundHandles ==
    ASSUME NEW w, OK(w), NEW a \in Attempts, NEW s \in Sources, NEW t \in Turns
    PROVE  Handles(w, SteerFound(w, a, s, t))
<1> DEFINE w1 == [w EXCEPT !.db = ConfirmSteer(w.db, a, s, t)]
<1>1. Evolves(w.db, ConfirmSteer(w.db, a, s, t))
    BY ConfirmSteerEvolves DEF OK, Worlds
<1>2. Handles(w, w1)
    BY <1>1, DatabaseStep
<1>3. SteerFound(w, a, s, t) \in {w, w1, Ended(w1, a, t)}
    BY DEF SteerFound
<1> HIDE DEF w1
<1>4. Handles(w, Ended(w1, a, t))
    BY <1>2, EndedHandles, HandlesTransitive DEF Handles
<1> QED
    BY <1>2, <1>3, <1>4, HandlesReflexive

LEMMA StartAbsentHandles ==
    ASSUME NEW w, OK(w), NEW a \in Attempts, NEW s \in Sources
    PROVE  Handles(w, StartAbsent(w, a, s))
<1> DEFINE r == RestorePending(w.db, a, s)
           e == FailUnstartedAttempt(r, a)
           w0 == [w EXCEPT !.db = e]
           w1 == DropCurrent(w0, a)
           x == [w1.d EXCEPT !.paused = TRUE, !.busy = FALSE]
<1>1. Evolves(w.db, r) /\ r \in Databases
    BY RestorePendingEvolves DEF OK, Worlds, Evolves
<1>2. Evolves(w.db, e)
    BY <1>1, FailUnstartedAttemptEvolves, EvolvesTransitive
<1>3. StartAbsent(w, a, s) = [w1 EXCEPT !.d = x]
    BY DEF StartAbsent
<1> HIDE DEF e
<1>4. Handles(w, w0)
    BY <1>2, DatabaseStep
<1> HIDE DEF w0
<1>5. Handles(w, w1)
    BY <1>4, DropCurrentHandles, HandlesTransitive DEF Handles
<1> HIDE DEF w1
<1>6. x \in OpenDispatchers
    BY <1>5 DEF Handles, OK, Worlds, OpenDispatchers
<1> HIDE DEF x
<1>7. Handles(w1, [w1 EXCEPT !.d = x])
    BY <1>5, <1>6, DispatcherStep DEF Handles
<1> QED
    BY <1>3, <1>5, <1>7, HandlesTransitive

LEMMA SteerAbsentHandles ==
    ASSUME NEW w, OK(w), NEW a \in Attempts, NEW s \in Sources, w.db.att[a].turn \in Turns
    PROVE  Handles(w, SteerAbsent(w, a, s))
<1> DEFINE w1 == [w EXCEPT !.db = RestorePending(w.db, a, s)]
           t == w.db.att[a].turn
<1>1. Handles(w, w1)
    BY RestorePendingEvolves, DatabaseStep DEF OK, Worlds
<1>2. SteerAbsent(w, a, s) = Ended(w1, a, t)
    BY DEF SteerAbsent
<1>3. t \in Turns
    OBVIOUS
<1> HIDE DEF w1, t
<1>4. Handles(w1, Ended(w1, a, t))
    BY <1>1, <1>3, EndedHandles DEF Handles
<1> QED
    BY <1>1, <1>2, <1>4, HandlesTransitive

LEMMA ReconcileSubmissionHandles ==
    ASSUME NEW w, OK(w), NEW view, NEW a \in Attempts, NEW s \in Sources,
           turns \in Seq(NativeTurns), Len(turns) <= MaxAttempts
    PROVE  Handles(w, ReconcileSubmission(w, view, a, s))
<1> DEFINE found == Positive(w.db, view, a, s)
           t == CHOOSE x \in found : \A y \in found : y <= x
<1>1. found \subseteq Turns
    BY ListedTurns DEF Positive
<1>2. ASSUME found # {} PROVE t \in Turns
    <2>1. found \in SUBSET (0..MaxAttempts) /\ MaxAttempts \in Nat
        BY <1>1, BoundsAssumption DEF Turns, Attempts
    <2> HIDE DEF found
    <2>2. \E x \in found : \A y \in found : y <= x
        BY <1>2, <2>1, GreatestExists
    <2> QED
        BY <1>1, <2>2
<1>3. \/ ReconcileSubmission(w, view, a, s) = w
      \/ /\ found # {}
         /\ ReconcileSubmission(w, view, a, s) \in {StartFound(w, a, s, t), SteerFound(w, a, s, t)}
      \/ ReconcileSubmission(w, view, a, s) = StartAbsent(w, a, s)
      \/ /\ ReconcileSubmission(w, view, a, s) = SteerAbsent(w, a, s)
         /\ w.db.att[a].turn \in Listed(view)
    BY DEF ReconcileSubmission, ProvenAbsent
<1> HIDE DEF t, found
<1> QED
    BY <1>2, <1>3, ListedTurns, HandlesReflexive, StartFoundHandles, SteerFoundHandles,
       StartAbsentHandles, SteerAbsentHandles

-----------------------------------------------------------------------------
(* Recovery begins; the connection is lost *)

LEMMA RecoverHandles == ASSUME NEW w, OK(w) PROVE Handles(w, Recover(w))
<1> DEFINE x == [w.d EXCEPT !.published = {}, !.ready = FALSE, !.timer = FALSE]
           w1 == [w EXCEPT !.d = x]
           w2 == [w1 EXCEPT !.d = [w1.d EXCEPT !.timer = TRUE]]
           w3 == [w1 EXCEPT !.d = [w1.d EXCEPT !.paused = FALSE]]
<1>1. Recover(w) \in {w2, LaunchRead(w3, "recover", NoAttempt, NoSource)}
    BY DEF Recover
<1>2. x \in OpenDispatchers
    BY DEF OK, Worlds, OpenDispatchers
<1> HIDE DEF x
<1>3. Handles(w, w1)
    BY <1>2, DispatcherStep
<1> HIDE DEF w1
<1>4. /\ [w1.d EXCEPT !.timer = TRUE] \in OpenDispatchers
      /\ [w1.d EXCEPT !.paused = FALSE] \in OpenDispatchers
    BY <1>3 DEF Handles, OK, Worlds, OpenDispatchers
<1>5. Handles(w, w2) /\ Handles(w, w3)
    BY <1>3, <1>4, DispatcherStep, HandlesTransitive DEF Handles
<1> HIDE DEF w2, w3
<1>6. Handles(w3, LaunchRead(w3, "recover", NoAttempt, NoSource))
    BY <1>5, LaunchReadHandles DEF Handles
<1> QED
    BY <1>1, <1>5, <1>6, HandlesTransitive

LEMMA UnavailableHandles == ASSUME NEW w, OK(w) PROVE Handles(w, Unavailable(w))
<1> DEFINE n == NewGeneration(w)
           c == IF n.call.kind = "none" THEN n.call ELSE [n.call EXCEPT !.stale = TRUE]
           x == [n.d EXCEPT !.timer = FALSE, !.ready = FALSE, !.busy = TRUE,
                            !.cur = NoAttempt, !.steerPause = NoAttempt]
           v == [n EXCEPT !.call = c, !.d = x]
<1>1. Handles(w, n)
    BY NewGenerationHandles
<1>2. Unavailable(w) = v
    BY DEF Unavailable
<1> HIDE DEF n
<1>3. c \in Calls /\ CallFits(n.db, c)
    <2>1. n.call \in Calls /\ CallFits(n.db, n.call)
        BY <1>1 DEF Handles, OK, Worlds
    <2> QED
        BY <2>1 DEF CallFits, Calls
<1>4. x \in OpenDispatchers
    BY <1>1 DEF Handles, OK, Worlds, OpenDispatchers
<1> HIDE DEF c, x
<1>5. v \in Worlds /\ v.db = n.db /\ v.call = c /\ v.read = n.read /\ v.settle = n.settle
    BY <1>1, <1>3, <1>4 DEF Handles, OK, Worlds
<1> HIDE DEF v
<1>6. Handles(n, v)
    BY <1>1, <1>3, <1>5, WorldStep, EvolvesReflexive DEF Handles, OK, Worlds
<1> QED
    BY <1>1, <1>2, <1>6, HandlesTransitive

-----------------------------------------------------------------------------
(* The inductive invariant *)

\* A turn that is being processed belongs to an attempt.
Owned == \A t \in Turns : settle[t] \in Processing => \E a \in Attempts : db.att[a].turn = t

IInv == TypeOK /\ FreeRows(db) /\ CallFits(db, call) /\ ReadFits(read) /\ Owned

Bound == \A a \in Attempts : db.att[a].turn # NoTurn => db'.att[a].turn = db.att[a].turn

\* What a step of the system has to show.
Step == IInv' /\ Bound

Notifications == Seq({"started", "completed"} \X Turns)

LEMMA WorldOK ==
    ASSUME IInv
    PROVE  /\ OK(World) /\ World.db = db /\ World.d = disp /\ World.call = call
           /\ World.read = read /\ World.settle = settle /\ World.used = used
<1>1. disp \in OpenDispatchers
    BY RunBoundsAssumption DEF IInv, TypeOK, Dispatchers, OpenDispatchers
<1> QED
    BY <1>1 DEF IInv, TypeOK, OK, World, Worlds, Settlings

\* A handler's world becomes the state.
LEMMA Carry ==
    ASSUME IInv, NEW v, OK(v), Evolves(db, v.db), Becomes(v),
           \A t \in Turns : v.settle[t] \in Processing => \E a \in Attempts : v.db.att[a].turn = t,
           turns' = turns, notes' \in Notifications, link' \in Links
    PROVE  Step
<1>1. disp' \in Dispatchers
    BY RunBoundsAssumption DEF Becomes, OK, Worlds, OpenDispatchers, Dispatchers
<1>2. TypeOK'
    BY <1>1 DEF Becomes, IInv, TypeOK, OK, Worlds, Settlings, Notifications
<1>3. FreeRows(db)' /\ CallFits(db, call)' /\ ReadFits(read)' /\ Owned'
    BY DEF Becomes, OK, FreeRows, CallFits, ReadFits, Owned
<1>4. Bound
    BY DEF Becomes, Evolves, Bound
<1> QED
    BY <1>2, <1>3, <1>4 DEF Step, IInv

\* A handler that processes no turn anew.
LEMMA CarryHandled ==
    ASSUME IInv, NEW w, Handles(World, w), NEW v, Handles(w, v), Becomes(v),
           turns' = turns, notes' \in Notifications, link' \in Links
    PROVE  Step
<1>1. Handles(World, v)
    BY HandlesTransitive
<1>2. OK(v) /\ Evolves(db, v.db)
    BY <1>1, WorldOK DEF Handles
<1>3. ASSUME NEW t \in Turns, v.settle[t] \in Processing
      PROVE  \E a \in Attempts : v.db.att[a].turn = t
    <2>1. settle[t] \in Processing
        BY <1>1, <1>3, WorldOK DEF Handles
    <2>2. PICK a \in Attempts : db.att[a].turn = t
        BY <2>1 DEF IInv, Owned
    <2>3. t # NoTurn
        BY DEF Turns, Attempts, NoTurn
    <2> QED
        BY <1>2, <2>2, <2>3 DEF Evolves
<1> QED
    BY <1>2, <1>3, Carry

LEMMA WorldDispatcher ==
    ASSUME IInv, NEW x \in OpenDispatchers
    PROVE  Handles(World, [World EXCEPT !.d = x])
    BY WorldOK, DispatcherStep

LEMMA SameNotes == ASSUME IInv, UNCHANGED <<turns, notes, link>>
                   PROVE  turns' = turns /\ notes' \in Notifications /\ link' \in Links
    BY DEF IInv, TypeOK, Notifications

LEMMA AcceptStep ==
    ASSUME IInv, NEW s \in Sources, NEW c \in Conversations, Accept(s, c) PROVE Step
<1> DEFINE e == AcceptChatSource(db, s, c, disp.cur)
           x == [disp EXCEPT !.paused = FALSE]
           w == [World EXCEPT !.db = e, !.d = x]
<1>1. PICK v \in Pump(w) : Becomes(v)
    BY DEF Accept, World
<1>2. UNCHANGED <<turns, notes, link>>
    BY DEF Accept
<1>3. Evolves(World.db, e)
    BY WorldOK, AcceptChatSourceEvolves DEF IInv, TypeOK
<1>4. x \in OpenDispatchers
    BY WorldOK DEF OK, Worlds, OpenDispatchers
<1> HIDE DEF e, x
<1>5. Handles(World, w)
    BY <1>3, <1>4, WorldOK, QuietStep
<1> HIDE DEF w
<1>6. Handles(w, v)
    BY <1>5, PumpHandles DEF Handles
<1> QED
    BY <1>1, <1>2, <1>5, <1>6, CarryHandled, SameNotes

LEMMA EnqueueInternalStep == ASSUME IInv, EnqueueInternal PROVE Step
<1> DEFINE x == [disp EXCEPT !.paused = FALSE]
           w == [World EXCEPT !.d = x]
<1>1. PICK v \in Pump(w) : Becomes(v)
    BY DEF EnqueueInternal, World
<1>2. UNCHANGED <<turns, notes, link>>
    BY DEF EnqueueInternal
<1>3. x \in OpenDispatchers
    BY WorldOK DEF OK, Worlds, OpenDispatchers
<1> HIDE DEF x
<1>4. Handles(World, w)
    BY <1>3, WorldDispatcher
<1> HIDE DEF w
<1>5. Handles(w, v)
    BY <1>4, PumpHandles DEF Handles
<1> QED
    BY <1>1, <1>2, <1>4, <1>5, CarryHandled, SameNotes

LEMMA PostedPumpStep == ASSUME IInv, PostedPump PROVE Step
<1> DEFINE x == [disp EXCEPT !.wake = FALSE]
           w == [World EXCEPT !.d = x]
<1>1. PICK v \in Pump(w) : Becomes(v)
    BY DEF PostedPump, World
<1>2. UNCHANGED <<turns, notes, link>>
    BY DEF PostedPump
<1>3. x \in OpenDispatchers
    BY WorldOK DEF OK, Worlds, OpenDispatchers
<1> HIDE DEF x
<1>4. Handles(World, w)
    BY <1>3, WorldDispatcher
<1> HIDE DEF w
<1>5. Handles(w, v)
    BY <1>4, PumpHandles DEF Handles
<1> QED
    BY <1>1, <1>2, <1>4, <1>5, CarryHandled, SameNotes

LEMMA AdmissionAnsweredStep == ASSUME IInv, AdmissionAnswered PROVE Step
<1> DEFINE w == [World EXCEPT !.d = [disp EXCEPT !.admission = "granted"]]
           x == [disp EXCEPT !.admission = "waiting"]
           u == [used EXCEPT !.errors = used.errors + 1]
           f == [World EXCEPT !.d = x, !.used = u]
<1>1. \/ Becomes(Settled(w))
      \/ used.errors < MaxErrors /\ Becomes(Settled(f))
    BY DEF AdmissionAnswered, World
<1>2. UNCHANGED <<turns, notes, link>>
    BY DEF AdmissionAnswered
<1>3. [disp EXCEPT !.admission = "granted"] \in OpenDispatchers /\ x \in OpenDispatchers
    BY WorldOK DEF OK, Worlds, OpenDispatchers
<1>4. Handles(World, w)
    BY <1>3, WorldDispatcher
<1>5. ASSUME used.errors < MaxErrors PROVE Handles(World, f)
    <2>1. u \in Budgets
        BY SMTT(60), <1>5, RunBoundsAssumption DEF IInv, TypeOK, Budgets
    <2> HIDE DEF x, u
    <2>2. f \in Worlds /\ f.db = db /\ f.call = call /\ f.read = read /\ f.settle = settle
        BY <1>3, <2>1, WorldOK DEF OK, Worlds
    <2> HIDE DEF f
    <2> QED
        BY <2>2, WorldOK, WorldStep, EvolvesReflexive DEF OK, Worlds
<1> HIDE DEF w, f
<1>6. Handles(World, w) => Handles(w, Settled(w))
    BY SettledHandles DEF Handles
<1>7. Handles(World, f) => Handles(f, Settled(f))
    BY SettledHandles DEF Handles
<1> QED
    BY <1>1, <1>2, <1>4, <1>5, <1>6, <1>7, CarryHandled, SameNotes

LEMMA AdmissionRetryStep == ASSUME IInv, AdmissionRetry PROVE Step
<1> DEFINE x == [disp EXCEPT !.admission = "none"]
           w == [World EXCEPT !.d = x]
<1>1. PICK v \in Pump(w) : Becomes(v)
    BY DEF AdmissionRetry, World
<1>2. UNCHANGED <<turns, notes, link>>
    BY DEF AdmissionRetry
<1>3. x \in OpenDispatchers
    BY WorldOK DEF OK, Worlds, OpenDispatchers
<1> HIDE DEF x
<1>4. Handles(World, w)
    BY <1>3, WorldDispatcher
<1> HIDE DEF w
<1>5. Handles(w, v)
    BY <1>4, PumpHandles DEF Handles
<1> QED
    BY <1>1, <1>2, <1>4, <1>5, CarryHandled, SameNotes

LEMMA RecoveryTimerStep == ASSUME IInv, RecoveryTimer PROVE Step
<1>1. Becomes(Recover(World)) /\ UNCHANGED <<turns, notes, link>>
    BY DEF RecoveryTimer
<1>2. Handles(World, World) /\ Handles(World, Recover(World))
    BY WorldOK, RecoverHandles, HandlesReflexive
<1> QED
    BY <1>1, <1>2, CarryHandled, SameNotes

LEMMA SubmissionAnsweredStep == ASSUME IInv, SubmissionAnswered PROVE Step
<1> DEFINE w == [World EXCEPT !.call = NoCall]
<1>0. PICK reported \in BOOLEAN : \E v \in Answered(w, call, reported) : Becomes(Settled(v))
    BY DEF SubmissionAnswered
<1>1. PICK v \in Answered(w, call, reported) : Becomes(Settled(v))
    BY <1>0
<1>2. UNCHANGED <<turns, notes, link>> /\ call.stage \in {"ok", "refused", "unsaved", "error"}
    BY DEF SubmissionAnswered
<1>3. Handles(World, w) /\ w.db = db
    BY WorldOK, CallOverHandles DEF World
<1> HIDE DEF w
<1>4. call \in Calls /\ CallFits(w.db, call)
    BY <1>3 DEF IInv, TypeOK
<1>5. Handles(w, v)
    BY <1>1, <1>2, <1>3, <1>4, AnsweredHandles DEF Handles
<1>6. Handles(World, v) /\ Handles(v, Settled(v))
    BY <1>3, <1>5, SettledHandles, HandlesTransitive DEF Handles
<1> QED
    BY <1>1, <1>2, <1>6, CarryHandled, SameNotes

LEMMA StaleReadReturnsStep == ASSUME IInv, StaleReadReturns PROVE Step
<1> DEFINE x == [disp EXCEPT !.stale = disp.stale - 1]
           w == [World EXCEPT !.d = x]
<1>1. Becomes(Settled(w)) /\ UNCHANGED <<turns, notes, link>> /\ disp.stale > 0
    BY DEF StaleReadReturns, World
<1>2. x \in OpenDispatchers
    BY <1>1, WorldOK DEF OK, Worlds, OpenDispatchers
<1> HIDE DEF x
<1>3. Handles(World, w)
    BY <1>2, WorldDispatcher
<1> HIDE DEF w
<1>4. Handles(w, Settled(w))
    BY <1>3, SettledHandles DEF Handles
<1> QED
    BY <1>1, <1>3, <1>4, CarryHandled, SameNotes

\* A read that is allowed to be poor is paid for.
LEMMA ConsumeHandles ==
    ASSUME IInv, NEW view \in Views, Viewed(view), NEW r \in Reads, ReadFits(r)
    PROVE  Handles(World, [Consume(World, view) EXCEPT !.read = r])
<1> DEFINE u == IF view = "full" \/ (view = "failed" /\ link = "down") THEN used
                ELSE [used EXCEPT !.readErrors = used.readErrors + 1]
           v == [World EXCEPT !.used = u, !.read = r]
<1>1. u \in Budgets
    <2>1. CASE view = "full" \/ (view = "failed" /\ link = "down")
        BY <2>1 DEF IInv, TypeOK
    <2>2. CASE ~(view = "full" \/ (view = "failed" /\ link = "down"))
        <3>1. used.readErrors < MaxReadErrors
            BY <2>2 DEF Viewed
        <3>2. [used EXCEPT !.readErrors = used.readErrors + 1] \in Budgets
            BY SMTT(60), <3>1, RunBoundsAssumption DEF IInv, TypeOK, Budgets
        <3> QED
            BY <2>2, <3>2, Zenon
    <2> QED
        BY <2>1, <2>2
<1>2. [Consume(World, view) EXCEPT !.read = r] = v
    <2>1. Consume(World, view) = [World EXCEPT !.used = u]
        <3>1. [World EXCEPT !.used = used] = World
            BY DEF World
        <3> QED
            BY <3>1, WorldOK DEF Consume
    <2> QED
        BY <2>1
<1> HIDE DEF u
<1>3. v \in Worlds /\ v.db = db /\ v.call = call /\ v.read = r /\ v.settle = settle
    BY <1>1, WorldOK DEF OK, Worlds
<1> HIDE DEF v
<1>4. Handles(World, v)
    BY <1>3, WorldOK, WorldStep, EvolvesReflexive DEF OK, Worlds
<1> QED
    BY <1>2, <1>4

LEMMA TurnsBounded == ASSUME IInv PROVE turns \in Seq(NativeTurns) /\ Len(turns) <= MaxAttempts
    BY DEF IInv, TypeOK

LEMMA FailureReadReturnsStep ==
    ASSUME IInv, NEW view \in Views, FailureReadReturns(view) PROVE Step
<1> DEFINE a == read.att
           s == read.src
           w == [Consume(World, view) EXCEPT !.read = NoRead]
           r == IF view = "failed" THEN w ELSE ReconcileSubmission(w, view, a, s)
           x == [r.d EXCEPT !.timer = TRUE]
           y == [r EXCEPT !.d = x]
<1>1. /\ UNCHANGED <<turns, notes, link>> /\ Viewed(view) /\ read.kind = "failure"
      /\ Becomes(Settled(y)) \/ Becomes(Settled(r))
    BY DEF FailureReadReturns
<1>2. a \in Attempts /\ s \in Sources
    BY <1>1 DEF IInv, ReadFits
<1>3. Handles(World, w)
    BY <1>1, ConsumeHandles, NoReadFits
<1> HIDE DEF w, a, s
<1>4. Handles(World, r)
    <2>1. Handles(w, ReconcileSubmission(w, view, a, s))
        BY <1>2, <1>3, TurnsBounded, ReconcileSubmissionHandles DEF Handles
    <2> QED
        BY <1>3, <2>1, HandlesTransitive
<1> HIDE DEF r
<1>5. x \in OpenDispatchers
    BY <1>4 DEF Handles, OK, Worlds, OpenDispatchers
<1> HIDE DEF x
<1>6. Handles(World, y)
    BY <1>4, <1>5, DispatcherStep, HandlesTransitive DEF Handles
<1> HIDE DEF y
<1>7. Handles(y, Settled(y)) /\ Handles(r, Settled(r))
    BY <1>4, <1>6, SettledHandles DEF Handles
<1> QED
    BY <1>1, <1>4, <1>6, <1>7, CarryHandled, SameNotes

LEMMA RecoveryReadReturnsStep ==
    ASSUME IInv, NEW view \in Views, RecoveryReadReturns(view) PROVE Step
<1> DEFINE r == [read EXCEPT !.stage = "members", !.view = view,
                             !.members = UnresolvedSubmissions(db)]
           w == [Consume(World, view) EXCEPT !.read = r]
           own == {a \in Attempts : \E t \in ActiveTurn \cap Listed(view) :
                     a \in AttemptForTurn(db, t) /\ db.att[a].accepting}
           cur == IF own = {} THEN NoAttempt ELSE CHOOSE a \in own : TRUE
           x == [w.d EXCEPT !.ready = TRUE, !.busy = ActiveTurn # {}, !.cur = cur,
                            !.steerPause = IF cur = NoAttempt THEN NoAttempt ELSE disp.steerPause]
           v == [w EXCEPT !.db = FailOrphanedUnstartedAttempts(w.db), !.d = x]
<1>1. Consume(World, view).read = read
    BY DEF Consume, World
<1>2. /\ UNCHANGED <<turns, notes, link>> /\ Viewed(view) /\ read.kind = "recover"
      /\ Becomes(w) \/ Becomes(v)
    BY <1>1 DEF RecoveryReadReturns
<1>3. r \in Reads /\ ReadFits(r)
    <2>1. UnresolvedSubmissions(db) \subseteq Submissions /\ read \in Reads
        BY DEF UnresolvedSubmissions, Submissions, IInv, TypeOK
    <2> QED
        BY <1>2, <2>1 DEF Reads, ReadFits, Views
<1> HIDE DEF r
<1>4. Handles(World, w)
    BY <1>2, <1>3, ConsumeHandles
<1> HIDE DEF w
<1>5. cur \in {NoAttempt} \cup Attempts /\ (ActiveTurn # {}) \in BOOLEAN
    OBVIOUS
<1> HIDE DEF cur
<1>6. x \in OpenDispatchers
    <2>1. disp.steerPause \in {NoAttempt} \cup Attempts
        BY DEF IInv, TypeOK, Dispatchers
    <2> QED
        BY <1>4, <1>5, <2>1 DEF Handles, OK, Worlds, OpenDispatchers
<1>7. Evolves(w.db, FailOrphanedUnstartedAttempts(w.db))
    BY <1>4, FailOrphanedUnstartedAttemptsEvolves DEF Handles, OK, Worlds
<1> HIDE DEF x
<1>8. Handles(w, v)
    BY <1>4, <1>6, <1>7, QuietStep DEF Handles
<1> HIDE DEF v
<1>9. Handles(World, World)
    BY WorldOK, HandlesReflexive
<1> QED
    BY <1>2, <1>4, <1>8, <1>9, CarryHandled, SameNotes

\* A step of the recovery handler between two of its transactions.
LEMMA RecoveryStep ==
    ASSUME NEW w, OK(w), NEW e, Evolves(w.db, e), NEW r \in Reads, ReadFits(r)
    PROVE  Handles(w, [w EXCEPT !.db = e, !.read = r])
<1> DEFINE v == [w EXCEPT !.db = e, !.read = r]
<1>1. v \in Worlds /\ v.db = e /\ v.call = w.call /\ v.read = r /\ v.settle = w.settle
    BY DEF OK, Worlds, Evolves
<1> HIDE DEF v
<1>2. Handles(w, v)
    BY <1>1, WorldStep DEF OK
<1> QED
    BY <1>2 DEF v

LEMMA RecoverMemberStep ==
    ASSUME IInv, NEW d \in Decisions, RecoverMember(d) PROVE Step
<1> DEFINE a == Least({m[1] : m \in read.members})
           s == Least({m[2] : m \in {x \in read.members : x[1] = a}})
           r == [read EXCEPT !.members = read.members \ {<<a, s>>}]
           e == MarkUncertainIfUnresolved(db, a, s)
           w == [World EXCEPT !.db = MarkUncertainIfUnresolved(World.db, a, s),
                              !.read.members = World.read.members \ {<<a, s>>}]
           decided == [w EXCEPT !.db = BeginReconciliation(w.db, a, s, d)]
           reconciled == IF read.view = "failed" THEN decided
                         ELSE ReconcileSubmission(decided, read.view, a, s)
           again(v) == IF v.db.mem[a][s].state \in Unresolved THEN [v EXCEPT !.read.retry = TRUE] ELSE v
<1>2. /\ UNCHANGED <<turns, notes, link>> /\ read.stage = "members" /\ read.members # {}
      /\ \/ Becomes(w)
         \/ /\ d \in ReconcileDecisions(w.db, a, s)
            /\ \/ d = "needs_attention" /\ Becomes(DropCurrent(decided, a))
               \/ d = "wait" /\ Becomes(again(decided))
               \/ d = "ready" /\ Becomes(again(reconciled))
    BY DEF RecoverMember, Decisions
<1>3. a \in Attempts /\ s \in Sources
    <2>1. read.members \subseteq Submissions
        BY DEF IInv, TypeOK, Reads
    <2>2. {m[1] : m \in read.members} \in SUBSET Nat /\ {m[1] : m \in read.members} # {}
        <3>1. \A m \in read.members : m[1] \in Nat
            BY <2>1 DEF Submissions, Attempts
        <3> QED
            BY <1>2, <3>1
    <2>3. a \in {m[1] : m \in read.members}
        BY <2>2, LeastInSet
    <2> HIDE DEF a
    <2> DEFINE S == {m[2] : m \in {x \in read.members : x[1] = a}}
    <2>4. S \in SUBSET Sources /\ S # {}
        BY <2>1, <2>3 DEF Submissions
    <2>5. S \in SUBSET Nat
        BY <2>4 DEF Sources
    <2>6. s \in S
        BY <2>4, <2>5, LeastInSet
    <2> QED
        BY <2>1, <2>3, <2>4, <2>6 DEF Submissions
<1> HIDE DEF a, s
<1>4. r \in Reads /\ ReadFits(r)
    BY <1>3 DEF IInv, TypeOK, Reads, ReadFits
<1>5. Handles(World, w)
    <2>1. Evolves(db, e)
        BY <1>3, MarkUncertainIfUnresolvedEvolves DEF IInv, TypeOK
    <2>2. w = [World EXCEPT !.db = e, !.read = r]
        BY WorldOK
    <2> HIDE DEF w, e, r
    <2>3. Handles(World, [World EXCEPT !.db = e, !.read = r])
        BY <1>4, <2>1, WorldOK, RecoveryStep
    <2> QED
        BY <2>2, <2>3
<1> HIDE DEF w
<1>6. ASSUME d \in ReconcileDecisions(w.db, a, s) PROVE Handles(w, decided)
    <2>1. Evolves(w.db, BeginReconciliation(w.db, a, s, d))
        BY <1>3, <1>5, <1>6, BeginReconciliationEvolves DEF Handles, OK, Worlds
    <2> QED
        BY <1>5, <2>1, DatabaseStep DEF Handles
<1> HIDE DEF decided
<1>7. ASSUME d \in ReconcileDecisions(w.db, a, s)
      PROVE  Handles(decided, DropCurrent(decided, a)) /\ Handles(decided, reconciled)
    <2>1. OK(decided)
        BY <1>6, <1>7 DEF Handles
    <2>2. Handles(decided, ReconcileSubmission(decided, read.view, a, s))
        BY <1>3, <2>1, TurnsBounded, ReconcileSubmissionHandles
    <2> QED
        BY <1>3, <2>1, <2>2, DropCurrentHandles, HandlesReflexive
<1> HIDE DEF reconciled
<1>8. ASSUME NEW v, OK(v) PROVE Handles(v, again(v))
    <2> DEFINE q == [v.read EXCEPT !.retry = TRUE]
               y == [v EXCEPT !.read = q, !.d = v.d]
    <2>1. q \in Reads /\ ReadFits(q)
        BY <1>8 DEF OK, Worlds, Reads, ReadFits
    <2>2. Handles(v, y)
        BY <1>8, <2>1, ReadStep DEF OK, Worlds
    <2>3. y = [v EXCEPT !.read.retry = TRUE]
        BY <1>8 DEF OK, Worlds
    <2> QED
        BY <1>8, <2>2, <2>3, HandlesReflexive
<1> HIDE DEF again
<1>9. ASSUME d \in ReconcileDecisions(w.db, a, s)
      PROVE  /\ Handles(World, decided) /\ Handles(World, reconciled)
             /\ Handles(decided, again(decided)) /\ Handles(reconciled, again(reconciled))
             /\ Handles(decided, DropCurrent(decided, a))
    BY <1>5, <1>6, <1>7, <1>8, <1>9, HandlesTransitive DEF Handles
<1>10. Handles(World, World)
    BY WorldOK, HandlesReflexive
<1> QED
    BY <1>2, <1>5, <1>9, <1>10, CarryHandled, SameNotes

LEMMA RecoverMembersDoneStep == ASSUME IInv, RecoverMembersDone PROVE Step
<1> DEFINE r == [read EXCEPT !.stage = "attempts", !.attempts = Terminalizing(db)]
           v == [World EXCEPT !.read = r]
<1>1. Becomes(v) /\ UNCHANGED <<turns, notes, link>>
    BY DEF RecoverMembersDone, World
<1>2. r \in Reads /\ ReadFits(r)
    BY DEF IInv, TypeOK, Reads, ReadFits, Terminalizing
<1> HIDE DEF r
<1>3. v = [World EXCEPT !.read = r, !.d = World.d]
    BY WorldOK DEF OK, Worlds
<1>4. Handles(World, v)
    <2>1. World.d \in OpenDispatchers
        BY WorldOK DEF OK, Worlds
    <2>2. Handles(World, [World EXCEPT !.read = r, !.d = World.d])
        BY <1>2, <2>1, WorldOK, ReadStep
    <2> QED
        BY <1>3, <2>2
<1> HIDE DEF v
<1> QED
    BY <1>1, <1>4, WorldOK, HandlesReflexive, CarryHandled, SameNotes

LEMMA RecoverAttemptStep ==
    ASSUME IInv, NEW d \in Decisions, RecoverAttempt(d) PROVE Step
<1> DEFINE a == Least(read.attempts)
           r == [read EXCEPT !.attempts = read.attempts \ {a}]
           w == [World EXCEPT !.read = r]
           unseen == read.view = "failed" \/ db.att[a].turn \notin Listed(read.view)
           e == BeginTerminalReconciliation(db, a, d)
           decided == [w EXCEPT !.db = e]
           blocked(v) == [v EXCEPT !.read.blocked = v.read.blocked \cup {a}]
           retrying == [decided EXCEPT !.read.retry = TRUE]
           done == [decided EXCEPT !.read.retry = decided.read.retry \/ unseen]
<1>1. /\ UNCHANGED <<turns, notes, link>> /\ read.stage = "attempts" /\ read.attempts # {}
      /\ d \in TerminalDecisions(db, a)
      /\ \/ d = "needs_attention" /\ Becomes(blocked(DropCurrent(decided, a)))
         \/ d = "wait" /\ Becomes(blocked(retrying))
         \/ d = "ready" /\ Becomes(done)
    BY WorldOK DEF RecoverAttempt, Decisions
<1>2. a \in Attempts
    <2>1. read.attempts \in SUBSET Attempts /\ read.attempts \in SUBSET Nat
        BY DEF IInv, TypeOK, Reads, Attempts
    <2> QED
        BY <1>1, <2>1, LeastInSet
<1> HIDE DEF a
<1>3. r \in Reads /\ ReadFits(r)
    BY DEF IInv, TypeOK, Reads, ReadFits
<1>4. Evolves(db, e)
    BY <1>1, <1>2, BeginTerminalReconciliationEvolves DEF IInv, TypeOK
<1>5. Handles(World, decided)
    <2> HIDE DEF e, r
    <2>1. decided = [World EXCEPT !.db = e, !.read = r]
        BY WorldOK DEF OK, Worlds
    <2>2. Handles(World, [World EXCEPT !.db = e, !.read = r])
        BY <1>3, <1>4, WorldOK, RecoveryStep
    <2> QED
        BY <2>1, <2>2
<1> HIDE DEF decided
<1>6. ASSUME NEW v, OK(v) PROVE Handles(v, blocked(v))
    <2> DEFINE q == [v.read EXCEPT !.blocked = v.read.blocked \cup {a}]
               y == [v EXCEPT !.read = q, !.d = v.d]
    <2>1. q \in Reads /\ ReadFits(q)
        BY <1>2, <1>6 DEF OK, Worlds, Reads, ReadFits
    <2>2. Handles(v, y)
        BY <1>6, <2>1, ReadStep DEF OK, Worlds
    <2>3. y = [v EXCEPT !.read.blocked = v.read.blocked \cup {a}]
        BY <1>6 DEF OK, Worlds
    <2> QED
        BY <2>2, <2>3
<1>7. ASSUME NEW b \in BOOLEAN PROVE Handles(World, [decided EXCEPT !.read.retry = b])
    <2> DEFINE q == [decided.read EXCEPT !.retry = b]
               y == [decided EXCEPT !.read = q, !.d = decided.d]
    <2>1. OK(decided)
        BY <1>5 DEF Handles
    <2>2. q \in Reads /\ ReadFits(q)
        BY <2>1 DEF OK, Worlds, Reads, ReadFits
    <2>3. Handles(decided, y)
        BY <2>1, <2>2, ReadStep DEF OK, Worlds
    <2>4. y = [decided EXCEPT !.read.retry = b]
        BY <2>1 DEF OK, Worlds
    <2> QED
        BY <1>5, <2>3, <2>4, HandlesTransitive
<1>8. Handles(World, retrying) /\ Handles(World, done)
    <2>1. (decided.read.retry \/ unseen) \in BOOLEAN
        OBVIOUS
    <2> HIDE DEF unseen
    <2> QED
        BY <1>7, <2>1
<1>9. Handles(World, DropCurrent(decided, a))
    BY <1>5, DropCurrentHandles, HandlesTransitive DEF Handles
<1> HIDE DEF blocked, retrying, done
<1>10. /\ Handles(DropCurrent(decided, a), blocked(DropCurrent(decided, a)))
       /\ Handles(retrying, blocked(retrying)) /\ Handles(done, done)
    BY <1>6, <1>8, <1>9, HandlesReflexive DEF Handles
<1> QED
    BY <1>1, <1>8, <1>9, <1>10, CarryHandled, SameNotes

LEMMA RecoverTurnsStep == ASSUME IInv, RecoverTurns PROVE Step
<1> DEFINE over == {a \in Attempts \ read.blocked :
                      /\ read.view # "failed" /\ db.att[a].turn # NoTurn
                      /\ a \in AttemptForTurn(db, db.att[a].turn)
                      /\ db.att[a].turn \in Listed(read.view) /\ ShownEnded(db.att[a].turn)}
           fresh == {db.att[a].turn : a \in over} \ disp.published
           q == [a \in Attempts |-> IF a \in over THEN [World.db.att[a] EXCEPT !.accepting = FALSE]
                                    ELSE World.db.att[a]]
           l == [t \in Turns |-> IF t \in fresh /\ World.settle[t] = "idle" THEN "queued" ELSE World.settle[t]]
           v == [World EXCEPT
                    !.db.att = q,
                    !.d.published = World.d.published \cup fresh,
                    !.d.timer = World.d.timer \/ read.retry,
                    !.settle = l, !.read = NoRead]
<1>1. Becomes(Settled(v)) /\ UNCHANGED <<turns, notes, link>>
    BY DEF RecoverTurns
<1>2. over \subseteq Attempts /\ fresh \subseteq Turns
    <2>1. \A a \in over : db.att[a].turn \in Turns
        BY DEF IInv, TypeOK, Databases, AttemptRows
    <2> QED
        BY <2>1
<1> HIDE DEF over, fresh
<1> DEFINE e == [World.db EXCEPT !.att = q]
           p == [World.d EXCEPT !.published = World.d.published \cup fresh,
                                !.timer = World.d.timer \/ read.retry]
<1>3. Evolves(World.db, e)
    <2>1. /\ q \in [Attempts -> AttemptRows]
          /\ \A b \in Attempts : q[b].turn = World.db.att[b].turn /\ q[b].state = World.db.att[b].state
        BY ZenonT(60), WorldOK DEF OK, Worlds, Databases, AttemptRows
    <2> HIDE DEF q
    <2> QED
        BY <2>1, WorldOK DEF OK, Worlds, Evolves, Databases
<1>4. p \in OpenDispatchers
    <2>1. (World.d.timer \/ read.retry) \in BOOLEAN
        OBVIOUS
    <2> QED
        BY <1>2, <2>1, WorldOK DEF OK, Worlds, OpenDispatchers
<1>5. l \in Settlings /\ \A t \in Turns : l[t] \in Processing => World.settle[t] \in Processing
    BY WorldOK DEF OK, Worlds, Settlings, Processing
<1>6. v = [World EXCEPT !.db = e, !.d = p, !.settle = l, !.read = NoRead]
    BY Zenon
<1> HIDE DEF v, e, p, l
<1>7. v \in Worlds /\ v.db = e /\ v.call = World.call /\ v.read = NoRead /\ v.settle = l
    BY <1>3, <1>4, <1>5, <1>6, NoReadFits, WorldOK DEF OK, Worlds, Evolves
<1>8. Handles(World, v)
    BY <1>3, <1>5, <1>7, NoReadFits, WorldOK, WorldStep DEF OK
<1>9. Handles(v, Settled(v))
    BY <1>8, SettledHandles DEF Handles
<1> QED
    BY <1>1, <1>8, <1>9, CarryHandled, SameNotes

-----------------------------------------------------------------------------
(* Terminal processing *)

LEMMA ProcessTerminalStep ==
    ASSUME IInv, NEW t \in Turns, ProcessTerminal(t),
           turns' = turns, notes' \in Notifications, link' \in Links
    PROVE  Step
<1> DEFINE l == [settle EXCEPT ![t] = "waiting"]
           w0 == [World EXCEPT !.settle = l]
<1>1. PICK shown \in BOOLEAN : \E w \in Terminal(w0, t, shown) :
        LET owned == \E a \in Attempts : w.db.att[a].state # "absent" /\ w.db.att[a].turn = t
        IN  Becomes(IF owned THEN w ELSE [w EXCEPT !.settle[t] = "idle"])
    BY WorldOK DEF ProcessTerminal
<1>2. PICK w \in Terminal(w0, t, shown) :
        LET owned == \E a \in Attempts : w.db.att[a].state # "absent" /\ w.db.att[a].turn = t
        IN  Becomes(IF owned THEN w ELSE [w EXCEPT !.settle[t] = "idle"])
    BY <1>1
<1>3. l \in Settlings /\ \A u \in Turns \ {t} : l[u] = settle[u]
    BY DEF IInv, TypeOK, Settlings
<1> HIDE DEF l
<1>4. w0 \in Worlds /\ w0.db = db /\ w0.call = call /\ w0.read = read /\ w0.settle = l
    BY <1>3, WorldOK DEF OK, Worlds
<1> HIDE DEF w0
<1>5. OK(w0)
    BY <1>4, WorldOK DEF OK
<1>6. Handles(w0, w)
    BY <1>2, <1>5, TerminalHandles
<1>7. OK(w) /\ Evolves(db, w.db)
    BY <1>4, <1>6 DEF Handles
<1>8. ASSUME NEW u \in Turns \ {t}, w.settle[u] \in Processing
      PROVE  \E a \in Attempts : w.db.att[a].turn = u
    <2>1. settle[u] \in Processing
        BY <1>3, <1>4, <1>6, <1>8 DEF Handles
    <2>2. PICK a \in Attempts : db.att[a].turn = u
        BY <2>1 DEF IInv, Owned
    <2>3. u # NoTurn
        BY DEF Turns, Attempts, NoTurn
    <2> QED
        BY <1>7, <2>2, <2>3 DEF Evolves
<1>9. CASE \E a \in Attempts : w.db.att[a].state # "absent" /\ w.db.att[a].turn = t
    <2>1. Becomes(w)
        BY <1>2, <1>9
    <2>2. \A u \in Turns : w.settle[u] \in Processing => \E a \in Attempts : w.db.att[a].turn = u
        BY <1>8, <1>9
    <2> QED
        BY <1>7, <2>1, <2>2, Carry
<1>10. CASE ~\E a \in Attempts : w.db.att[a].state # "absent" /\ w.db.att[a].turn = t
    <2> DEFINE i == [w.settle EXCEPT ![t] = "idle"]
               y == [w EXCEPT !.settle = i]
    <2>1. Becomes(y)
        BY <1>2, <1>10
    <2>2. i \in Settlings /\ i[t] \notin Processing /\ \A u \in Turns \ {t} : i[u] = w.settle[u]
        BY <1>7 DEF OK, Worlds, Settlings, Processing
    <2> HIDE DEF i
    <2>3. y \in Worlds /\ y.db = w.db /\ y.call = w.call /\ y.read = w.read /\ y.settle = i
        BY <1>7, <2>2 DEF OK, Worlds
    <2> HIDE DEF y
    <2>4. OK(y) /\ Evolves(db, y.db)
        BY <1>7, <2>3 DEF OK
    <2>5. \A u \in Turns : y.settle[u] \in Processing => \E a \in Attempts : y.db.att[a].turn = u
        BY <1>8, <2>2, <2>3
    <2> QED
        BY <2>1, <2>4, <2>5, Carry
<1> QED
    BY <1>9, <1>10

LEMMA NotesTail ==
    ASSUME IInv, notes # <<>>
    PROVE  Tail(notes) \in Notifications /\ Head(notes)[2] \in Turns
<1>1. Head(notes) \in {"started", "completed"} \X Turns /\ Tail(notes) \in Notifications
    BY HeadTailProperties DEF IInv, TypeOK, Notifications
<1> QED
    BY <1>1

LEMMA StartedDeliveredStep == ASSUME IInv, StartedDelivered PROVE Step
<1>1. notes # <<>> /\ notes' = Tail(notes) /\ UNCHANGED <<turns, link>>
    BY DEF StartedDelivered
<1>2. PICK shown \in BOOLEAN : \E w \in Started(World, Head(notes)[2], shown) : Becomes(w)
    BY DEF StartedDelivered
<1>3. PICK v \in Started(World, Head(notes)[2], shown) : Becomes(v)
    BY <1>2
<1>4. Handles(World, v) /\ Handles(World, World)
    BY <1>1, NotesTail, WorldOK, StartedHandles, HandlesReflexive
<1>5. link' \in Links
    BY <1>1 DEF IInv, TypeOK
<1> QED
    BY <1>1, <1>3, <1>4, <1>5, NotesTail, CarryHandled

LEMMA CompletedDeliveredStep == ASSUME IInv, CompletedDelivered PROVE Step
<1>1. notes # <<>> /\ notes' = Tail(notes) /\ UNCHANGED <<turns, link>>
    BY DEF CompletedDelivered
<1>2. link' \in Links
    BY <1>1 DEF IInv, TypeOK
<1>3. ProcessTerminal(Head(notes)[2]) \/ Becomes(World)
    BY DEF CompletedDelivered
<1>4. Handles(World, World)
    BY WorldOK, HandlesReflexive
<1> QED
    BY <1>1, <1>2, <1>3, <1>4, NotesTail, ProcessTerminalStep, CarryHandled

LEMMA PublishedTerminalStep ==
    ASSUME IInv, NEW t \in Turns, PublishedTerminal(t) PROVE Step
    BY ProcessTerminalStep, SameNotes DEF PublishedTerminal

\* The attempt whose turn is being processed.
LEMMA AttemptOfType ==
    ASSUME IInv, NEW t \in Turns, settle[t] \in Processing
    PROVE  AttemptOf(t) \in Attempts
<1>1. PICK a \in Attempts : db.att[a].turn = t
    BY DEF IInv, Owned
<1>2. t # NoTurn
    BY DEF Turns, Attempts, NoTurn
<1>3. a \in AttemptsOf(t)
    BY <1>1, <1>2 DEF AttemptsOf, IInv, FreeRows
<1> DEFINE active == {b \in AttemptsOf(t) : db.att[b].state = "active"}
           from == IF active # {} THEN active ELSE AttemptsOf(t)
<1>4. from # {} /\ from \subseteq Attempts
    BY <1>3 DEF AttemptsOf
<1>5. from \in SUBSET (0..MaxAttempts) /\ MaxAttempts \in Nat
    BY <1>4, BoundsAssumption DEF Attempts
<1>6. AttemptOf(t) = CHOOSE b \in from : \A c \in from : c <= b
    BY DEF AttemptOf
<1> HIDE DEF from
<1>7. \E b \in from : \A c \in from : c <= b
    BY <1>4, <1>5, GreatestExists
<1> QED
    BY <1>4, <1>6, <1>7

\* The processing of a turn moves on, with the attempt's rows.
LEMMA ProcessingStep ==
    ASSUME IInv, NEW t \in Turns, settle[t] \in Processing,
           NEW e, Evolves(db, e), NEW x \in {"idle", "finishing", "draining"}
    PROVE  Handles(World, [World EXCEPT !.db = e, !.settle[t] = x])
<1> DEFINE l == [settle EXCEPT ![t] = x]
           v == [World EXCEPT !.db = e, !.settle = l]
<1>1. l \in Settlings /\ \A u \in Turns : l[u] \in Processing => settle[u] \in Processing
    BY DEF IInv, TypeOK, Settlings
<1> HIDE DEF l
<1>2. v \in Worlds /\ v.db = e /\ v.call = call /\ v.read = read /\ v.settle = l
    BY <1>1, WorldOK DEF OK, Worlds, Evolves
<1> HIDE DEF v
<1>3. Handles(World, v)
    BY <1>1, <1>2, WorldOK, WorldStep DEF OK
<1>4. [World EXCEPT !.db = e, !.settle[t] = x] = v
    BY WorldOK DEF v, l
<1> QED
    BY <1>3, <1>4

LEMMA SubmissionsSettledStep ==
    ASSUME IInv, NEW t \in Turns, SubmissionsSettled(t) PROVE Step
<1> DEFINE a == AttemptOf(t)
           e == IF db.att[a].state = "active" THEN Terminalize(db, a) ELSE db
           v == [World EXCEPT !.db = e, !.settle[t] = "finishing"]
<1>1. settle[t] = "waiting" /\ UNCHANGED <<turns, notes, link>> /\ Becomes(v)
    BY WorldOK DEF SubmissionsSettled
<1>2. a \in Attempts
    BY <1>1, AttemptOfType DEF Processing
<1>3. Evolves(db, e)
    BY <1>2, TerminalizeEvolves, EvolvesReflexive DEF IInv, TypeOK
<1> HIDE DEF e
<1>4. Handles(World, v)
    BY <1>1, <1>3, ProcessingStep DEF Processing
<1> HIDE DEF v
<1> QED
    BY <1>1, <1>4, WorldOK, HandlesReflexive, CarryHandled, SameNotes

LEMMA FinishStep == ASSUME IInv, NEW t \in Turns, Finish(t) PROVE Step
<1> DEFINE a == AttemptOf(t)
           closed == IF db.att[a].state # "active" THEN {db}
                     ELSE {CompleteAttempt(db, a), RetryAttempt(db, a)}
                            \cup {SupersedeAttempt(db, a, r) : r \in NextSource(db)}
<1>1. settle[t] = "finishing" /\ UNCHANGED <<turns, notes, link>>
    BY DEF Finish
<1>2. PICK e \in closed : Becomes([World EXCEPT !.db = e, !.settle[t] = "draining"])
    BY DEF Finish
<1>3. a \in Attempts /\ db \in Databases
    BY <1>1, AttemptOfType DEF Processing, IInv, TypeOK
<1>4. Evolves(db, e)
    <2> HIDE DEF a
    <2>1. \A r \in NextSource(db) : r \in Sources
        BY DEF NextSource
    <2>2. \/ e = db \/ e = CompleteAttempt(db, a) \/ e = RetryAttempt(db, a)
          \/ \E r \in NextSource(db) : e = SupersedeAttempt(db, a, r)
        OBVIOUS
    <2> QED
        BY <1>3, <2>1, <2>2, CompleteAttemptEvolves, RetryAttemptEvolves, SupersedeAttemptEvolves,
           EvolvesReflexive
<1>5. Handles(World, [World EXCEPT !.db = e, !.settle[t] = "draining"])
    BY <1>1, <1>4, ProcessingStep DEF Processing
<1> QED
    BY <1>1, <1>2, <1>5, WorldOK, HandlesReflexive, CarryHandled, SameNotes

LEMMA DrainedStep == ASSUME IInv, NEW t \in Turns, Drained(t) PROVE Step
<1> DEFINE w1 == [World EXCEPT !.db = db, !.settle[t] = "idle"]
           x == [w1.d EXCEPT !.paused = FALSE]
           w == [w1 EXCEPT !.d = x]
<1>1. settle[t] = "draining" /\ UNCHANGED <<turns, notes, link>>
    BY DEF Drained
<1>2. [World EXCEPT !.settle[t] = "idle", !.d.paused = FALSE] = w
    <2>1. [World EXCEPT !.db = db] = World
        BY DEF World
    <2> QED
        BY <2>1, WorldOK DEF OK, Worlds
<1>3. PICK v \in Pump(w) : Becomes(v)
    BY <1>2 DEF Drained
<1>4. Handles(World, w1)
    BY <1>1, ProcessingStep, EvolvesReflexive DEF Processing, IInv, TypeOK
<1> HIDE DEF w1
<1>5. x \in OpenDispatchers
    BY <1>4 DEF Handles, OK, Worlds, OpenDispatchers
<1>6. Handles(World, w)
    BY <1>4, <1>5, DispatcherStep, HandlesTransitive DEF Handles
<1> HIDE DEF w
<1>7. Handles(w, v)
    BY <1>6, PumpHandles DEF Handles
<1> QED
    BY <1>1, <1>3, <1>6, <1>7, CarryHandled, SameNotes

LEMMA ProcessingFailsStep == ASSUME IInv, NEW t \in Turns, ProcessingFails(t) PROVE Step
<1> DEFINE l == [settle EXCEPT ![t] = "idle"]
           x == [disp EXCEPT !.timer = TRUE]
           u == [used EXCEPT !.readErrors = used.readErrors + 1]
           v == [World EXCEPT !.settle = l, !.d = x, !.used = u]
<1>1. /\ UNCHANGED <<turns, notes, link>> /\ used.readErrors < MaxReadErrors /\ Becomes(v)
    BY WorldOK DEF ProcessingFails
<1>2. l \in Settlings /\ \A s \in Turns : l[s] \in Processing => settle[s] \in Processing
    BY DEF IInv, TypeOK, Settlings, Processing
<1>3. x \in OpenDispatchers
    BY WorldOK DEF OK, Worlds, OpenDispatchers
<1>4. u \in Budgets
    BY SMTT(60), <1>1, RunBoundsAssumption DEF IInv, TypeOK, Budgets
<1> HIDE DEF l, x, u
<1>5. v \in Worlds /\ v.db = db /\ v.call = call /\ v.read = read /\ v.settle = l
    BY <1>2, <1>3, <1>4, WorldOK DEF OK, Worlds
<1> HIDE DEF v
<1>6. Handles(World, v)
    BY <1>2, <1>5, WorldOK, WorldStep, EvolvesReflexive DEF OK, Worlds
<1> QED
    BY <1>1, <1>6, WorldOK, HandlesReflexive, CarryHandled, SameNotes

-----------------------------------------------------------------------------
(* The app-server *)

LEMMA ErrorSpent ==
    ASSUME used \in Budgets, used.errors < MaxErrors
    PROVE  [used EXCEPT !.errors = used.errors + 1] \in Budgets
    BY RunBoundsAssumption DEF Budgets

LEMMA CrashSpent ==
    ASSUME used \in Budgets, used.crashes < MaxCrashes
    PROVE  [used EXCEPT !.crashes = used.crashes + 1] \in Budgets
    BY RunBoundsAssumption DEF Budgets

LEMMA LossSpent ==
    ASSUME used \in Budgets, used.losses < MaxLosses
    PROVE  [used EXCEPT !.losses = used.losses + 1] \in Budgets
    BY RunBoundsAssumption DEF Budgets

LEMMA OneElement == ASSUME NEW S, NEW x \in S PROVE <<x>> \in Seq(S)
    OBVIOUS

LEMMA InterruptedType ==
    ASSUME turns \in Seq(NativeTurns)
    PROVE  Interrupted \in Seq(NativeTurns) /\ Len(Interrupted) = Len(turns)
<1>1. Len(turns) \in Nat /\ \A t \in 1..Len(turns) : turns[t] \in NativeTurns
    BY LenProperties, ElementOfSeq
<1>2. \A t \in 1..Len(turns) : [turns[t] EXCEPT !.status = "ended"] \in NativeTurns
    BY <1>1 DEF NativeTurns
<1>3. Interrupted \in [1..Len(turns) -> NativeTurns]
    BY <1>2 DEF Interrupted
<1>4. Interrupted \in Seq(NativeTurns)
    BY <1>1, <1>3, IsASeq
<1>5. DOMAIN Interrupted = 1..Len(turns)
    BY <1>3
<1> QED
    BY <1>1, <1>4, <1>5, LenProperties

\* A step of the native thread leaves the database and the dispatcher alone.
LEMMA NativeStep ==
    ASSUME IInv, UNCHANGED <<db, disp, read, settle, link>>,
           call' \in Calls, turns' \in Seq(NativeTurns), Len(turns') <= MaxAttempts,
           notes' \in Notifications, used' \in Budgets,
           FreeRows(db)', CallFits(db, call)'
    PROVE  Step
<1>1. TypeOK' /\ Owned' /\ ReadFits(read)'
    BY DEF IInv, TypeOK, Owned, ReadFits, Notifications
<1> QED
    BY <1>1 DEF Step, IInv, Bound

LEMMA ApplyStartStep == ASSUME IInv, ApplyStart PROVE Step
<1> DEFINE t == Len(turns) + 1
           new == [status |-> "active", inputs |-> {<<call.att, call.src>>}]
           over == IF ActiveTurns = {} THEN <<>>
                   ELSE << <<"completed", CHOOSE u \in ActiveTurns : TRUE>> >>
<1>1. /\ call.kind = "start" /\ call.stage = "sent"
      /\ turns' = Append(Interrupted, new)
      /\ notes' = notes \o over \o << <<"started", t>> >>
      /\ call' = [call EXCEPT !.stage = "ok", !.turn = t]
      /\ UNCHANGED <<db, disp, read, settle, link, used>>
    BY DEF ApplyStart
<1>2. /\ turns \in Seq(NativeTurns) /\ Len(turns) <= MaxAttempts /\ Len(turns) \in Nat
      /\ call \in Calls /\ call.att \in Attempts /\ call.src \in Sources
      /\ Len(turns) < call.att /\ notes \in Notifications
    BY <1>1, LenProperties DEF IInv, TypeOK, CallFits, Notifications
<1>3. t \in Turns
    BY <1>2, BoundsAssumption DEF Turns, Attempts
<1>4. new \in NativeTurns
    BY <1>2 DEF NativeTurns, Submissions
<1>5. turns' \in Seq(NativeTurns) /\ Len(turns') = t
    BY <1>1, <1>2, <1>4, InterruptedType, AppendProperties
<1>6. notes' \in Notifications
    <2>1. over \in Notifications
        <3>1. CASE ActiveTurns = {}
            BY <3>1, EmptySeq DEF Notifications
        <3>2. CASE ActiveTurns # {}
            <4>1. (CHOOSE u \in ActiveTurns : TRUE) \in Turns
                BY <1>2, <3>2, BoundsAssumption DEF ActiveTurns, Turns, Attempts
            <4> DEFINE ending == CHOOSE u \in ActiveTurns : TRUE
                       x == <<"completed", ending>>
            <4>2. over = <<x>>
                BY <3>2
            <4>3. ending \in Turns
                BY <4>1
            <4> HIDE DEF ending, over
            <4>4. x \in {"started", "completed"} \X Turns
                BY <4>3
            <4> HIDE DEF x
            <4> QED
                BY <4>2, <4>4, OneElement DEF Notifications
        <3> QED
            BY <3>1, <3>2
    <2>2. << <<"started", t>> >> \in Notifications
        BY <1>3 DEF Notifications
    <2> HIDE DEF over, t
    <2> QED
        BY <1>1, <1>2, <2>1, <2>2, ConcatProperties DEF Notifications
<1>7. call' \in Calls
    BY <1>1, <1>2, <1>3 DEF Calls
<1>8. FreeRows(db)'
    BY <1>1, <1>2, <1>5 DEF IInv, FreeRows, CallFits, Attempts
<1>9. CallFits(db, call)'
    BY <1>1, <1>2, <1>3 DEF CallFits, Calls
<1> QED
    BY <1>1, <1>2, <1>3, <1>5, <1>6, <1>7, <1>8, <1>9, NativeStep, BoundsAssumption
    DEF IInv, TypeOK, Turns, Attempts

\* Only the stage of the call changes, to an outcome.
LEMMA CallStageStep ==
    ASSUME IInv, UNCHANGED <<db, disp, read, settle, link, turns>>, notes' \in Notifications,
           used' \in Budgets, NEW x \in {"ok", "refused", "error"}, call.stage # "none",
           call.stage = "ok" \/ call.kind # "start" \/ x = "error",
           call' = [call EXCEPT !.stage = x]
    PROVE  Step
<1>1. call' \in Calls /\ CallFits(db, call)'
    BY DEF IInv, TypeOK, Calls, CallFits
<1>2. FreeRows(db)' /\ turns' \in Seq(NativeTurns) /\ Len(turns') <= MaxAttempts
    BY DEF IInv, TypeOK, FreeRows
<1> QED
    BY <1>1, <1>2, NativeStep

LEMMA ApplySteerStep == ASSUME IInv, ApplySteer PROVE Step
<1>1. /\ call.kind = "steer" /\ call.stage = "sent" /\ turns[call.turn].status = "active"
      /\ UNCHANGED <<db, disp, read, settle, notes, link>>
    BY DEF ApplySteer
<1>2. CASE /\ turns' = [turns EXCEPT ![call.turn].inputs = @ \cup {<<call.att, call.src>>}]
           /\ call' = [call EXCEPT !.stage = "ok"] /\ UNCHANGED used
    <2>1. turns \in Seq(NativeTurns) /\ call.att \in Attempts /\ call.src \in Sources
        BY <1>1 DEF IInv, TypeOK, CallFits
    <2>2. turns' \in Seq(NativeTurns) /\ Len(turns') = Len(turns)
        <3>1. CASE call.turn \in 1..Len(turns)
            <4> DEFINE n == [turns[call.turn] EXCEPT !.inputs = @ \cup {<<call.att, call.src>>}]
            <4>1. turns[call.turn] \in NativeTurns
                BY <2>1, <3>1, ElementOfSeq
            <4>2. n \in NativeTurns
                BY <2>1, <4>1 DEF NativeTurns, Submissions
            <4>3. turns' = [turns EXCEPT ![call.turn] = n]
                BY <1>2
            <4> HIDE DEF n
            <4> QED
                BY <2>1, <3>1, <4>2, <4>3, ExceptSeq
        <3>2. CASE call.turn \notin 1..Len(turns)
            <4> DEFINE n == [turns[call.turn] EXCEPT !.inputs = @ \cup {<<call.att, call.src>>}]
            <4>1. DOMAIN turns = 1..Len(turns) /\ turns \in [1..Len(turns) -> NativeTurns]
                BY <2>1, LenProperties
            <4>2. turns' = [turns EXCEPT ![call.turn] = n]
                BY <1>2
            <4> HIDE DEF n
            <4>3. [turns EXCEPT ![call.turn] = n] = turns
                BY <3>2, <4>1
            <4> QED
                BY <2>1, <4>2, <4>3
        <3> QED
            BY <3>1, <3>2
    <2>3. call' \in Calls /\ CallFits(db, call)'
        BY <1>1, <1>2 DEF IInv, TypeOK, Calls, CallFits
    <2>4. FreeRows(db)' /\ Len(turns') <= MaxAttempts
        BY <1>1, <2>2 DEF IInv, TypeOK, FreeRows
    <2>5. notes' \in Notifications /\ used' \in Budgets
        BY <1>1, <1>2 DEF IInv, TypeOK, Notifications
    <2> QED
        BY <1>1, <2>2, <2>3, <2>4, <2>5, NativeStep
<1>3. CASE /\ used.errors < MaxErrors /\ call' = [call EXCEPT !.stage = "refused"]
           /\ used' = [used EXCEPT !.errors = @ + 1] /\ UNCHANGED turns
    <2>1. used' \in Budgets
        <3>1. used' = [used EXCEPT !.errors = used.errors + 1]
            BY <1>3
        <3> QED
            BY <1>3, <3>1, ErrorSpent DEF IInv, TypeOK
    <2>2. notes' \in Notifications
        BY <1>1 DEF IInv, TypeOK, Notifications
    <2> QED
        BY <1>1, <1>3, <2>1, <2>2, CallStageStep
<1> QED
    BY <1>2, <1>3 DEF ApplySteer

LEMMA SteerRejectedStep == ASSUME IInv, SteerRejected PROVE Step
<1>1. notes' \in Notifications /\ used' \in Budgets
    BY DEF SteerRejected, IInv, TypeOK, Notifications
<1> QED
    BY <1>1, CallStageStep DEF SteerRejected

LEMMA SubmissionFailsStep == ASSUME IInv, SubmissionFails PROVE Step
<1>1. notes' \in Notifications
    BY DEF SubmissionFails, IInv, TypeOK, Notifications
<1>2. used' \in Budgets
    <2>1. used' = [used EXCEPT !.errors = used.errors + 1] /\ used.errors < MaxErrors
        BY DEF SubmissionFails
    <2> QED
        BY <2>1, ErrorSpent DEF IInv, TypeOK
<1> QED
    BY <1>1, <1>2, CallStageStep DEF SubmissionFails

LEMMA TurnEndsStep == ASSUME IInv, NEW t \in Turns, TurnEnds(t) PROVE Step
<1>1. /\ t \in 1..Len(turns) /\ turns' = [turns EXCEPT ![t].status = "ended"]
      /\ notes' = IF Connected THEN Append(notes, <<"completed", t>>) ELSE notes
      /\ UNCHANGED <<db, disp, call, read, settle, link, used>>
    BY DEF TurnEnds, ActiveTurns
<1>2. turns' \in Seq(NativeTurns) /\ Len(turns') = Len(turns)
    <2> DEFINE n == [turns[t] EXCEPT !.status = "ended"]
    <2>1. turns \in Seq(NativeTurns) /\ turns[t] \in NativeTurns
        BY <1>1, ElementOfSeq DEF IInv, TypeOK
    <2>2. n \in NativeTurns
        BY <2>1 DEF NativeTurns
    <2>3. turns' = [turns EXCEPT ![t] = n]
        BY <1>1
    <2> HIDE DEF n
    <2> QED
        BY <1>1, <2>1, <2>2, <2>3, ExceptSeq
<1>3. notes' \in Notifications
    <2>1. <<"completed", t>> \in {"started", "completed"} \X Turns
        OBVIOUS
    <2> QED
        BY <1>1, <2>1, AppendProperties DEF IInv, TypeOK, Notifications
<1>4. FreeRows(db)' /\ CallFits(db, call)' /\ Len(turns') <= MaxAttempts
    BY <1>1, <1>2 DEF IInv, TypeOK, FreeRows, CallFits
<1>5. call' \in Calls /\ used' \in Budgets
    BY <1>1 DEF IInv, TypeOK
<1> QED
    BY <1>1, <1>2, <1>3, <1>4, <1>5, NativeStep

-----------------------------------------------------------------------------
(* The connection and the process *)

\* The process ends between two transactions, or by a last one.
LEMMA DownStep ==
    ASSUME IInv, NEW d1, Evolves(db, d1), NEW u \in Budgets, Down(d1, u) PROVE Step
<1>1. disp' \in Dispatchers
    BY RunBoundsAssumption DEF Down, NewDispatcher, Dispatchers, NoAttempt
<1>2. call' \in Calls /\ CallFits(db, call)'
    <2>1. call' = NoCall
        BY DEF Down
    <2> QED
        BY <2>1 DEF NoCall, Calls, CallFits, NoAttempt, NoSource
<1>3. read' \in Reads /\ ReadFits(read)'
    BY NoReadFits DEF Down
<1>4. settle' \in Settlings /\ Owned'
    BY DEF Down, Settlings, Owned, Processing
<1>5. turns' \in Seq(NativeTurns) /\ Len(turns') = Len(turns)
    BY InterruptedType DEF Down, IInv, TypeOK
<1>6. notes' \in Notifications
    BY EmptySeq DEF Down, Notifications
<1>7. TypeOK'
    BY <1>1, <1>2, <1>3, <1>4, <1>5, <1>6
    DEF Down, IInv, TypeOK, Evolves, Settlings, Notifications, Links
<1>8. FreeRows(db)' /\ Bound
    BY <1>5 DEF Down, IInv, FreeRows, Evolves, Bound
<1> QED
    BY <1>2, <1>3, <1>4, <1>7, <1>8 DEF Step, IInv

LEMMA CrashStep == ASSUME IInv, Crash PROVE Step
<1> DEFINE u == [used EXCEPT !.crashes = used.crashes + 1]
<1>1. used.crashes < MaxCrashes /\ Down(db, u)
    BY DEF Crash
<1>2. u \in Budgets
    BY <1>1, CrashSpent DEF IInv, TypeOK
<1> HIDE DEF u
<1> QED
    BY <1>1, <1>2, DownStep, EvolvesReflexive DEF IInv, TypeOK

LEMMA PumpThrowsStep == ASSUME IInv, PumpThrows PROVE Step
    BY DownStep, EvolvesReflexive DEF PumpThrows, IInv, TypeOK

LEMMA StopStep == ASSUME IInv, Stop PROVE Step
<1> DEFINE q == [a \in Attempts |->
                    IF db.att[a].state = "active" THEN [db.att[a] EXCEPT !.accepting = FALSE] ELSE db.att[a]]
           fenced == [db EXCEPT !.att = q]
           open == IF disp.cur = NoAttempt THEN {}
                   ELSE {s \in Members(db, disp.cur, {"start_submitting", "steer_submitting"}) :
                            CanMarkUncertain(db, disp.cur, s)}
           marked == IF open = {} THEN fenced ELSE MarkUncertain(fenced, disp.cur, Least(open))
           u == [used EXCEPT !.crashes = used.crashes + 1]
<1>1. used.crashes < MaxCrashes /\ Down(marked, u)
    BY DEF Stop
<1>2. u \in Budgets
    BY <1>1, CrashSpent DEF IInv, TypeOK
<1>3. Evolves(db, fenced)
    <2>1. /\ q \in [Attempts -> AttemptRows]
          /\ \A b \in Attempts : q[b].turn = db.att[b].turn /\ q[b].state = db.att[b].state
        BY ZenonT(60) DEF IInv, TypeOK, Databases, AttemptRows
    <2> HIDE DEF q
    <2> QED
        BY <2>1 DEF IInv, TypeOK, Evolves, Databases
<1> HIDE DEF fenced
<1>4. Evolves(db, marked)
    <2>1. CASE open = {}
        BY <1>3, <2>1
    <2>2. CASE open # {}
        <3>1. open \in SUBSET Sources /\ open \in SUBSET Nat /\ disp.cur \in Attempts
            BY <2>2 DEF Members, Sources, IInv, TypeOK, Dispatchers
        <3>2. Least(open) \in Sources
            BY <2>2, <3>1, LeastInSet
        <3> HIDE DEF open
        <3>3. Evolves(fenced, MarkUncertain(fenced, disp.cur, Least(open)))
            BY <1>3, <3>1, <3>2, MarkUncertainEvolves DEF Evolves
        <3> QED
            BY <1>3, <2>2, <3>3, EvolvesTransitive
    <2> QED
        BY <2>1, <2>2
<1> HIDE DEF marked, u
<1> QED
    BY <1>1, <1>2, <1>4, DownStep

LEMMA BootStep == ASSUME IInv, Boot PROVE Step
<1>1. Becomes(Recover(World)) /\ turns' = turns /\ notes' = notes /\ link' = "booting"
    BY DEF Boot
<1>2. notes' \in Notifications /\ link' \in Links
    BY <1>1 DEF IInv, TypeOK, Notifications, Links
<1>3. Handles(World, World) /\ Handles(World, Recover(World))
    BY WorldOK, RecoverHandles, HandlesReflexive
<1> QED
    BY <1>1, <1>2, <1>3, CarryHandled

LEMMA ReconnectStep == ASSUME IInv, Reconnect PROVE Step
<1>1. Becomes(Recover(World)) /\ turns' = turns /\ notes' = notes /\ link' = "opening"
    BY DEF Reconnect
<1>2. notes' \in Notifications /\ link' \in Links
    BY <1>1 DEF IInv, TypeOK, Notifications, Links
<1>3. Handles(World, World) /\ Handles(World, Recover(World))
    BY WorldOK, RecoverHandles, HandlesReflexive
<1> QED
    BY <1>1, <1>2, <1>3, CarryHandled

\* A handler's world becomes the state while the turns end.
LEMMA CarryInterrupted ==
    ASSUME IInv, NEW v, Handles(World, v), Becomes(v),
           turns' = Interrupted, notes' \in Notifications, link' \in Links
    PROVE  Step
<1>1. disp' \in Dispatchers
    BY RunBoundsAssumption DEF Becomes, Handles, OK, Worlds, OpenDispatchers, Dispatchers
<1>2. turns' \in Seq(NativeTurns) /\ Len(turns') = Len(turns)
    BY InterruptedType DEF IInv, TypeOK
<1>3. TypeOK'
    BY <1>1, <1>2 DEF Becomes, Handles, IInv, TypeOK, OK, Worlds, Settlings, Notifications
<1>4. FreeRows(db)' /\ CallFits(db, call)' /\ ReadFits(read)'
    BY <1>2 DEF Becomes, Handles, OK, FreeRows, CallFits, ReadFits
<1>5. Bound
    BY WorldOK DEF Becomes, Handles, Evolves, Bound
<1>6. ASSUME NEW t \in Turns, settle'[t] \in Processing
      PROVE  \E a \in Attempts : db'.att[a].turn = t
    <2>1. settle[t] \in Processing
        BY <1>6, WorldOK DEF Handles, Becomes
    <2>2. PICK a \in Attempts : db.att[a].turn = t
        BY <2>1 DEF IInv, Owned
    <2>3. t # NoTurn
        BY DEF Turns, Attempts, NoTurn
    <2> QED
        BY <1>5, <2>2, <2>3 DEF Bound
<1>7. Owned'
    BY <1>6 DEF Owned
<1> QED
    BY <1>3, <1>4, <1>5, <1>7 DEF Step, IInv

LEMMA LinkLostStep == ASSUME IInv, LinkLost PROVE Step
<1> DEFINE l == [used EXCEPT !.losses = used.losses + 1]
           v == [World EXCEPT !.used = l]
           w == Unavailable(v)
           failed == [w.call EXCEPT !.stage = "error"]
           x == [w EXCEPT !.call = failed]
<1>1. /\ used.losses < MaxLosses /\ link' = "down" /\ notes' = <<>> /\ turns' = Interrupted
      /\ Becomes(w) \/ (w.call.stage \in {"sent", "ok"} /\ Becomes(x))
    <2>1. used.losses < MaxLosses /\ link' = "down" /\ notes' = <<>> /\ turns' = Interrupted
        BY DEF LinkLost
    <2>2. v = [World EXCEPT !.used.losses = @ + 1]
        BY WorldOK
    <2>3. PICK lost \in BOOLEAN :
            Becomes([w EXCEPT !.call.stage = IF @ = "sent" \/ (lost /\ @ = "ok") THEN "error" ELSE @])
        BY <2>2 DEF LinkLost
    <2> DEFINE dead == w.call.stage = "sent" \/ (lost /\ w.call.stage = "ok")
    <2>4. Handles(World, World)
        BY WorldOK, HandlesReflexive
    <2>5. l \in Budgets
        BY <2>1, LossSpent DEF IInv, TypeOK
    <2>6. OK(v)
        BY <2>5, WorldOK DEF OK, Worlds
    <2>7. w \in Worlds
        BY <2>6, UnavailableHandles DEF Handles, OK
    <2> HIDE DEF w, l, v
    <2>8. CASE dead
        <3>1. x = [w EXCEPT !.call.stage = IF @ = "sent" \/ (lost /\ @ = "ok") THEN "error" ELSE @]
            BY <2>8
        <3> QED
            BY <2>1, <2>3, <2>8, <3>1
    <2>9. CASE ~dead
        <3>1. w = [w EXCEPT !.call.stage = IF @ = "sent" \/ (lost /\ @ = "ok") THEN "error" ELSE @]
            BY <2>7, <2>9 DEF Worlds, Calls
        <3> QED
            BY <2>1, <2>3, <3>1
    <2> QED
        BY <2>8, <2>9
<1>2. l \in Budgets
    BY <1>1, LossSpent DEF IInv, TypeOK
<1> HIDE DEF l
<1>3. v \in Worlds /\ v.db = db /\ v.call = call /\ v.read = read /\ v.settle = settle
    BY <1>2, WorldOK DEF OK, Worlds
<1> HIDE DEF v
<1>4. Handles(World, v)
    BY <1>3, WorldOK, WorldStep, EvolvesReflexive DEF OK, Worlds
<1>5. Handles(v, w)
    BY <1>4, UnavailableHandles DEF Handles
<1> HIDE DEF w
<1>6. ASSUME w.call.stage \in {"sent", "ok"} PROVE Handles(w, x)
    <2>1. w \in Worlds /\ w.call \in Calls /\ CallFits(w.db, w.call) /\ OK(w) /\ ReadFits(w.read)
        BY <1>5 DEF Handles, OK, Worlds
    <2>2. failed \in Calls
        BY <2>1 DEF Calls
    <2>3. failed.kind = w.call.kind /\ failed.stage = "error" /\ failed.att = w.call.att /\ failed.src = w.call.src
        BY <2>1 DEF Calls
    <2>4. CallFits(w.db, failed)
        BY <1>6, <2>1, <2>3 DEF CallFits
    <2> HIDE DEF failed
    <2>5. x \in Worlds /\ x.db = w.db /\ x.call = failed /\ x.read = w.read /\ x.settle = w.settle
        BY <2>1, <2>2 DEF Worlds
    <2> HIDE DEF x
    <2> QED
        BY <2>1, <2>4, <2>5, WorldStep, EvolvesReflexive DEF Worlds
<1> HIDE DEF x
<1>7. notes' \in Notifications /\ link' \in Links
    BY <1>1, EmptySeq DEF Notifications, Links
<1>8. PICK y : Becomes(y) /\ Handles(World, y)
    BY <1>1, <1>4, <1>5, <1>6, HandlesTransitive
<1> QED
    BY <1>1, <1>7, <1>8, CarryInterrupted

LEMMA OpenedStep == ASSUME IInv, Opened PROVE Step
<1> DEFINE w == [World EXCEPT !.d = [disp EXCEPT !.paused = FALSE]]
<1>1. CASE \E v \in Pump(w) : Becomes(v) /\ link' = "up" /\ UNCHANGED <<turns, notes>>
    <2>1. PICK v \in Pump(w) : Becomes(v)
        BY <1>1
    <2>2. [disp EXCEPT !.paused = FALSE] \in OpenDispatchers
        BY WorldOK DEF OK, Worlds, OpenDispatchers
    <2>3. Handles(World, w)
        BY <2>2, WorldDispatcher
    <2> HIDE DEF w
    <2>4. Handles(w, v)
        BY <2>1, <2>3, PumpHandles DEF Handles
    <2>5. turns' = turns /\ notes' \in Notifications /\ link' \in Links
        BY <1>1 DEF IInv, TypeOK, Notifications, Links
    <2> QED
        BY <2>1, <2>3, <2>4, <2>5, CarryHandled
<1>2. CASE Down(db, used)
    BY <1>2, DownStep, EvolvesReflexive DEF IInv, TypeOK
<1>3. CASE Becomes(Unavailable(World)) /\ link' = "stalled" /\ UNCHANGED <<turns, notes>>
    <2>1. turns' = turns /\ notes' \in Notifications /\ link' \in Links
        BY <1>3 DEF IInv, TypeOK, Notifications, Links
    <2>2. Handles(World, World) /\ Handles(World, Unavailable(World))
        BY WorldOK, UnavailableHandles, HandlesReflexive
    <2> QED
        BY <1>3, <2>1, <2>2, CarryHandled
<1>4. [World EXCEPT !.d.paused = FALSE] = w
    BY WorldOK
<1> HIDE DEF w
<1> QED
    BY <1>1, <1>2, <1>3, <1>4 DEF Opened

-----------------------------------------------------------------------------
(* The theorems *)

LEMMA InitIInv == Init => IInv
<1> SUFFICES ASSUME Init PROVE IInv
    OBVIOUS
<1>1. db \in Databases
    BY EmptyDatabaseType DEF Init
<1>2. disp \in Dispatchers
    <2>1. NewDispatcher \in Dispatchers
        BY RunBoundsAssumption DEF NewDispatcher, Dispatchers, NoAttempt
    <2>2. disp = [NewDispatcher EXCEPT !.ready = TRUE]
        BY DEF Init
    <2> QED
        BY <2>1, <2>2 DEF Dispatchers
<1>3. call \in Calls /\ CallFits(db, call)
    BY DEF Init, NoCall, Calls, CallFits, NoAttempt, NoSource
<1>4. read \in Reads /\ ReadFits(read)
    BY NoReadFits DEF Init
<1>5. turns \in Seq(NativeTurns) /\ Len(turns) = 0 /\ notes \in Notifications
    BY EmptySeq DEF Init, Notifications
<1>6. Len(turns) <= MaxAttempts
    BY <1>5, BoundsAssumption
<1>7. used \in Budgets
    BY RunBoundsAssumption DEF Init, Budgets
<1>8. FreeRows(db)
    BY <1>5, BoundsAssumption DEF Init, EmptyDatabase, FreeRows, Attempts, NoTurn
<1>9. settle \in Settlings /\ Owned
    BY DEF Init, Settlings, Owned, Processing
<1> QED
    BY <1>1, <1>2, <1>3, <1>4, <1>5, <1>6, <1>7, <1>8, <1>9
    DEF IInv, TypeOK, Init, Settlings, Notifications, Links

LEMMA StutterStep == ASSUME IInv, UNCHANGED vars PROVE Step
<1>1. IInv'
    BY DEF vars, IInv, TypeOK, FreeRows, CallFits, ReadFits, Owned
<1> QED
    BY <1>1 DEF vars, Step, Bound

LEMMA Inductive == ASSUME IInv, [Next]_vars PROVE Step
<1>1. CASE UNCHANGED vars
    BY <1>1, StutterStep
<1>2. CASE Handlers
    <2>1. CASE \E s \in Sources, c \in Conversations : Accept(s, c)
        BY <2>1, AcceptStep
    <2>2. CASE EnqueueInternal \/ PostedPump \/ PumpThrows \/ AdmissionAnswered \/ AdmissionRetry
        BY <2>2, EnqueueInternalStep, PostedPumpStep, PumpThrowsStep, AdmissionAnsweredStep,
           AdmissionRetryStep
    <2>3. CASE RecoveryTimer \/ SubmissionAnswered \/ StaleReadReturns
        BY <2>3, RecoveryTimerStep, SubmissionAnsweredStep, StaleReadReturnsStep
    <2>4. CASE \E view \in Views : FailureReadReturns(view) \/ RecoveryReadReturns(view)
        BY <2>4, FailureReadReturnsStep, RecoveryReadReturnsStep DEF Views
    <2>5. CASE \E d \in Decisions : RecoverMember(d) \/ RecoverAttempt(d)
        BY <2>5, RecoverMemberStep, RecoverAttemptStep DEF Decisions
    <2>6. CASE RecoverMembersDone \/ RecoverTurns \/ StartedDelivered \/ CompletedDelivered
        BY <2>6, RecoverMembersDoneStep, RecoverTurnsStep, StartedDeliveredStep,
           CompletedDeliveredStep
    <2>7. CASE \E t \in Turns : PublishedTerminal(t) \/ SubmissionsSettled(t) \/ Finish(t)
                                \/ Drained(t) \/ ProcessingFails(t)
        BY <2>7, PublishedTerminalStep, SubmissionsSettledStep, FinishStep, DrainedStep,
           ProcessingFailsStep
    <2> QED
        BY <1>2, <2>1, <2>2, <2>3, <2>4, <2>5, <2>6, <2>7 DEF Handlers
<1>3. CASE Native
    BY <1>3, ApplyStartStep, ApplySteerStep, SteerRejectedStep, SubmissionFailsStep, TurnEndsStep
    DEF Native
<1>4. CASE Lifecycle
    BY <1>4, CrashStep, StopStep, BootStep, LinkLostStep, ReconnectStep, OpenedStep DEF Lifecycle
<1> QED
    BY <1>1, <1>2, <1>3, <1>4 DEF Next

\* Every variable keeps its type through all handlers, failures, restarts and
\* reconnections: the reconciliation of a submission (beginReconciliation) and
\* of a terminal (beginTerminalReconciliation) never counts past its budget,
\* and the native thread never runs more turns than attempts were created, so
\* a restart or a retry never sends one start twice.
THEOREM Typing == Spec => []TypeOK
<1>1. Init => IInv
    BY InitIInv
<1>2. IInv /\ [Next]_vars => IInv'
    BY Inductive DEF Step
<1>3. IInv => TypeOK
    BY DEF IInv
<1> QED
    BY <1>1, <1>2, <1>3, PTL DEF Spec

\* confirmStart binds an attempt to its native turn once: no late answer,
\* repeated notification, history read, terminal transaction or restart binds
\* it to another turn or loses the binding.
THEOREM BindingNeverChanges == Spec => BindingIsFinal
<1>1. Init => IInv
    BY InitIInv
<1>2. IInv /\ [Next]_vars => IInv'
    BY Inductive DEF Step
<1>3. IInv /\ [Next]_vars =>
        [\A a \in Attempts : db.att[a].turn # NoTurn => db'.att[a].turn = db.att[a].turn]_vars
    BY Inductive DEF Step, Bound
<1> QED
    BY <1>1, <1>2, <1>3, PTL DEF Spec, BindingIsFinal

=============================================================================
