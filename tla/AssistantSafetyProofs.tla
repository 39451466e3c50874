------------------------ MODULE AssistantSafetyProofs ------------------------
(***************************************************************************)
(* The safety invariants of AssistantTurns, for every value of its         *)
(* constants, by one inductive invariant: the three tables agree with each *)
(* other and with the native thread (Fits of ConversationStoreProofs), and *)
(* so does what the dispatcher still has under way.                        *)
(***************************************************************************)
EXTENDS AssistantTurnsProofs

\* What the submission in flight knows.
CallKnows(e, c, th) == c.kind # "none" =>
    /\ e.att[c.att].state # "absent" /\ e.src[c.src].state # "absent"
    /\ IsStart(e, c.att, c.src) <=> c.kind = "start"
    /\ c.kind = "start" => c.stage # "refused"
    /\ c.kind = "start" /\ c.stage = "sent" => \A b \in Attempts : c.att < b => e.att[b].state = "absent"
    /\ c.kind = "steer" => /\ c.stage # "unsaved"
                           /\ c.turn # NoTurn /\ e.att[c.att].turn = c.turn
                           /\ SameConversation(e, e.att[c.att].primary, c.src)
    /\ c.stage \in {"sent", "unsaved"} => e.mem[c.att][c.src].state \in Unresolved
    /\ c.stage \in {"sent", "unsaved", "refused"} => ~Ran(th, c.att, c.src)
    /\ c.stage = "ok" => c.turn \in 1..Len(th) /\ <<c.att, c.src>> \in th[c.turn].inputs

\* No history is read while a submission is in flight.
ReadWaits(c, r) == /\ c.kind # "none" => r.kind = "none"
                   /\ r.kind = "none" => r.stage = "none"

\* A turn that is processed is one of the thread; the attempt of a turn whose
\* processing has waited for its submissions is shut.
SettleKnows(e, l, th) ==
    \A t \in Turns :
      /\ l[t] # "idle" => t \in 1..Len(th)
      /\ l[t] = "finishing" => \E a \in Attempts : e.att[a].turn = t /\ Shut(e, a)

Sound(w) == /\ Fits(w.db, turns) /\ CallKnows(w.db, w.call, turns)
            /\ ReadWaits(w.call, w.read) /\ SettleKnows(w.db, w.settle, turns)

\* The rounds of advanceTerminalReconciliations go over attempts still to close.
RoundsFit == /\ read.stage # "attempts" => read.attempts = {}
             /\ read.attempts \subseteq Terminalizing(db)

\* A notification is about a turn of the thread.
NotesFit == \A i \in 1..Len(notes) : notes[i][2] \in 1..Len(turns)

SInv == Sound(World) /\ RoundsFit /\ NotesFit

-----------------------------------------------------------------------------
(* The small steps *)

Thread == turns \in Seq(NativeTurns) /\ Len(turns) <= MaxAttempts

\* No round of advanceTerminalReconciliations is under way.
Calm(r) == r.stage # "attempts" /\ r.attempts = {}

Good(w) == OK(w) /\ Sound(w) /\ Calm(w.read) /\ Thread

LEMMA ThreadLength == ASSUME Thread PROVE Len(turns) \in Nat /\ Len(turns) <= MaxAttempts
    BY DEF Thread

\* A submission in flight keeps what it knows.
LEMMA CallStays ==
    ASSUME NEW d \in Databases, NEW e, NEW th, Fits(d, th), NEW c, CallFits(d, c), CallKnows(d, c, th),
           Later(d, e), Stays(d, e, th)
    PROVE  CallKnows(e, c, th)
<1> SUFFICES ASSUME c.kind # "none" PROVE CallKnows(e, c, th)
    BY DEF CallKnows
<1> DEFINE a == c.att
           s == c.src
<1>1. a \in Attempts /\ s \in Sources
    BY DEF CallFits
<1> HIDE DEF a, s
<1>2. d.att[a].state # "absent" /\ d.src[s].state # "absent"
    BY DEF CallKnows, a, s
<1>3. /\ e.att[a].state # "absent" /\ e.att[a].primary = d.att[a].primary
      /\ e.src[s].state # "absent" /\ e.src[s].conv = d.src[s].conv
      /\ d.att[a].turn # NoTurn => e.att[a].turn = d.att[a].turn
    BY <1>1, <1>2 DEF Later
<1>4. IsStart(e, a, s) <=> IsStart(d, a, s)
    BY <1>3 DEF IsStart
<1>5. c.kind = "steer" => SameConversation(e, e.att[a].primary, s)
    <2>1. SUFFICES ASSUME c.kind = "steer" PROVE SameConversation(e, e.att[a].primary, s)
        OBVIOUS
    <2>2. SameConversation(d, d.att[a].primary, s)
        BY <2>1 DEF CallKnows, a, s
    <2>3. d.src[d.att[a].primary].state # "absent" /\ d.att[a].primary \in Sources
        <3>1. d.att[a].primary \in Sources
            BY <1>1 DEF Databases, AttemptRows
        <3>2. d.att[a].turn # NoTurn
            BY <2>1 DEF CallKnows, a
        <3>3. d.att[a].turn \in 1..Len(th) /\ <<a, d.att[a].primary>> \in th[d.att[a].turn].inputs
            BY <1>1, <3>2 DEF Fits, ThreadFits
        <3> QED
            BY <1>1, <3>1, <3>3, RanIsMember DEF Fits
    <2> QED
        BY <1>3, <2>2, <2>3 DEF SameConversation, Chat, Later
<1> QED
    BY <1>1, <1>2, <1>3, <1>4, <1>5 DEF CallKnows, Stays, a, s

\* What an operator on worlds has to show.
LEMMA GoodStep ==
    ASSUME NEW w, NEW v, Good(w), OK(v), Fits(v.db, turns), Later(w.db, v.db),
           CallKnows(v.db, v.call, turns), ReadWaits(v.call, v.read), Calm(v.read),
           \A t \in Turns : /\ v.settle[t] # "idle" => w.settle[t] # "idle" \/ t \in 1..Len(turns)
                            /\ v.settle[t] = "finishing" => w.settle[t] = "finishing"
    PROVE  Good(v)
<1>1. SettleKnows(v.db, v.settle, turns)
    <2>1. SUFFICES ASSUME NEW t \in Turns
                   PROVE  /\ v.settle[t] # "idle" => t \in 1..Len(turns)
                          /\ v.settle[t] = "finishing" => \E a \in Attempts : v.db.att[a].turn = t /\ Shut(v.db, a)
        BY DEF SettleKnows
    <2>2. v.settle[t] # "idle" => t \in 1..Len(turns)
        BY DEF Good, Sound, SettleKnows
    <2>3. ASSUME v.settle[t] = "finishing" PROVE \E a \in Attempts : v.db.att[a].turn = t /\ Shut(v.db, a)
        <3>1. PICK a \in Attempts : w.db.att[a].turn = t /\ Shut(w.db, a)
            BY <2>3 DEF Good, Sound, SettleKnows
        <3> QED
            BY <3>1 DEF Later, Shut
    <2> QED
        BY <2>2, <2>3
<1> QED
    BY <1>1 DEF Good, Sound

\* A change of the dispatcher's own fields.
LEMMA GoodShift ==
    ASSUME NEW w, NEW v, Good(w), OK(v), v.db = w.db, v.call = w.call,
           v.read = w.read \/ v.read = NoRead, v.settle = w.settle
    PROVE  Good(v)
<1>1. Later(w.db, v.db) /\ Fits(v.db, turns) /\ CallKnows(v.db, v.call, turns)
    BY LaterReflexive DEF Good, Sound
<1>2. ReadWaits(v.call, v.read) /\ Calm(v.read)
    BY DEF Good, Sound, ReadWaits, NoRead, Calm
<1> QED
    BY <1>1, <1>2, GoodStep

\* A change of the database while no submission is in flight.
LEMMA GoodDatabase ==
    ASSUME NEW w, NEW v, Good(w), OK(v), w.call.kind = "none", v.call = w.call, v.read = w.read, v.settle = w.settle,
           Fits(v.db, turns), Later(w.db, v.db)
    PROVE  Good(v)
<1>1. CallKnows(v.db, v.call, turns) /\ ReadWaits(v.call, v.read) /\ Calm(v.read)
    BY DEF CallKnows, ReadWaits, Good, Sound
<1> QED
    BY <1>1, GoodStep

\* The same, whatever is in flight.
LEMMA GoodStays ==
    ASSUME NEW w, NEW v, Good(w), OK(v), v.call = w.call, v.read = w.read, v.settle = w.settle,
           Fits(v.db, turns), Later(w.db, v.db), Stays(w.db, v.db, turns)
    PROVE  Good(v)
<1>1. w.db \in Databases /\ CallFits(w.db, w.call)
    BY DEF Good, OK, Worlds
<1>2. CallKnows(v.db, v.call, turns) /\ ReadWaits(v.call, v.read) /\ Calm(v.read)
    BY <1>1, CallStays DEF Good, Sound
<1> QED
    BY <1>2, GoodStep

LEMMA SettledGood == ASSUME NEW w, Good(w) PROVE Good(Settled(w))
<1>1. OK(Settled(w))
    BY SettledHandles DEF Handles, Good
<1>2. /\ Settled(w).db = w.db /\ Settled(w).call = w.call /\ Settled(w).read = w.read
      /\ Settled(w).settle = w.settle
    BY DEF Settled, Good, OK, Worlds
<1> QED
    BY <1>1, <1>2, GoodShift

LEMMA NewGenerationGood ==
    ASSUME NEW w, Good(w)
    PROVE  /\ Good(NewGeneration(w)) /\ NewGeneration(w).db = w.db /\ NewGeneration(w).call = w.call
           /\ NewGeneration(w).read \in {w.read, NoRead} /\ NewGeneration(w).settle = w.settle
           /\ NewGeneration(w).read.kind = "none"
<1>1. OK(NewGeneration(w))
    BY NewGenerationHandles DEF Handles, Good
<1>2. /\ NewGeneration(w).db = w.db /\ NewGeneration(w).call = w.call
      /\ NewGeneration(w).read \in {w.read, NoRead} /\ NewGeneration(w).settle = w.settle
      /\ NewGeneration(w).read.kind = "none"
    BY DEF NewGeneration, Good, OK, Worlds, NoRead
<1> QED
    BY <1>1, <1>2, GoodShift

LEMMA NotePresenceGood ==
    ASSUME NEW w, Good(w)
    PROVE  /\ Good(NotePresence(w)) /\ NotePresence(w).db = w.db /\ NotePresence(w).call = w.call
           /\ NotePresence(w).read \in {w.read, NoRead} /\ NotePresence(w).settle = w.settle
           /\ NotePresence(w).read.kind = "none"
<1>1. OK(NotePresence(w))
    BY NotePresenceHandles DEF Handles, Good
<1>2. NewGeneration(w) \in Worlds
    BY NewGenerationGood DEF Good, OK
<1>3. /\ NotePresence(w).db = NewGeneration(w).db /\ NotePresence(w).call = NewGeneration(w).call
      /\ NotePresence(w).read = NewGeneration(w).read /\ NotePresence(w).settle = NewGeneration(w).settle
    BY <1>2 DEF NotePresence, Worlds
<1> QED
    BY <1>1, <1>3, NewGenerationGood, GoodShift

LEMMA LaunchReadGood ==
    ASSUME NEW w, Good(w), w.call.kind = "none", NEW kind \in {"recover", "failure"},
           NEW a, NEW s, OK(LaunchRead(w, kind, a, s))
    PROVE  /\ Good(LaunchRead(w, kind, a, s)) /\ LaunchRead(w, kind, a, s).db = w.db
<1> DEFINE n == NewGeneration(w)
           v == LaunchRead(w, kind, a, s)
<1>1. Good(n) /\ n.db = w.db /\ n.call = w.call /\ n.settle = w.settle /\ n \in Worlds
    BY NewGenerationGood DEF Good, OK
<1>2. /\ v.db = n.db /\ v.call = n.call /\ v.settle = n.settle
      /\ v.read = [NoRead EXCEPT !.kind = kind, !.att = a, !.src = s, !.stage = "waiting"]
    BY <1>1 DEF LaunchRead, Worlds
<1>3. v.read.kind = kind /\ v.read.stage = "waiting" /\ v.read.attempts = {}
    BY <1>2 DEF NoRead
<1> HIDE DEF n, v
<1>4. CallKnows(v.db, v.call, turns) /\ ReadWaits(v.call, v.read) /\ Calm(v.read)
    BY <1>1, <1>2, <1>3 DEF CallKnows, ReadWaits, Calm
<1>5. Fits(v.db, turns) /\ Later(w.db, v.db) /\ OK(v)
    BY <1>1, <1>2, LaterReflexive DEF Good, Sound, v
<1>6. Good(v)
    BY <1>1, <1>2, <1>4, <1>5, GoodStep
<1> QED
    BY <1>1, <1>2, <1>3, <1>6 DEF v

LEMMA PublishGood ==
    ASSUME NEW w, Good(w), NEW t \in Turns, t \in 1..Len(turns)
    PROVE  /\ Good(Publish(w, t)) /\ Publish(w, t).db = w.db /\ Publish(w, t).call = w.call
           /\ Publish(w, t).read = w.read
<1> DEFINE v == Publish(w, t)
<1>1. OK(v)
    BY PublishHandles DEF Handles, Good
<1>2. /\ v.db = w.db /\ v.call = w.call /\ v.read = w.read
      /\ \A u \in Turns : /\ v.settle[u] # "idle" => w.settle[u] # "idle" \/ u = t
                          /\ v.settle[u] = "finishing" => w.settle[u] = "finishing"
    BY DEF Publish, Good, OK, Worlds, Settlings
<1> HIDE DEF v
<1>3. Good(v)
    BY <1>1, <1>2, GoodStep, LaterReflexive DEF Good, Sound
<1> QED
    BY <1>2, <1>3 DEF v

LEMMA FreeGood ==
    ASSUME NEW w, Good(w)
    PROVE  /\ Good(Free(w)) /\ Free(w).db = w.db /\ Free(w).call = w.call /\ Free(w).read = w.read
           /\ Free(w).settle = w.settle
<1>1. OK(Free(w))
    BY FreeHandles DEF Handles, Good
<1>2. /\ Free(w).db = w.db /\ Free(w).call = w.call /\ Free(w).read = w.read
      /\ Free(w).settle = w.settle
    BY DEF Free, Good, OK, Worlds
<1> QED
    BY <1>1, <1>2, GoodShift

LEMMA DropCurrentGood ==
    ASSUME NEW w, Good(w), NEW a
    PROVE  /\ Good(DropCurrent(w, a)) /\ DropCurrent(w, a).db = w.db /\ DropCurrent(w, a).call = w.call
           /\ DropCurrent(w, a).read = w.read /\ DropCurrent(w, a).settle = w.settle
<1>1. OK(DropCurrent(w, a))
    BY DropCurrentHandles DEF Handles, Good
<1>2. /\ DropCurrent(w, a).db = w.db /\ DropCurrent(w, a).call = w.call
      /\ DropCurrent(w, a).read = w.read /\ DropCurrent(w, a).settle = w.settle
    BY DEF DropCurrent, Good, OK, Worlds
<1> QED
    BY <1>1, <1>2, GoodShift

\* A handler that only changes the database and the dispatcher.
LEMMA QuietGood ==
    ASSUME NEW w, Good(w), NEW e, Evolves(w.db, e), Fits(e, turns), Later(w.db, e),
           w.call.kind = "none" \/ Stays(w.db, e, turns), NEW x \in OpenDispatchers
    PROVE  Good([w EXCEPT !.db = e, !.d = x])
<1> DEFINE v == [w EXCEPT !.db = e, !.d = x]
<1>1. OK(v)
    BY QuietStep DEF Handles, Good
<1>2. v.db = e /\ v.d = x /\ v.call = w.call /\ v.read = w.read /\ v.settle = w.settle
    BY DEF Good, OK, Worlds
<1> HIDE DEF v
<1>3. Good(v)
    BY <1>1, <1>2, GoodDatabase, GoodStays
<1> QED
    BY <1>2, <1>3 DEF v

LEMMA DatabaseGood ==
    ASSUME NEW w, Good(w), NEW e, Evolves(w.db, e), Fits(e, turns), Later(w.db, e),
           w.call.kind = "none" \/ Stays(w.db, e, turns)
    PROVE  Good([w EXCEPT !.db = e])
<1> DEFINE v == [w EXCEPT !.db = e]
<1>1. OK(v)
    BY DatabaseStep DEF Handles, Good
<1>2. v.db = e /\ v.d = w.d /\ v.call = w.call /\ v.read = w.read /\ v.settle = w.settle
    BY DEF Good, OK, Worlds
<1> HIDE DEF v
<1>3. Good(v)
    BY <1>1, <1>2, GoodDatabase, GoodStays
<1> QED
    BY <1>2, <1>3 DEF v

LEMMA DispatcherGood ==
    ASSUME NEW w, Good(w), NEW x \in OpenDispatchers
    PROVE  Good([w EXCEPT !.d = x])
<1> DEFINE v == [w EXCEPT !.d = x]
<1>1. OK(v)
    BY DispatcherStep DEF Handles, Good
<1>2. v.db = w.db /\ v.d = x /\ v.call = w.call /\ v.read = w.read /\ v.settle = w.settle
    BY DEF Good, OK, Worlds
<1> HIDE DEF v
<1>3. Good(v)
    BY <1>1, <1>2, GoodShift
<1> QED
    BY <1>2, <1>3 DEF v

-----------------------------------------------------------------------------
(* pump *)

LEMMA LaunchStartGood ==
    ASSUME NEW w, Good(w), w.call.kind = "none", w.read.kind = "none",
           NEW a \in NextAttempt(w.db), NEW s \in Sources, w.db.src[s].state = "pending",
           NEW v \in LaunchStart(w, a, s)
    PROVE  Good(v)
<1> DEFINE e == Launch(w.db, a, s)
<1>1. OK(v)
    BY LaunchStartHandles DEF Handles, Good
<1>2. /\ a \in Attempts /\ w.db.att[a].state = "absent" /\ w.db.att[a].turn = NoTurn
      /\ \A c \in Attempts : c < a => w.db.att[c].state # "absent"
    BY DEF NextAttempt, Good, OK, FreeRows, Attempts
<1>3. /\ Fits(e, turns) /\ Later(w.db, e)
      /\ IsStart(e, a, s) /\ e.att[a].state = "active" /\ ~Ran(turns, a, s)
      /\ \A c \in Attempts : a < c => e.att[c].state = "absent"
      /\ e.mem[a][s].state \in Unresolved
    BY <1>2, ThreadLength, LaunchKeeps DEF Good, OK, Worlds, Sound
<1>4. /\ v.db = e /\ v.read = w.read /\ v.settle = w.settle
      /\ v.call.kind = "start" /\ v.call.att = a /\ v.call.src = s
      /\ v.call.stage \in {"sent", "error", "unsaved"}
    <2> DEFINE x == [w.d EXCEPT !.cur = a, !.busy = TRUE, !.admission = "none"]
               c == NewCall("start", a, s, NoTurn)
               sent == [w EXCEPT !.db = e, !.d = x, !.call = c]
               unsaved == [w EXCEPT !.db = e, !.d = x, !.call = [c EXCEPT !.stage = "unsaved"],
                                    !.used = [w.used EXCEPT !.errors = w.used.errors + 1]]
    <2>1. v = sent \/ v = unsaved
        BY ZenonT(60) DEF LaunchStart, Launch, x, c, e
    <2>2. /\ c \in Calls /\ c.kind = "start" /\ c.att = a /\ c.src = s /\ c.stage \in {"sent", "error"}
        BY <1>2, NewCallType
    <2>3. [c EXCEPT !.stage = "unsaved"].kind = "start" /\ [c EXCEPT !.stage = "unsaved"].att = a
          /\ [c EXCEPT !.stage = "unsaved"].src = s /\ [c EXCEPT !.stage = "unsaved"].stage = "unsaved"
        BY <2>2 DEF Calls
    <2> HIDE DEF e, c, x
    <2> QED
        BY <2>1, <2>2, <2>3 DEF Good, OK, Worlds
<1> HIDE DEF e
<1>5. CallKnows(v.db, v.call, turns)
    <2>1. e.src[s].state # "absent"
        BY <1>3 DEF Later
    <2> QED
        BY <1>2, <1>3, <1>4, <2>1 DEF CallKnows
<1>6. ReadWaits(v.call, v.read) /\ Calm(v.read)
    BY <1>4 DEF ReadWaits, Good, Sound
<1> QED
    BY <1>1, <1>3, <1>4, <1>5, <1>6, GoodStep

LEMMA StartNextGood ==
    ASSUME NEW w, Good(w), w.call.kind = "none", w.read.kind = "none", NEW v \in StartNext(w)
    PROVE  Good(v)
<1>1. ASSUME NEW s \in Candidates(w)
      PROVE  /\ s \in Sources /\ Good(WithCandidate(w, s))
             /\ WithCandidate(w, s).call = w.call /\ WithCandidate(w, s).read = w.read
             /\ WithCandidate(w, s).db.att = w.db.att
             /\ WithCandidate(w, s).db.src[s].state = "pending"
    <2>1. s \in Sources /\ w.db.src[s].state \in {"absent", "pending"}
        BY <1>1 DEF Candidates, Pending, NextSource
    <2>2. CASE w.db.src[s].state = "absent"
        <3> DEFINE e == InsertSource(w.db, s, Internal)
                   u == [w.used EXCEPT !.events = w.used.events + 1]
                   x == [w EXCEPT !.db = e, !.used = u]
        <3>1. w.used.events < MaxEvents
            BY <1>1, <2>2, RunBoundsAssumption DEF Candidates, Pending
        <3>2. u \in Budgets
            BY <3>1, RunBoundsAssumption DEF Good, OK, Worlds, Budgets
        <3>3. Evolves(w.db, e) /\ e.att = w.db.att /\ e.src[s].state = "pending"
            BY <2>1, InsertSourceEvolves DEF Good, OK, Worlds, InsertSource, Databases
        <3>4. Fits(e, turns) /\ Later(w.db, e)
            BY <2>1, <2>2, ThreadLength, InsertSourceKeeps DEF Good, OK, Worlds, Sound
        <3> HIDE DEF e, u
        <3>5. /\ x \in Worlds /\ x.db = e /\ x.call = w.call /\ x.read = w.read /\ x.settle = w.settle
            BY <3>2, <3>3 DEF Good, OK, Worlds, Evolves
        <3> HIDE DEF x
        <3>6. OK(x)
            BY <3>3, <3>5, WorldStep DEF Good, OK, Handles
        <3>7. Good(x)
            BY <3>4, <3>5, <3>6, GoodDatabase
        <3>8. WithCandidate(w, s) = x
            BY <2>2 DEF WithCandidate, e, u, x
        <3> QED
            BY <2>1, <3>3, <3>5, <3>7, <3>8
    <2>3. CASE w.db.src[s].state = "pending"
        BY <2>1, <2>3 DEF WithCandidate
    <2> QED
        BY <2>1, <2>2, <2>3
<1>2. ASSUME NEW s \in Candidates(w), NEW a \in NextAttempt(w.db),
             NEW x \in LaunchStart(WithCandidate(w, s), a, s)
      PROVE  Good(x)
    <2>1. a \in NextAttempt(WithCandidate(w, s).db)
        BY <1>1, <1>2 DEF NextAttempt
    <2> QED
        BY <1>1, <1>2, <2>1, LaunchStartGood
<1>3. Good([w EXCEPT !.d.admission = "asking"])
    <2>1. [w.d EXCEPT !.admission = "asking"] \in OpenDispatchers
        BY DEF Good, OK, Worlds, OpenDispatchers
    <2> QED
        BY <2>1, DispatcherGood
<1>4. \/ v = w \/ v = [w EXCEPT !.d.admission = "asking"]
      \/ \E s \in Candidates(w), a \in NextAttempt(w.db) : v \in LaunchStart(WithCandidate(w, s), a, s)
    BY DEF StartNext
<1> QED
    BY <1>2, <1>3, <1>4

LEMMA SteerNextGood ==
    ASSUME NEW w, Good(w), w.call.kind = "none", w.read.kind = "none", NEW v \in SteerNext(w)
    PROVE  Good(v)
<1> DEFINE a == w.d.cur
           x(s) == [w EXCEPT !.db = Reserve(w.db, a, s, "steer_submitting"),
                             !.call = NewCall("steer", a, s, w.db.att[a].turn)]
<1>1. OK(v)
    BY SteerNextHandles DEF Handles, Good
<1>2. v = w \/ (CanSteer(w) /\ ~PrimaryKeyConflict(w) /\ \E s \in NextSteer(w.db, a) : v = x(s))
    BY DEF SteerNext
<1>3. ASSUME NEW s \in NextSteer(w.db, a), CanSteer(w), ~PrimaryKeyConflict(w), v = x(s) PROVE Good(v)
    <2> DEFINE e == Reserve(w.db, a, s, "steer_submitting")
               c == NewCall("steer", a, s, w.db.att[a].turn)
    <2>1. /\ a \in Attempts /\ s \in Sources /\ w.db.att[a].turn \in Turns /\ w.db.att[a].turn # NoTurn
          /\ IsActive(w.db, a) /\ w.db.att[a].accepting /\ w.db.src[s].state = "pending"
          /\ SameConversation(w.db, w.db.att[a].primary, s)
          /\ w.db.mem[a][s].state = "none"
        BY <1>3 DEF CanSteer, PrimaryKeyConflict, NextSteer, Pending, IsActive, Good, OK, Worlds,
                    OpenDispatchers, Databases, AttemptRows, Turns, Attempts, NoTurn
    <2> HIDE DEF a
    <2>2. /\ Fits(e, turns) /\ Later(w.db, e)
          /\ ~IsStart(e, a, s) /\ e.att = w.db.att /\ ~Ran(turns, a, s)
          /\ e.mem[a][s].state \in Unresolved
        BY <2>1, ThreadLength, SteerKeeps DEF Good, OK, Worlds, Sound
    <2>a. c \in Calls /\ c.kind = "steer" /\ c.att = a /\ c.src = s /\ c.stage \in {"sent", "error"}
        BY <2>1, NewCallType
    <2>b. c.turn = w.db.att[a].turn
        BY DEF NewCall, NoCall
    <2>3. /\ c \in Calls /\ c.kind = "steer" /\ c.att = a /\ c.src = s /\ c.stage \in {"sent", "error"}
          /\ c.turn = w.db.att[a].turn
        BY <2>a, <2>b
    <2>4. SameConversation(e, w.db.att[a].primary, s) /\ e.src[s].state # "absent"
        BY <2>1 DEF Reserve, SameConversation, Chat, Good, OK, Worlds, Databases, AttemptRows, SourceRows
    <2> HIDE DEF e, c
    <2>5. v.db = e /\ v.call = c /\ v.read = w.read /\ v.settle = w.settle
        BY <1>3 DEF Good, OK, Worlds, e, c, x
    <2>6. CallKnows(v.db, v.call, turns)
        <3>1. e.att[a].state # "absent" /\ e.att[a].turn = c.turn /\ e.att[a].primary = w.db.att[a].primary
            BY <2>1, <2>2, <2>3 DEF IsActive
        <3> QED
            BY <2>1, <2>2, <2>3, <2>4, <2>5, <3>1 DEF CallKnows
    <2>7. ReadWaits(v.call, v.read) /\ Calm(v.read)
        BY <2>5 DEF ReadWaits, Good, Sound
    <2> QED
        BY <1>1, <2>2, <2>5, <2>6, <2>7, GoodStep
<1> QED
    BY <1>2, <1>3

\* A pump with nothing outstanding finds neither a call nor a read.
LEMMA PumpGood == ASSUME NEW w, Good(w), NEW v \in Pump(w) PROVE Good(v)
<1>1. CASE PumpBlocked(w)
    BY <1>1 DEF Pump
<1>2. CASE ~PumpBlocked(w)
    <2>1. w.call.kind = "none" /\ w.read.kind = "none"
        BY <1>2 DEF PumpBlocked, Outstanding, Good, OK, Worlds, OpenDispatchers
    <2> QED
        BY <1>2, <2>1, StartNextGood, SteerNextGood DEF Pump
<1> QED
    BY <1>1, <1>2

-----------------------------------------------------------------------------
(* The notifications *)

LEMMA TurnInThread == ASSUME Thread, NEW t \in 1..Len(turns) PROVE t \in Turns
    BY ThreadLength, BoundsAssumption DEF Turns, Attempts

\* A transaction that Alike describes, with any change of the dispatcher's fields.
LEMMA AlikeGood ==
    ASSUME NEW w, Good(w), NEW e, Evolves(w.db, e), Alike(w.db, e), NEW x \in OpenDispatchers
    PROVE  Good([w EXCEPT !.db = e, !.d = x])
<1>1. w.db \in Databases /\ e \in Databases
    BY DEF Good, OK, Worlds, Evolves
<1>2. Fits(e, turns) /\ Later(w.db, e) /\ Stays(w.db, e, turns)
    BY <1>1, ThreadLength, AlikeKeeps DEF Good, Sound
<1> QED
    BY <1>2, QuietGood

LEMMA PauseIdentityConflictGood ==
    ASSUME NEW w, Good(w), NEW a \in Attempts
    PROVE  Good(PauseIdentityConflict(w, a)) /\ Alike(w.db, PauseIdentityConflict(w, a).db)
<1> DEFINE steers == {s \in Members(w.db, a, {"steer_submitting"}) : CanMarkUncertain(w.db, a, s)}
           row == [s \in Sources |-> IF s \in steers THEN [w.db.mem[a][s] EXCEPT !.state = "uncertain"]
                                     ELSE w.db.mem[a][s]]
           f == [w.db.mem EXCEPT ![a] = row]
           e == [w.db EXCEPT !.mem = f]
           x == [w.d EXCEPT !.paused = TRUE, !.timer = w.d.timer \/ steers # {},
                            !.steerPause = IF w.d.cur = a THEN a ELSE w.d.steerPause]
           v == PauseIdentityConflict(w, a)
<1>1. OK(v)
    BY PauseIdentityConflictHandles DEF Handles, Good
<1>2. v = [w EXCEPT !.db = e, !.d = x]
    BY Zenon DEF PauseIdentityConflict
<1>3. \A s \in steers : w.db.mem[a][s].state \in Unresolved
    BY DEF Members, Unresolved
<1>4. Alike(w.db, e)
    <2>1. ASSUME NEW s \in Sources
          PROVE  /\ row[s].observed = w.db.mem[a][s].observed
                 /\ \/ row[s].state = w.db.mem[a][s].state
                    \/ row[s].state \in Unresolved /\ w.db.mem[a][s].state \in Unresolved
        <3>1. w.db.mem[a][s] \in MemberRows
            BY DEF Good, OK, Worlds, Databases
        <3>2. CASE s \in steers
            <4>1. row[s] = [w.db.mem[a][s] EXCEPT !.state = "uncertain"]
                BY <3>2
            <4>2. w.db.mem[a][s].state \in Unresolved
                BY <1>3, <3>2
            <4> HIDE DEF row, steers
            <4> QED
                BY <3>1, <4>1, <4>2 DEF MemberRows, Unresolved
        <3>3. CASE s \notin steers
            <4>1. row[s] = w.db.mem[a][s]
                BY <3>3
            <4> QED
                BY <4>1
        <3> QED
            BY <3>2, <3>3
    <2> HIDE DEF row
    <2>2. \A b \in Attempts : e.mem[b] = IF b = a THEN row ELSE w.db.mem[b]
        BY DEF Good, OK, Worlds, Databases
    <2>3. e.src = w.db.src /\ e.att = w.db.att /\ e.out = w.db.out
        BY DEF Good, OK, Worlds, Databases
    <2> HIDE DEF e
    <2> QED
        BY <2>1, <2>2, <2>3 DEF Alike
<1> HIDE DEF e, x, v
<1>5. v.db = e /\ v.call = w.call /\ v.read = w.read /\ v.settle = w.settle
    BY <1>2 DEF Good, OK, Worlds
<1>6. w.db \in Databases /\ e \in Databases
    BY <1>1, <1>5 DEF Good, OK, Worlds
<1>7. Fits(e, turns) /\ Later(w.db, e) /\ Stays(w.db, e, turns)
    BY <1>4, <1>6, ThreadLength, AlikeKeeps DEF Good, Sound
<1>8. Good(v)
    BY <1>1, <1>5, <1>7, GoodStays
<1> QED
    BY <1>4, <1>5, <1>8 DEF v

\* Terminals that were buffered for the call are dropped from it, or added.
LEMMA EarlyGood ==
    ASSUME NEW w, Good(w), NEW T \in SUBSET Turns
    PROVE  Good([w EXCEPT !.call.early = T]) /\ [w EXCEPT !.call.early = T].db = w.db
<1> DEFINE c == [w.call EXCEPT !.early = T]
           v == [w EXCEPT !.call.early = T]
<1>1. OK(v)
    BY EarlyStep DEF Handles, Good
<1>2. /\ c.kind = w.call.kind /\ c.stage = w.call.stage
      /\ c.att = w.call.att /\ c.src = w.call.src /\ c.turn = w.call.turn
    BY DEF Good, OK, Worlds, Calls
<1> HIDE DEF c
<1>3. v.db = w.db /\ v.call = c /\ v.read = w.read /\ v.settle = w.settle
    BY DEF Good, OK, Worlds, c
<1> HIDE DEF v
<1>4. CallKnows(v.db, v.call, turns) /\ ReadWaits(v.call, v.read) /\ Calm(v.read)
    BY <1>2, <1>3 DEF Good, Sound, CallKnows, ReadWaits
<1>5. Good(v)
    BY <1>1, <1>3, <1>4, GoodStep, LaterReflexive DEF Good, Sound
<1> QED
    BY <1>3, <1>5 DEF v

\* What the turn shows, it has; an unresolved start is one.
LEMMA UnresolvedStartKnown ==
    ASSUME NEW w, NEW a, NEW s \in UnresolvedStart(w, a)
    PROVE  /\ s \in Sources /\ w.db.att[a].state # "absent" /\ IsStart(w.db, a, s)
           /\ w.db.mem[a][s].state \in Unresolved
    BY DEF UnresolvedStart, Unresolved

LEMMA CorrelatedKnown ==
    ASSUME NEW w, OK(w), NEW t, NEW shown \in BOOLEAN, NEW m \in Correlated(w, t, shown)
    PROVE  m[1] \in Attempts /\ m[2] \in Sources /\ <<m[1], m[2]>> \in turns[t].inputs
<1> DEFINE seen(a) == {s \in UnresolvedStart(w, a) : shown /\ <<a, s>> \in turns[t].inputs}
           all == {x \in Submissions : x[2] \in seen(x[1])}
           mine == {<<w.d.cur, s>> : s \in seen(w.d.cur)}
<1>1. m \in Submissions
    BY CorrelatedType
<1>2. m[1] \in Attempts /\ m[2] \in Sources
    BY <1>1 DEF Submissions
<1>3. m \in mine \/ m \in all
    BY DEF Correlated
<1>4. <<m[1], m[2]>> \in turns[t].inputs
    <2>1. CASE m \in mine
        <3>1. PICK s \in seen(w.d.cur) : m = <<w.d.cur, s>>
            BY <2>1
        <3>2. <<w.d.cur, s>> \in turns[t].inputs
            OBVIOUS
        <3> QED
            BY <3>1, <3>2
    <2>2. CASE m \in all
        <3>1. m[2] \in seen(m[1])
            BY <2>2
        <3> QED
            BY <3>1
    <2> QED
        BY <1>3, <2>1, <2>2
<1> QED
    BY <1>2, <1>4

\* The turn that a start is bound to carries it.
LEMMA ConfirmStartGood ==
    ASSUME NEW w, Good(w), NEW a \in Attempts, NEW s \in Sources, NEW t \in 1..Len(turns),
           <<a, s>> \in turns[t].inputs, NEW terminal \in BOOLEAN, NEW x \in OpenDispatchers
    PROVE  Good([w EXCEPT !.db = ConfirmStart(w.db, a, s, t, terminal), !.d = x])
<1> DEFINE e == ConfirmStart(w.db, a, s, t, terminal)
<1>1. w.db \in Databases /\ t \in Turns
    BY TurnInThread DEF Good, OK, Worlds
<1>2. Evolves(w.db, e)
    BY <1>1, ConfirmStartEvolves
<1>3. Fits(e, turns) /\ Later(w.db, e) /\ Stays(w.db, e, turns)
    BY <1>1, ThreadLength, ConfirmStartKeeps DEF Good, Sound
<1> HIDE DEF e
<1>4. Good([w EXCEPT !.db = e, !.d = x])
    BY <1>2, <1>3, QuietGood
<1> QED
    BY <1>4 DEF e

LEMMA PublishFreeGood ==
    ASSUME NEW w, Good(w), NEW t \in 1..Len(turns) PROVE Good(Publish(Free(w), t))
<1>1. Good(Free(w)) /\ t \in Turns
    BY FreeGood, TurnInThread DEF Good
<1> QED
    BY <1>1, PublishGood

LEMMA StartedGood ==
    ASSUME NEW w0, Good(w0), NEW t \in 1..Len(turns), NEW shown \in BOOLEAN, NEW v \in Started(w0, t, shown)
    PROVE  Good(v)
<1> DEFINE w == [NotePresence(w0) EXCEPT !.d.busy = TRUE]
           m == Correlated(w, t, shown)
           a == (CHOOSE x \in m : TRUE)[1]
           s == (CHOOSE x \in m : TRUE)[2]
           early == w.call.att = a /\ t \in w.call.early
           w1 == [w EXCEPT !.d.cur = a, !.call.early = IF early THEN {} ELSE w.call.early]
           w2 == [w1 EXCEPT !.db = ConfirmStart(w1.db, a, s, t, early)]
<1>1. Good(w)
    <2> DEFINE n == NotePresence(w0)
    <2>1. Good(n)
        BY NotePresenceGood
    <2>2. [n.d EXCEPT !.busy = TRUE] \in OpenDispatchers
        BY <2>1 DEF Good, OK, Worlds, OpenDispatchers
    <2> HIDE DEF n
    <2>3. Good([n EXCEPT !.d = [n.d EXCEPT !.busy = TRUE]])
        BY <2>1, <2>2, DispatcherGood
    <2>4. w = [n EXCEPT !.d = [n.d EXCEPT !.busy = TRUE]]
        BY DEF n
    <2> QED
        BY <2>3, <2>4
<1>2. \/ m = {} /\ v = w
      \/ /\ m # {}
         /\ \/ v = PauseIdentityConflict(w1, a)
            \/ v = Publish(Free(w2), t)
            \/ v \in Pump(w2)
    BY DEF Started
<1> HIDE DEF w
<1>3. ASSUME m # {} PROVE a \in Attempts /\ s \in Sources /\ <<a, s>> \in turns[t].inputs
    <2> DEFINE y == CHOOSE x \in m : TRUE
    <2>1. y \in m
        BY <1>3
    <2> HIDE DEF y
    <2>2. y[1] \in Attempts /\ y[2] \in Sources /\ <<y[1], y[2]>> \in turns[t].inputs
        BY <1>1, <2>1, CorrelatedKnown DEF Good
    <2> QED
        BY <2>2 DEF y
<1> HIDE DEF a, s, m
<1>4. ASSUME m # {} PROVE Good(w1)
    <2> DEFINE y == [w.d EXCEPT !.cur = a]
               T == IF early THEN {} ELSE w.call.early
    <2>1. y \in OpenDispatchers
        BY <1>1, <1>3, <1>4 DEF Good, OK, Worlds, OpenDispatchers
    <2>2. T \in SUBSET Turns
        BY <1>1 DEF Good, OK, Worlds, Calls
    <2> HIDE DEF y, T
    <2>3. Good([w EXCEPT !.d = y])
        BY <1>1, <2>1, DispatcherGood
    <2>4. Good([[w EXCEPT !.d = y] EXCEPT !.call.early = T])
        BY <2>2, <2>3, EarlyGood
    <2>5. w1 = [[w EXCEPT !.d = y] EXCEPT !.call.early = T]
        BY <1>1 DEF y, T, Good, OK, Worlds
    <2> QED
        BY <2>4, <2>5
<1>5. early \in BOOLEAN
    OBVIOUS
<1> HIDE DEF w1, early
<1>6. ASSUME m # {} PROVE Good(w2)
    <2>1. w1.d \in OpenDispatchers
        BY <1>4, <1>6 DEF Good, OK, Worlds
    <2>2. w2 = [w1 EXCEPT !.db = ConfirmStart(w1.db, a, s, t, early), !.d = w1.d]
        BY <1>4, <1>6 DEF Good, OK, Worlds
    <2> HIDE DEF w2
    <2> QED
        BY <1>3, <1>4, <1>5, <1>6, <2>1, <2>2, ConfirmStartGood
<1> HIDE DEF w2
<1>7. ASSUME m # {} PROVE Good(PauseIdentityConflict(w1, a))
    BY <1>3, <1>4, <1>7, PauseIdentityConflictGood
<1>8. ASSUME m # {} PROVE Good(Publish(Free(w2), t))
    BY <1>6, <1>8, PublishFreeGood
<1>9. ASSUME m # {}, v \in Pump(w2) PROVE Good(v)
    BY <1>6, <1>9, PumpGood
<1> QED
    BY <1>1, <1>2, <1>7, <1>8, <1>9

LEMMA TerminalGood ==
    ASSUME NEW w0, Good(w0), NEW t \in 1..Len(turns), NEW shown \in BOOLEAN, NEW v \in Terminal(w0, t, shown)
    PROVE  Good(v)
<1> DEFINE w == [NotePresence(w0) EXCEPT !.d.paused = FALSE]
           inFlight == w.call.kind = "start" /\ w.call.att = w.d.cur
           m == IF inFlight THEN {<<w.d.cur, s>> : s \in UnresolvedStart(w, w.d.cur)}
                ELSE Correlated(w, t, shown)
           a == (CHOOSE x \in m : TRUE)[1]
           s == (CHOOSE x \in m : TRUE)[2]
           w1 == [w EXCEPT !.d.cur = a]
           ended == [w EXCEPT !.db = Terminalize(w.db, w.d.cur)]
           idle == [w EXCEPT !.d.busy = FALSE]
           bound == [w1 EXCEPT !.db = ConfirmStart(w1.db, a, s, t, TRUE)]
           T == IF inFlight THEN w.call.early \cup {t} ELSE w.call.early
           unknown == [w1 EXCEPT !.db = ObserveUnknownStartTerminal(w1.db, a, s), !.call.early = T]
<1>0. t \in Turns
    BY TurnInThread DEF Good
<1>1. Good(w)
    <2> DEFINE n == NotePresence(w0)
    <2>1. Good(n)
        BY NotePresenceGood
    <2>2. [n.d EXCEPT !.paused = FALSE] \in OpenDispatchers
        BY <2>1 DEF Good, OK, Worlds, OpenDispatchers
    <2> HIDE DEF n
    <2>3. Good([n EXCEPT !.d = [n.d EXCEPT !.paused = FALSE]])
        BY <2>1, <2>2, DispatcherGood
    <2>4. w = [n EXCEPT !.d = [n.d EXCEPT !.paused = FALSE]]
        BY DEF n
    <2> QED
        BY <2>3, <2>4
<1>2. \/ w.d.cur # NoAttempt /\ v = Publish(Free(ended), t)
      \/ v \in Pump(idle)
      \/ v = w
      \/ m # {} /\ v = PauseIdentityConflict(w1, a)
      \/ m # {} /\ <<a, s>> \in turns[t].inputs /\ v = Publish(Free(bound), t)
      \/ m # {} /\ v = unknown
    BY DEF Terminal
<1> HIDE DEF w
<1>3. w.d.cur # NoAttempt => w.d.cur \in Attempts
    BY <1>1 DEF Good, OK, Worlds, OpenDispatchers
<1>4. ASSUME m # {} PROVE a \in Attempts /\ s \in Sources
    <2>1. m \subseteq Submissions
        <3>1. CASE inFlight
            <4>1. w.d.cur \in Attempts
                BY <1>1, <3>1 DEF Good, OK, CallFits
            <4>2. UnresolvedStart(w, w.d.cur) \subseteq Sources
                BY DEF UnresolvedStart
            <4> QED
                BY <3>1, <4>1, <4>2 DEF Submissions
        <3>2. CASE ~inFlight
            BY <1>1, <3>2, CorrelatedType DEF Good
        <3> QED
            BY <3>1, <3>2
    <2>2. (CHOOSE x \in m : TRUE) \in Submissions
        BY <1>4, <2>1
    <2> QED
        BY <2>2 DEF Submissions
<1> HIDE DEF a, s, m
<1>5. ASSUME w.d.cur # NoAttempt PROVE Good(Publish(Free(ended), t))
    <2>1. Evolves(w.db, Terminalize(w.db, w.d.cur)) /\ Alike(w.db, Terminalize(w.db, w.d.cur))
        BY <1>1, <1>3, <1>5, TerminalizeEvolves, TerminalizeAlike DEF Good, OK, Worlds
    <2>2. w.d \in OpenDispatchers /\ ended = [w EXCEPT !.db = Terminalize(w.db, w.d.cur), !.d = w.d]
        BY <1>1 DEF Good, OK, Worlds
    <2> HIDE DEF ended
    <2>3. Good(ended)
        BY <1>1, <2>1, <2>2, AlikeGood
    <2> QED
        BY <2>3, PublishFreeGood
<1>6. ASSUME v \in Pump(idle) PROVE Good(v)
    <2>1. [w.d EXCEPT !.busy = FALSE] \in OpenDispatchers
        BY <1>1 DEF Good, OK, Worlds, OpenDispatchers
    <2>2. Good(idle)
        BY <1>1, <2>1, DispatcherGood
    <2> HIDE DEF idle
    <2> QED
        BY <1>6, <2>2, PumpGood
<1>7. ASSUME m # {} PROVE Good(w1)
    <2>1. [w.d EXCEPT !.cur = a] \in OpenDispatchers
        BY <1>1, <1>4, <1>7 DEF Good, OK, Worlds, OpenDispatchers
    <2> QED
        BY <1>1, <2>1, DispatcherGood
<1>8. w1.call = w.call
    BY <1>1 DEF Good, OK, Worlds
<1> HIDE DEF w1
<1>9. ASSUME m # {} PROVE Good(PauseIdentityConflict(w1, a))
    BY <1>4, <1>7, <1>9, PauseIdentityConflictGood
<1>10. ASSUME m # {}, <<a, s>> \in turns[t].inputs PROVE Good(Publish(Free(bound), t))
    <2>1. w1.d \in OpenDispatchers /\ bound = [w1 EXCEPT !.db = ConfirmStart(w1.db, a, s, t, TRUE), !.d = w1.d]
        BY <1>7, <1>10 DEF Good, OK, Worlds
    <2> HIDE DEF bound
    <2>2. Good(bound)
        BY <1>4, <1>7, <1>10, <2>1, ConfirmStartGood
    <2> QED
        BY <2>2, PublishFreeGood
<1>11. ASSUME m # {} PROVE Good(unknown)
    <2> DEFINE e == ObserveUnknownStartTerminal(w1.db, a, s)
               y == [w1 EXCEPT !.db = e, !.d = w1.d]
    <2>1. Evolves(w1.db, e) /\ Alike(w1.db, e) /\ w1.d \in OpenDispatchers
        BY <1>4, <1>7, <1>11, ObserveUnknownStartTerminalEvolves, ObserveUnknownStartTerminalAlike
        DEF Good, OK, Worlds
    <2>2. T \in SUBSET Turns
        BY <1>0, <1>1 DEF Good, OK, Worlds, Calls
    <2> HIDE DEF T
    <2>3. unknown = [y EXCEPT !.call.early = T]
        BY <1>7, <1>11 DEF Good, OK, Worlds
    <2> HIDE DEF e
    <2>4. Good(y)
        BY <1>7, <1>11, <2>1, AlikeGood
    <2> HIDE DEF y
    <2> QED
        BY <2>2, <2>3, <2>4, EarlyGood
<1> QED
    BY <1>1, <1>2, <1>5, <1>6, <1>9, <1>10, <1>11

-----------------------------------------------------------------------------
(* The answers *)

LEMMA UncertainGood ==
    ASSUME NEW w0, Good(w0), w0.call.kind = "none", NEW a \in Attempts, NEW s \in Sources,
           NEW v \in Uncertain(w0, a, s)
    PROVE  Good(v)
<1> DEFINE w == NewGeneration(w0)
           u == [w EXCEPT !.db = MarkUncertain(w.db, a, s)]
           decided(d) == [u EXCEPT !.db = BeginReconciliation(u.db, a, s, d)]
<1>1. Good(w) /\ w.call.kind = "none"
    BY NewGenerationGood
<1>2. \/ v = w
      \/ /\ CanMarkUncertain(w.db, a, s)
         /\ \E d \in ReconcileDecisions(u.db, a, s) :
              \/ d = "needs_attention" /\ v = DropCurrent(decided(d), a)
              \/ d = "wait" /\ v = [decided(d) EXCEPT !.d.timer = TRUE]
              \/ d = "ready" /\ v = LaunchRead(decided(d), "failure", a, s)
    BY DEF Uncertain, ReconcileDecisions
<1> HIDE DEF w
<1>3. SUFFICES ASSUME CanMarkUncertain(w.db, a, s) PROVE Good(v)
    BY <1>1, <1>2
<1>4. w.db \in Databases /\ w.db.mem[a][s].state \in Unresolved
    BY <1>1, <1>3 DEF Good, OK, Worlds, CanMarkUncertain, Unresolved
<1>5. /\ Good(u) /\ u.call.kind = "none" /\ u.db \in Databases
      /\ u.db.mem[a][s].state \in Unresolved
    <2> DEFINE e == MarkUncertain(w.db, a, s)
    <2>1. Evolves(w.db, e) /\ Alike(w.db, e) /\ w.d \in OpenDispatchers
        BY <1>1, <1>4, MarkUncertainEvolves, MarkUncertainAlike DEF Good, OK, Worlds
    <2>a. e \in Databases
        BY <2>1 DEF Evolves
    <2>b. e.mem[a][s].state = "uncertain"
        BY <1>4 DEF MarkUncertain, Databases, MemberRows
    <2>2. e.mem[a][s].state \in Unresolved /\ e \in Databases
        BY <2>a, <2>b DEF Unresolved
    <2> HIDE DEF e
    <2>3. u = [w EXCEPT !.db = e, !.d = w.d]
        BY <1>1 DEF Good, OK, Worlds, e
    <2>4. u.db = e /\ u.call = w.call
        BY <1>1 DEF Good, OK, Worlds, e
    <2> HIDE DEF u
    <2> QED
        BY <1>1, <2>1, <2>2, <2>3, <2>4, AlikeGood
<1> HIDE DEF u
<1>6. ASSUME NEW d \in ReconcileDecisions(u.db, a, s) PROVE Good(decided(d)) /\ decided(d).call.kind = "none"
    <2> DEFINE e == BeginReconciliation(u.db, a, s, d)
    <2>1. Evolves(u.db, e)
        BY <1>5, BeginReconciliationEvolves
    <2>2. Fits(e, turns) /\ Later(u.db, e)
        BY <1>5, ThreadLength, BeginReconciliationKeeps DEF Good, Sound
    <2> HIDE DEF e
    <2>3. Good([u EXCEPT !.db = e])
        BY <1>5, <2>1, <2>2, DatabaseGood
    <2>4. decided(d).call = u.call
        BY <1>5 DEF Good, OK, Worlds
    <2> QED
        BY <1>5, <2>3, <2>4 DEF e
<1> HIDE DEF decided
<1>7. ASSUME NEW d \in ReconcileDecisions(u.db, a, s)
      PROVE  /\ Good(DropCurrent(decided(d), a))
             /\ Good([decided(d) EXCEPT !.d.timer = TRUE])
             /\ Good(LaunchRead(decided(d), "failure", a, s))
    <2>1. Good(decided(d)) /\ decided(d).call.kind = "none" /\ OK(decided(d))
        BY <1>6 DEF Good
    <2>2. [decided(d).d EXCEPT !.timer = TRUE] \in OpenDispatchers
        BY <2>1 DEF OK, Worlds, OpenDispatchers
    <2>3. Good([decided(d) EXCEPT !.d = [decided(d).d EXCEPT !.timer = TRUE]])
        BY <2>1, <2>2, DispatcherGood
    <2>4. OK(LaunchRead(decided(d), "failure", a, s))
        BY <2>1, LaunchReadHandles DEF Handles
    <2> QED
        BY <2>1, <2>3, <2>4, DropCurrentGood, LaunchReadGood
<1> QED
    BY <1>1, <1>2, <1>7

\* The start never left: it has not run.
LEMMA UnsavedGood ==
    ASSUME NEW w, Good(w), w.call.kind = "none", NEW a \in Attempts, NEW s \in Sources,
           w.db.mem[a][s].state \in Unresolved, IsStart(w.db, a, s), ~Ran(turns, a, s)
    PROVE  Good(Unsaved(w, a, s))
<1> DEFINE r == RestorePending(w.db, a, s)
           e == FailUnstartedAttempt(r, a)
           x == [w.d EXCEPT !.paused = TRUE, !.cur = NoAttempt, !.busy = FALSE, !.timer = TRUE]
<1>1. w.db \in Databases
    BY DEF Good, OK, Worlds
<1>2. Evolves(w.db, e)
    <2>1. Evolves(w.db, RestorePending(w.db, a, s)) /\ RestorePending(w.db, a, s) \in Databases
        BY <1>1, RestorePendingEvolves DEF Evolves
    <2> QED
        BY <2>1, FailUnstartedAttemptEvolves, EvolvesTransitive
<1>3. Fits(e, turns) /\ Later(w.db, e)
    BY <1>1, ThreadLength, StartBackKeeps DEF Good, Sound
<1>4. x \in OpenDispatchers
    BY DEF Good, OK, Worlds, OpenDispatchers
<1>5. Unsaved(w, a, s) = [w EXCEPT !.db = e, !.d = x]
    BY DEF Unsaved
<1> HIDE DEF e, x
<1>6. Good([w EXCEPT !.db = e, !.d = x])
    BY <1>2, <1>3, <1>4, QuietGood
<1> QED
    BY <1>5, <1>6

\* The refused steer has not run either.
LEMMA NotSteerableGood ==
    ASSUME NEW w, Good(w), w.call.kind = "none", NEW a \in Attempts, NEW s \in Sources,
           ~IsStart(w.db, a, s), ~Ran(turns, a, s)
    PROVE  Good(NotSteerable(w, a, s))
<1> DEFINE e == RestorePending(w.db, a, s)
           x == [w.d EXCEPT !.steerPause = a]
<1>1. w.db \in Databases
    BY DEF Good, OK, Worlds
<1>2. Evolves(w.db, e) /\ x \in OpenDispatchers
    BY <1>1, RestorePendingEvolves DEF Good, OK, Worlds, OpenDispatchers
<1>3. CASE w.db.mem[a][s].state \in {"steer_submitting", "uncertain"}
    <2>1. w.db.mem[a][s].state \in Unresolved
        BY <1>3 DEF Unresolved
    <2>2. Fits(e, turns) /\ Later(w.db, e)
        BY <1>1, <2>1, ThreadLength, SteerBackKeeps DEF Good, Sound
    <2>3. NotSteerable(w, a, s) = [w EXCEPT !.db = e, !.d = x]
        BY <1>3 DEF NotSteerable
    <2> HIDE DEF e, x
    <2>4. Good([w EXCEPT !.db = e, !.d = x])
        BY <1>2, <2>2, QuietGood
    <2> QED
        BY <2>3, <2>4
<1>4. CASE w.db.mem[a][s].state \notin {"steer_submitting", "uncertain"}
    BY <1>4 DEF NotSteerable
<1> QED
    BY <1>3, <1>4

LEMMA StartAnsweredGood ==
    ASSUME NEW w, Good(w), NEW a \in Attempts, NEW s \in Sources, NEW t \in 1..Len(turns),
           <<a, s>> \in turns[t].inputs, NEW early \in BOOLEAN, NEW reported \in BOOLEAN
    PROVE  Good(StartAnswered(w, a, s, t, early, reported))
<1> DEFINE terminal == early \/ reported
           c  == StartConfirmation(w.db, a, s, t, terminal)
           x  == [w.d EXCEPT !.cur = IF c = "bound" THEN a ELSE w.d.cur]
           w1 == [w EXCEPT !.db = ConfirmStart(w.db, a, s, t, terminal), !.d = x]
<1>1. x \in OpenDispatchers
    BY DEF Good, OK, Worlds, OpenDispatchers
<1>2. \/ StartAnswered(w, a, s, t, early, reported) = PauseIdentityConflict(w, a)
      \/ StartAnswered(w, a, s, t, early, reported) \in {w1, Publish(Free(w1), t), Free(w1)}
    BY DEF StartAnswered
<1>3. terminal \in BOOLEAN
    OBVIOUS
<1> HIDE DEF x, terminal
<1>4. Good(w1)
    BY <1>1, <1>3, ConfirmStartGood
<1> HIDE DEF w1
<1>5. Good(Free(w1)) /\ Good(Publish(Free(w1), t))
    BY <1>4, FreeGood, PublishFreeGood
<1> QED
    BY <1>2, <1>4, <1>5, PauseIdentityConflictGood

LEMMA ConfirmSteerGood ==
    ASSUME NEW w, Good(w), w.call.kind = "none", NEW a \in Attempts, NEW s \in Sources, NEW t
    PROVE  Good([w EXCEPT !.db = ConfirmSteer(w.db, a, s, t)])
<1> DEFINE e == ConfirmSteer(w.db, a, s, t)
<1>1. w.db \in Databases
    BY DEF Good, OK, Worlds
<1>2. Evolves(w.db, e) /\ Fits(e, turns) /\ Later(w.db, e)
    BY <1>1, ThreadLength, ConfirmSteerEvolves, ConfirmSteerKeeps DEF Good, Sound
<1> HIDE DEF e
<1>3. Good([w EXCEPT !.db = e])
    BY <1>2, DatabaseGood
<1> QED
    BY <1>3 DEF e

LEMMA SteerAnsweredGood ==
    ASSUME NEW w, Good(w), w.call.kind = "none", NEW a \in Attempts, NEW s \in Sources, NEW t
    PROVE  Good(SteerAnswered(w, a, s, t))
    BY ConfirmSteerGood, PauseIdentityConflictGood DEF SteerAnswered

LEMMA NoCallKnows == ASSUME NEW e PROVE CallKnows(e, NoCall, turns) /\ NoCall.kind = "none"
    BY DEF NoCall, CallKnows

\* The answer arrives: the call is no longer in flight.
LEMMA CallOverGood ==
    ASSUME NEW w, Good(w)
    PROVE  Good([w EXCEPT !.call = NoCall]) /\ [w EXCEPT !.call = NoCall].call.kind = "none"
<1> DEFINE v == [w EXCEPT !.call = NoCall]
<1>1. OK(v)
    BY CallOverHandles DEF Handles, Good
<1>2. v.db = w.db /\ v.call = NoCall /\ v.read = w.read /\ v.settle = w.settle
    BY DEF Good, OK, Worlds
<1> HIDE DEF v
<1>3. ReadWaits(v.call, v.read) /\ Calm(v.read)
    BY <1>2, NoCallKnows DEF Good, Sound, ReadWaits
<1>4. Good(v)
    BY <1>1, <1>2, <1>3, NoCallKnows, GoodStep, LaterReflexive DEF Good, Sound
<1> QED
    BY <1>2, <1>4, NoCallKnows DEF v

LEMMA AnsweredGood ==
    ASSUME NEW w, Good(w), w.call.kind = "none",
           NEW c \in Calls, CallFits(w.db, c), CallKnows(w.db, c, turns), NEW reported \in BOOLEAN,
           c.stage \in {"ok", "refused", "unsaved", "error"}, NEW v \in Answered(w, c, reported)
    PROVE  Good(v)
<1>1. c.kind \in {"start", "steer"} /\ c.att \in Attempts /\ c.src \in Sources /\ c.stale \in BOOLEAN
    BY DEF CallFits, Calls
<1>2. CASE c.stage = "unsaved"
    <2>1. v = Unsaved(w, c.att, c.src)
        BY <1>2 DEF Answered
    <2>2. /\ w.db.mem[c.att][c.src].state \in Unresolved /\ IsStart(w.db, c.att, c.src)
          /\ ~Ran(turns, c.att, c.src)
        BY <1>1, <1>2 DEF CallKnows
    <2> QED
        BY <1>1, <2>1, <2>2, UnsavedGood
<1>3. CASE c.stage = "refused"
    <2>1. v = NotSteerable(w, c.att, c.src)
        BY <1>3 DEF Answered
    <2>2. ~IsStart(w.db, c.att, c.src) /\ ~Ran(turns, c.att, c.src)
        BY <1>1, <1>3 DEF CallKnows
    <2> QED
        BY <1>1, <2>1, <2>2, NotSteerableGood
<1>4. CASE c.stage = "error" \/ (c.stage = "ok" /\ c.stale)
    <2>1. v \in Uncertain(w, c.att, c.src)
        BY <1>1, <1>4 DEF Answered
    <2> QED
        BY <1>1, <2>1, UncertainGood
<1>5. CASE c.stage = "ok" /\ ~c.stale /\ c.kind = "start"
    <2>1. v = StartAnswered(w, c.att, c.src, c.turn, c.turn \in c.early, reported)
        BY <1>1, <1>5 DEF Answered
    <2>2. c.turn \in 1..Len(turns) /\ <<c.att, c.src>> \in turns[c.turn].inputs /\ (c.turn \in c.early) \in BOOLEAN
        BY <1>5 DEF CallKnows
    <2> QED
        BY <1>1, <2>1, <2>2, StartAnsweredGood
<1>6. CASE c.stage = "ok" /\ ~c.stale /\ c.kind = "steer"
    <2>1. v = SteerAnswered(w, c.att, c.src, c.turn)
        BY <1>1, <1>6 DEF Answered
    <2> QED
        BY <1>1, <2>1, SteerAnsweredGood
<1> QED
    BY <1>1, <1>2, <1>3, <1>4, <1>5, <1>6

-----------------------------------------------------------------------------
(* Reading the history back *)

LEMMA EndedGood ==
    ASSUME NEW w, Good(w), NEW a \in Attempts, NEW t \in 1..Len(turns)
    PROVE  Good(Ended(w, a, t))
<1> DEFINE w1 == DropCurrent(w, a)
           own == w.db.att[a].state = "active" /\ w.db.att[a].turn = t
           e == IF own THEN Terminalize(w1.db, a) ELSE w1.db
           x == [w1.d EXCEPT !.busy = FALSE, !.steerPause = NoAttempt]
<1>1. Good(w1)
    BY DropCurrentGood
<1>2. Ended(w, a, t) = Publish([w1 EXCEPT !.db = e, !.d = x], t)
    BY DEF Ended
<1> HIDE DEF w1
<1>3. Evolves(w1.db, e) /\ Alike(w1.db, e)
    BY <1>1, TerminalizeEvolves, EvolvesReflexive, TerminalizeAlike, AlikeReflexive DEF Good, OK, Worlds
<1>4. x \in OpenDispatchers
    BY <1>1 DEF Good, OK, Worlds, OpenDispatchers
<1> HIDE DEF e, x
<1>5. Good([w1 EXCEPT !.db = e, !.d = x])
    BY <1>1, <1>3, <1>4, AlikeGood
<1>6. t \in Turns
    BY TurnInThread DEF Good
<1> QED
    BY <1>2, <1>5, <1>6, PublishGood

LEMMA StartFoundGood ==
    ASSUME NEW w, Good(w), NEW a \in Attempts, NEW s \in Sources, NEW t \in 1..Len(turns),
           <<a, s>> \in turns[t].inputs
    PROVE  Good(StartFound(w, a, s, t))
<1> DEFINE ended == ShownEnded(t)
           e == ConfirmStart(w.db, a, s, t, ended)
           x == [w.d EXCEPT !.cur = IF ended THEN NoAttempt ELSE a, !.busy = ~ended]
           w1 == [w EXCEPT !.db = e, !.d = x]
<1>1. StartFound(w, a, s, t) \in {PauseIdentityConflict(w, a), Publish(Free(w1), t), w1}
    BY DEF StartFound
<1>2. ended \in BOOLEAN
    BY DEF ShownEnded
<1> HIDE DEF ended
<1>3. x \in OpenDispatchers
    BY <1>2 DEF Good, OK, Worlds, OpenDispatchers
<1> HIDE DEF x
<1>4. Good(w1)
    BY <1>2, <1>3, ConfirmStartGood
<1> HIDE DEF w1
<1> QED
    BY <1>1, <1>4, PublishFreeGood, PauseIdentityConflictGood

LEMMA SteerFoundGood ==
    ASSUME NEW w, Good(w), w.call.kind = "none", NEW a \in Attempts, NEW s \in Sources, NEW t \in 1..Len(turns)
    PROVE  Good(SteerFound(w, a, s, t))
<1> DEFINE w1 == [w EXCEPT !.db = ConfirmSteer(w.db, a, s, t)]
<1>1. Good(w1)
    BY ConfirmSteerGood
<1>2. SteerFound(w, a, s, t) \in {w, w1, Ended(w1, a, t)}
    BY DEF SteerFound
<1> HIDE DEF w1
<1> QED
    BY <1>1, <1>2, EndedGood

LEMMA StartAbsentGood ==
    ASSUME NEW w, Good(w), w.call.kind = "none", NEW a \in Attempts, NEW s \in Sources,
           w.db.mem[a][s].state \in Unresolved, IsStart(w.db, a, s), ~Ran(turns, a, s)
    PROVE  Good(StartAbsent(w, a, s))
<1> DEFINE e == FailUnstartedAttempt(RestorePending(w.db, a, s), a)
           w0 == [w EXCEPT !.db = e]
           w1 == DropCurrent(w0, a)
           x == [w1.d EXCEPT !.paused = TRUE, !.busy = FALSE]
<1>1. w.db \in Databases
    BY DEF Good, OK, Worlds
<1>2. Evolves(w.db, e)
    <2>1. Evolves(w.db, RestorePending(w.db, a, s)) /\ RestorePending(w.db, a, s) \in Databases
        BY <1>1, RestorePendingEvolves DEF Evolves
    <2> QED
        BY <2>1, FailUnstartedAttemptEvolves, EvolvesTransitive
<1>3. Fits(e, turns) /\ Later(w.db, e)
    BY <1>1, ThreadLength, StartBackKeeps DEF Good, Sound
<1>4. StartAbsent(w, a, s) = [w1 EXCEPT !.d = x]
    BY DEF StartAbsent
<1> HIDE DEF e
<1>5. Good(w0)
    BY <1>2, <1>3, DatabaseGood
<1> HIDE DEF w0
<1>6. Good(w1)
    BY <1>5, DropCurrentGood
<1> HIDE DEF w1
<1>7. x \in OpenDispatchers
    BY <1>6 DEF Good, OK, Worlds, OpenDispatchers
<1> HIDE DEF x
<1> QED
    BY <1>4, <1>6, <1>7, DispatcherGood

LEMMA SteerAbsentGood ==
    ASSUME NEW w, Good(w), w.call.kind = "none", NEW a \in Attempts, NEW s \in Sources,
           w.db.mem[a][s].state \in Unresolved, ~IsStart(w.db, a, s), ~Ran(turns, a, s),
           w.db.att[a].turn \in 1..Len(turns)
    PROVE  Good(SteerAbsent(w, a, s))
<1> DEFINE e == RestorePending(w.db, a, s)
           w1 == [w EXCEPT !.db = e]
           t == w.db.att[a].turn
<1>1. w.db \in Databases
    BY DEF Good, OK, Worlds
<1>2. Evolves(w.db, e) /\ Fits(e, turns) /\ Later(w.db, e)
    BY <1>1, ThreadLength, RestorePendingEvolves, SteerBackKeeps DEF Good, Sound
<1>3. SteerAbsent(w, a, s) = Ended(w1, a, t)
    BY DEF SteerAbsent
<1> HIDE DEF e
<1>4. Good(w1)
    BY <1>2, DatabaseGood
<1>5. t \in 1..Len(turns)
    OBVIOUS
<1> HIDE DEF w1, t
<1> QED
    BY <1>3, <1>4, <1>5, EndedGood

\* The full history shows every turn: an input that it does not show has not run.
LEMMA AbsenceProven ==
    ASSUME NEW w, Good(w), NEW view, NEW a \in Attempts, NEW s \in Sources,
           Positive(w.db, view, a, s) = {}, ProvenAbsent(w.db, view, a, s)
    PROVE  ~Ran(turns, a, s)
<1>1. view = "full" /\ Listed(view) = 1..Len(turns)
    BY DEF ProvenAbsent, Listed
<1>2. SUFFICES ASSUME NEW t \in 1..Len(turns), <<a, s>> \in turns[t].inputs PROVE FALSE
    BY DEF Ran
<1>3. Shows(view, t, <<a, s>>)
    BY <1>1, <1>2 DEF Shows
<1>4. ~IsStart(w.db, a, s) => w.db.att[a].turn = t
    BY <1>2, RanIsMember DEF Good, Sound, Fits
<1> QED
    BY <1>1, <1>3, <1>4 DEF Positive

LEMMA ReconcileSubmissionGood ==
    ASSUME NEW w, Good(w), w.call.kind = "none", NEW view, NEW a \in Attempts, NEW s \in Sources
    PROVE  Good(ReconcileSubmission(w, view, a, s))
<1> DEFINE found == Positive(w.db, view, a, s)
           t == CHOOSE x \in found : \A y \in found : y <= x
<1>1. found \subseteq 1..Len(turns) /\ \A x \in found : <<a, s>> \in turns[x].inputs
    BY DEF Positive, Listed, Shows
<1>2. ASSUME found # {} PROVE t \in 1..Len(turns) /\ <<a, s>> \in turns[t].inputs
    <2>1. found \in SUBSET (0..Len(turns)) /\ Len(turns) \in Nat
        BY <1>1, ThreadLength DEF Good
    <2> HIDE DEF found
    <2>2. \E x \in found : \A y \in found : y <= x
        BY <1>2, <2>1, GreatestExists
    <2>3. t \in found
        BY <2>2
    <2> QED
        BY <1>1, <2>3
<1>3. \/ ReconcileSubmission(w, view, a, s) = w
      \/ /\ found # {}
         /\ ReconcileSubmission(w, view, a, s) \in {StartFound(w, a, s, t), SteerFound(w, a, s, t)}
      \/ /\ found = {} /\ ProvenAbsent(w.db, view, a, s) /\ w.db.mem[a][s].state \in Unresolved
         /\ IsStart(w.db, a, s) /\ ReconcileSubmission(w, view, a, s) = StartAbsent(w, a, s)
      \/ /\ found = {} /\ ProvenAbsent(w.db, view, a, s) /\ w.db.mem[a][s].state \in Unresolved
         /\ ~IsStart(w.db, a, s) /\ ReconcileSubmission(w, view, a, s) = SteerAbsent(w, a, s)
         /\ w.db.att[a].turn \in 1..Len(turns)
    BY DEF ReconcileSubmission, ProvenAbsent, Listed
<1>4. ASSUME found = {}, ProvenAbsent(w.db, view, a, s) PROVE ~Ran(turns, a, s)
    BY <1>4, AbsenceProven
<1> HIDE DEF t, found
<1> QED
    BY <1>2, <1>3, <1>4, StartFoundGood, SteerFoundGood, StartAbsentGood, SteerAbsentGood

-----------------------------------------------------------------------------
(* Recovery begins; the connection is lost *)

LEMMA RecoverGood == ASSUME NEW w, Good(w) PROVE Good(Recover(w))
<1> DEFINE x == [w.d EXCEPT !.published = {}, !.ready = FALSE, !.timer = FALSE]
           w1 == [w EXCEPT !.d = x]
           w2 == [w1 EXCEPT !.d = [w1.d EXCEPT !.timer = TRUE]]
           w3 == [w1 EXCEPT !.d = [w1.d EXCEPT !.paused = FALSE]]
<1>1. \/ Recover(w) = w2
      \/ w.call.kind = "none" /\ Recover(w) = LaunchRead(w3, "recover", NoAttempt, NoSource)
    BY DEF Recover
<1>2. x \in OpenDispatchers
    BY DEF Good, OK, Worlds, OpenDispatchers
<1> HIDE DEF x
<1>3. Good(w1) /\ w1.call = w.call
    BY <1>2, DispatcherGood DEF Good, OK, Worlds
<1> HIDE DEF w1
<1>4. /\ [w1.d EXCEPT !.timer = TRUE] \in OpenDispatchers
      /\ [w1.d EXCEPT !.paused = FALSE] \in OpenDispatchers
    BY <1>3 DEF Good, OK, Worlds, OpenDispatchers
<1>5. Good(w2) /\ Good(w3)
    BY <1>3, <1>4, DispatcherGood
<1>6. w3.call = w.call
    BY <1>3 DEF Good, OK, Worlds
<1> HIDE DEF w2, w3
<1>7. OK(LaunchRead(w3, "recover", NoAttempt, NoSource))
    BY <1>5, LaunchReadHandles DEF Handles, Good
<1> QED
    BY <1>1, <1>5, <1>6, <1>7, LaunchReadGood

LEMMA UnavailableGood == ASSUME NEW w, Good(w) PROVE Good(Unavailable(w))
<1> DEFINE n == NewGeneration(w)
           c == IF n.call.kind = "none" THEN n.call ELSE [n.call EXCEPT !.stale = TRUE]
           x == [n.d EXCEPT !.timer = FALSE, !.ready = FALSE, !.busy = TRUE,
                            !.cur = NoAttempt, !.steerPause = NoAttempt]
           v == [n EXCEPT !.call = c, !.d = x]
<1>1. Good(n)
    BY NewGenerationGood
<1>2. OK(v)
    <2>1. v = Unavailable(w)
        BY DEF Unavailable
    <2> QED
        BY <2>1, UnavailableHandles DEF Handles, Good
<1>3. Unavailable(w) = v
    BY DEF Unavailable
<1> HIDE DEF n
<1>4. /\ c.kind = n.call.kind /\ c.stage = n.call.stage
      /\ c.att = n.call.att /\ c.src = n.call.src /\ c.turn = n.call.turn
    BY <1>1 DEF Good, OK, Worlds, Calls
<1> HIDE DEF c, x
<1>5. v.db = n.db /\ v.call = c /\ v.read = n.read /\ v.settle = n.settle
    BY <1>1 DEF Good, OK, Worlds
<1> HIDE DEF v
<1>6. CallKnows(v.db, v.call, turns) /\ ReadWaits(v.call, v.read) /\ Calm(v.read)
    BY <1>1, <1>4, <1>5 DEF Good, Sound, CallKnows, ReadWaits
<1>7. Good(v)
    BY <1>1, <1>2, <1>5, <1>6, GoodStep, LaterReflexive DEF Good, Sound
<1> QED
    BY <1>3, <1>7

-----------------------------------------------------------------------------
(* Every step keeps the invariant *)

LEMMA WorldGood ==
    ASSUME IInv, SInv, read.stage # "attempts"
    PROVE  /\ Good(World)
           /\ World.db = db /\ World.d = disp /\ World.call = call /\ World.read = read
           /\ World.settle = settle /\ World.used = used
    BY WorldOK, TurnsBounded DEF SInv, RoundsFit, Good, Calm, Thread, World

LEMMA SCarry ==
    ASSUME SInv, NEW v, Good(v), Becomes(v), UNCHANGED <<turns, notes>>
    PROVE  SInv'
<1>1. NotesFit'
    BY DEF NotesFit, SInv
<1>2. /\ db' = v.db /\ call' = v.call /\ read' = v.read /\ settle' = v.settle /\ turns' = turns
    BY DEF Becomes
<1>3. Sound(World)'
    BY <1>2 DEF Good, Sound, World
<1>4. RoundsFit'
    BY <1>2 DEF Good, RoundsFit, Calm
<1> QED
    BY <1>1, <1>3, <1>4 DEF SInv

LEMMA AcceptGood ==
    ASSUME IInv, SInv, NEW s \in Sources, NEW c \in Conversations, Accept(s, c)
    PROVE  Good([World EXCEPT !.db = AcceptChatSource(db, s, c, disp.cur), !.d = [disp EXCEPT !.paused = FALSE]])
<1> DEFINE e == AcceptChatSource(db, s, c, disp.cur)
           x == [disp EXCEPT !.paused = FALSE]
           w == [World EXCEPT !.db = e, !.d = x]
<1>2. UNCHANGED <<turns, notes>> /\ read.stage # "attempts"
    BY DEF Accept, Serial, Between
<1>3. s \in NextSource(db) \/ db.src[s].state # "absent"
    BY DEF Accept
<1>4. Good(World) /\ World.db = db /\ db \in Databases
    BY <1>2, WorldGood DEF Good, OK, Worlds
<1>5. Evolves(World.db, e)
    BY <1>4, AcceptChatSourceEvolves DEF IInv, TypeOK
<1>6. Fits(e, turns) /\ Later(db, e) /\ Stays(db, e, turns)
    <2> DEFINE i == IF db.src[s].state = "absent" THEN InsertSource(db, s, c) ELSE db
    <2>1. Len(turns) \in Nat /\ Fits(db, turns)
        BY <1>4, ThreadLength DEF Good, Sound
    <2>2. i \in Databases
        BY <1>3, <1>4, InsertSourceEvolves DEF Evolves
    <2>3. Fits(i, turns) /\ Later(db, i) /\ Stays(db, i, turns)
        <3>1. CASE db.src[s].state = "absent"
            <4>1. Fits(InsertSource(db, s, c), turns) /\ Later(db, InsertSource(db, s, c))
                  /\ Stays(db, InsertSource(db, s, c), turns)
                BY <1>4, <2>1, <3>1, InsertSourceKeeps
            <4> QED
                BY <3>1, <4>1
        <3>2. CASE db.src[s].state # "absent"
            <4>1. Later(db, db) /\ Stays(db, db, turns)
                BY <1>4, <2>1, AlikeReflexive, AlikeKeeps
            <4> QED
                BY <2>1, <3>2, <4>1
        <3> QED
            BY <3>1, <3>2
    <2>4. Evolves(i, e) /\ Alike(i, e)
        <3>1. e = IF Queued(i, s, disp.cur) THEN QueueNotices(i, {s}) ELSE i
            BY DEF AcceptChatSource
        <3> HIDE DEF i, e
        <3>2. Evolves(i, QueueNotices(i, {s})) /\ Alike(i, QueueNotices(i, {s})) /\ Evolves(i, i) /\ Alike(i, i)
            BY <2>2, QueueNoticesEvolves, QueueNoticesAlike, EvolvesReflexive, AlikeReflexive
        <3> QED
            BY <3>1, <3>2
    <2> HIDE DEF i, e
    <2>5. e \in Databases
        BY <2>4 DEF Evolves
    <2>6. Fits(e, turns) /\ Later(i, e) /\ Stays(i, e, turns)
        BY <2>1, <2>2, <2>3, <2>4, <2>5, AlikeKeeps
    <2> QED
        BY <2>3, <2>6, LaterTransitive DEF Stays
<1>7. x \in OpenDispatchers
    BY WorldOK DEF OK, Worlds, OpenDispatchers
<1> HIDE DEF e, x
<1>8. Good(w)
    BY <1>4, <1>5, <1>6, <1>7, QuietGood
<1> QED
    BY <1>8 DEF e, x

LEMMA AcceptSafe ==
    ASSUME IInv, SInv, NEW s \in Sources, NEW c \in Conversations, Accept(s, c) PROVE SInv'
<1> DEFINE w == [World EXCEPT !.db = AcceptChatSource(db, s, c, disp.cur), !.d = [disp EXCEPT !.paused = FALSE]]
<1>1. PICK v \in Pump(w) : Becomes(v)
    BY DEF Accept, World
<1>2. UNCHANGED <<turns, notes>>
    BY DEF Accept
<1>3. Good(w)
    BY AcceptGood
<1> HIDE DEF w
<1>4. Good(v)
    BY <1>1, <1>3, PumpGood
<1> QED
    BY <1>1, <1>2, <1>4, SCarry

\* A handler that changes the dispatcher's fields and pumps.
LEMMA PumpedSafe ==
    ASSUME IInv, SInv, read.stage # "attempts", UNCHANGED <<turns, notes>>,
           NEW x \in OpenDispatchers, NEW v \in Pump([World EXCEPT !.d = x]), Becomes(v)
    PROVE  SInv'
    BY WorldGood, DispatcherGood, PumpGood, SCarry

LEMMA EnqueueInternalSafe == ASSUME IInv, SInv, EnqueueInternal PROVE SInv'
<1> DEFINE x == [disp EXCEPT !.paused = FALSE]
<1>1. PICK v \in Pump([World EXCEPT !.d = x]) : Becomes(v)
    BY DEF EnqueueInternal, World
<1>2. UNCHANGED <<turns, notes>> /\ read.stage # "attempts"
    BY DEF EnqueueInternal, Serial, Between
<1>3. x \in OpenDispatchers
    BY WorldOK DEF OK, Worlds, OpenDispatchers
<1> QED
    BY <1>1, <1>2, <1>3, PumpedSafe

LEMMA PostedPumpSafe == ASSUME IInv, SInv, PostedPump PROVE SInv'
<1> DEFINE x == [disp EXCEPT !.wake = FALSE]
<1>1. PICK v \in Pump([World EXCEPT !.d = x]) : Becomes(v)
    BY DEF PostedPump, World
<1>2. UNCHANGED <<turns, notes>> /\ read.stage # "attempts"
    BY DEF PostedPump, Serial, Between
<1>3. x \in OpenDispatchers
    BY WorldOK DEF OK, Worlds, OpenDispatchers
<1> QED
    BY <1>1, <1>2, <1>3, PumpedSafe

LEMMA AdmissionRetrySafe == ASSUME IInv, SInv, AdmissionRetry PROVE SInv'
<1> DEFINE x == [disp EXCEPT !.admission = "none"]
<1>1. PICK v \in Pump([World EXCEPT !.d = x]) : Becomes(v)
    BY DEF AdmissionRetry, World
<1>2. UNCHANGED <<turns, notes>> /\ read.stage # "attempts"
    BY DEF AdmissionRetry, Serial, Between
<1>3. x \in OpenDispatchers
    BY WorldOK DEF OK, Worlds, OpenDispatchers
<1> QED
    BY <1>1, <1>2, <1>3, PumpedSafe

\* A world that differs from the present one in fields the invariant leaves open.
LEMMA ShiftSafe ==
    ASSUME IInv, SInv, read.stage # "attempts", UNCHANGED <<turns, notes>>,
           NEW x \in OpenDispatchers, NEW u \in Budgets,
           Becomes(Settled([World EXCEPT !.d = x, !.used = u]))
    PROVE  SInv'
<1> DEFINE f == [World EXCEPT !.d = x, !.used = u]
<1>1. Good(World) /\ World.db = db
    BY WorldGood
<1>2. f \in Worlds /\ f.db = World.db /\ f.call = World.call /\ f.read = World.read /\ f.settle = World.settle
    BY <1>1 DEF Good, OK, Worlds
<1> HIDE DEF f
<1>3. OK(f)
    BY <1>1, <1>2 DEF Good, OK
<1>4. Good(Settled(f))
    BY <1>1, <1>2, <1>3, GoodShift, SettledGood
<1> QED
    BY <1>4, SCarry DEF f

LEMMA DispatcherSafe ==
    ASSUME IInv, SInv, read.stage # "attempts", UNCHANGED <<turns, notes>>,
           NEW x \in OpenDispatchers, Becomes(Settled([World EXCEPT !.d = x]))
    PROVE  SInv'
    BY WorldGood, DispatcherGood, SettledGood, SCarry

LEMMA AdmissionAnsweredSafe == ASSUME IInv, SInv, AdmissionAnswered PROVE SInv'
<1> DEFINE x == [disp EXCEPT !.admission = "granted"]
           y == [disp EXCEPT !.admission = "waiting"]
           u == [used EXCEPT !.errors = used.errors + 1]
<1>1. \/ Becomes(Settled([World EXCEPT !.d = x]))
      \/ used.errors < MaxErrors /\ Becomes(Settled([World EXCEPT !.d = y, !.used = u]))
    BY DEF AdmissionAnswered, World
<1>2. UNCHANGED <<turns, notes>> /\ read.stage # "attempts"
    BY DEF AdmissionAnswered, Serial, Between
<1>3. x \in OpenDispatchers /\ y \in OpenDispatchers
    BY WorldOK DEF OK, Worlds, OpenDispatchers
<1>4. used.errors < MaxErrors => u \in Budgets
    BY SMTT(60), RunBoundsAssumption DEF IInv, TypeOK, Budgets
<1> HIDE DEF x, y, u
<1> QED
    BY <1>1, <1>2, <1>3, <1>4, ShiftSafe, DispatcherSafe

LEMMA RecoveryTimerSafe == ASSUME IInv, SInv, RecoveryTimer PROVE SInv'
<1>1. /\ Becomes(Recover(World)) /\ UNCHANGED <<turns, notes>> /\ read.stage # "attempts"
    BY DEF RecoveryTimer, Serial, Between
<1> QED
    BY <1>1, WorldGood, RecoverGood, SCarry

LEMMA SubmissionAnsweredSafe == ASSUME IInv, SInv, SubmissionAnswered PROVE SInv'
<1> DEFINE w == [World EXCEPT !.call = NoCall]
<1>0. PICK reported \in BOOLEAN : \E v \in Answered(w, call, reported) : Becomes(Settled(v))
    BY DEF SubmissionAnswered
<1>1. PICK v \in Answered(w, call, reported) : Becomes(Settled(v))
    BY <1>0
<1>2. /\ UNCHANGED <<turns, notes>> /\ read.stage # "attempts"
      /\ call.stage \in {"ok", "refused", "unsaved", "error"}
    BY DEF SubmissionAnswered, Serial, Between
<1>3. Good(w) /\ w.call.kind = "none" /\ w.db = db
    BY <1>2, WorldGood, CallOverGood DEF World
<1>4. call \in Calls /\ CallFits(w.db, call) /\ CallKnows(w.db, call, turns)
    BY <1>3 DEF IInv, TypeOK, SInv, Sound, World
<1> HIDE DEF w
<1>5. Good(v)
    BY <1>1, <1>2, <1>3, <1>4, AnsweredGood
<1> QED
    BY <1>1, <1>2, <1>5, SettledGood, SCarry

LEMMA StaleReadReturnsSafe == ASSUME IInv, SInv, StaleReadReturns PROVE SInv'
<1> DEFINE x == [disp EXCEPT !.stale = disp.stale - 1]
<1>1. Becomes(Settled([World EXCEPT !.d = x])) /\ disp.stale > 0
    BY DEF StaleReadReturns, World
<1>2. UNCHANGED <<turns, notes>> /\ read.stage # "attempts"
    BY DEF StaleReadReturns, Serial, Between
<1>3. x \in OpenDispatchers
    BY <1>1, WorldOK DEF OK, Worlds, OpenDispatchers
<1> HIDE DEF x
<1> QED
    BY <1>1, <1>2, <1>3, DispatcherSafe

-----------------------------------------------------------------------------
(* History reads *)

\* A read that the world now has under way, or none.
LEMMA ConsumeGood ==
    ASSUME IInv, SInv, read.stage # "attempts", call.kind = "none",
           NEW view \in Views, Viewed(view), NEW r \in Reads, ReadFits(r),
           Calm(r), r.kind = "none" => r.stage = "none"
    PROVE  /\ Good([Consume(World, view) EXCEPT !.read = r])
           /\ [Consume(World, view) EXCEPT !.read = r].call = call
           /\ [Consume(World, view) EXCEPT !.read = r].read = r
<1> DEFINE v == [Consume(World, view) EXCEPT !.read = r]
<1>1. OK(v)
    BY ConsumeHandles DEF Handles
<1>2. Good(World) /\ World.db = db /\ World.call = call /\ World.settle = settle
    BY WorldGood
<1>3. v.db = db /\ v.call = call /\ v.read = r /\ v.settle = settle
    BY DEF Consume, World
<1> HIDE DEF v
<1>4. CallKnows(v.db, v.call, turns) /\ ReadWaits(v.call, v.read) /\ Calm(v.read)
    BY <1>3 DEF CallKnows, ReadWaits
<1>5. Fits(v.db, turns) /\ Later(World.db, v.db)
    BY <1>2, <1>3, LaterReflexive DEF Good, Sound
<1> HIDE DEF Calm
<1>6. Good(v)
    BY <1>1, <1>2, <1>3, <1>4, <1>5, GoodStep
<1> QED
    BY <1>3, <1>6 DEF v

LEMMA NoCallWhileReading ==
    ASSUME SInv, read.kind # "none" PROVE call.kind = "none"
    BY DEF SInv, Sound, World, ReadWaits

LEMMA FailureReadReturnsSafe ==
    ASSUME IInv, SInv, NEW view \in Views, FailureReadReturns(view) PROVE SInv'
<1> DEFINE a == read.att
           s == read.src
           w == [Consume(World, view) EXCEPT !.read = NoRead]
           r == IF view = "failed" THEN w ELSE ReconcileSubmission(w, view, a, s)
           x == [r.d EXCEPT !.timer = TRUE]
           y == [r EXCEPT !.d = x]
<1>1. /\ UNCHANGED <<turns, notes>> /\ Viewed(view) /\ read.kind = "failure" /\ read.stage # "attempts"
      /\ Becomes(Settled(y)) \/ Becomes(Settled(r))
    BY DEF FailureReadReturns, Serial, Between
<1>2. a \in Attempts /\ s \in Sources /\ call.kind = "none"
    BY <1>1, NoCallWhileReading DEF IInv, ReadFits
<1>3. Good(w) /\ w.call.kind = "none"
    <2>1. Calm(NoRead) /\ (NoRead.kind = "none" => NoRead.stage = "none")
        BY DEF Calm, NoRead
    <2> QED
        BY <1>1, <1>2, <2>1, ConsumeGood, NoReadFits
<1> HIDE DEF w, a, s
<1>4. Good(r)
    BY <1>2, <1>3, ReconcileSubmissionGood
<1> HIDE DEF r
<1>5. x \in OpenDispatchers
    BY <1>4 DEF Good, OK, Worlds, OpenDispatchers
<1> HIDE DEF x
<1>6. Good(y)
    BY <1>4, <1>5, DispatcherGood
<1> HIDE DEF y
<1> QED
    BY <1>1, <1>4, <1>6, SettledGood, SCarry

LEMMA RecoveryReadReturnsSafe ==
    ASSUME IInv, SInv, NEW view \in Views, RecoveryReadReturns(view) PROVE SInv'
<1> DEFINE r == [read EXCEPT !.stage = "members", !.view = view,
                             !.members = UnresolvedSubmissions(db)]
           w == [Consume(World, view) EXCEPT !.read = r]
           own == {a \in Attempts : \E t \in ActiveTurn \cap Listed(view) :
                     a \in AttemptForTurn(db, t) /\ db.att[a].accepting}
           cur == IF own = {} THEN NoAttempt ELSE CHOOSE a \in own : TRUE
           x == [w.d EXCEPT !.ready = TRUE, !.busy = ActiveTurn # {}, !.cur = cur,
                            !.steerPause = IF cur = NoAttempt THEN NoAttempt ELSE disp.steerPause]
           v == [w EXCEPT !.db = FailOrphanedUnstartedAttempts(w.db), !.d = x]
<1>1. Consume(World, view).read = read
    BY DEF Consume, World
<1>2. /\ UNCHANGED <<turns, notes>> /\ Viewed(view) /\ read.kind = "recover" /\ read.stage # "attempts"
      /\ Becomes(w) \/ Becomes(v)
    BY <1>1 DEF RecoveryReadReturns, Serial, Between
<1>3. call.kind = "none"
    BY <1>2, NoCallWhileReading
<1>4. r \in Reads /\ ReadFits(r) /\ Calm(r) /\ (r.kind = "none" => r.stage = "none")
    <2>1. UnresolvedSubmissions(db) \subseteq Submissions /\ read \in Reads
        BY DEF UnresolvedSubmissions, Submissions, IInv, TypeOK
    <2>2. read.attempts = {}
        BY <1>2 DEF SInv, RoundsFit
    <2> QED
        BY <1>2, <2>1, <2>2 DEF Reads, ReadFits, Views, Calm
<1> HIDE DEF r
<1>5. Good(w) /\ w.call.kind = "none"
    BY <1>2, <1>3, <1>4, ConsumeGood
<1> HIDE DEF w
<1>6. cur \in {NoAttempt} \cup Attempts /\ (ActiveTurn # {}) \in BOOLEAN
    OBVIOUS
<1> HIDE DEF cur
<1>7. x \in OpenDispatchers
    <2>1. disp.steerPause \in {NoAttempt} \cup Attempts
        BY DEF IInv, TypeOK, Dispatchers
    <2> QED
        BY <1>5, <1>6, <2>1 DEF Good, OK, Worlds, OpenDispatchers
<1> HIDE DEF x
<1> DEFINE e == FailOrphanedUnstartedAttempts(w.db)
<1>8. Evolves(w.db, e) /\ Fits(e, turns) /\ Later(w.db, e)
    <2>1. w.db \in Databases /\ Fits(w.db, turns) /\ Len(turns) \in Nat
        BY <1>5, ThreadLength DEF Good, OK, Worlds, Sound
    <2> QED
        BY <2>1, FailOrphanedUnstartedAttemptsEvolves, FailOrphanedKeeps
<1> HIDE DEF e
<1>9. Good([w EXCEPT !.db = e, !.d = x])
    BY <1>5, <1>7, <1>8, QuietGood
<1>10. Good(v)
    BY <1>9 DEF e
<1> HIDE DEF v
<1> QED
    BY <1>2, <1>5, <1>10, SCarry

\* The submission a round of the first recovery loop is about.
LEMMA MemberRoundType ==
    ASSUME IInv, read.members # {}
    PROVE  LET a == Least({m[1] : m \in read.members})
               s == Least({m[2] : m \in {x \in read.members : x[1] = a}})
           IN  a \in Attempts /\ s \in Sources
<1> DEFINE a == Least({m[1] : m \in read.members})
           s == Least({m[2] : m \in {x \in read.members : x[1] = a}})
<1>1. read.members \subseteq Submissions
    BY DEF IInv, TypeOK, Reads
<1>2. {m[1] : m \in read.members} \in SUBSET Nat /\ {m[1] : m \in read.members} # {}
    <2>1. \A m \in read.members : m[1] \in Nat
        BY <1>1 DEF Submissions, Attempts
    <2> QED
        BY <2>1
<1>3. a \in {m[1] : m \in read.members}
    BY <1>2, LeastInSet
<1> HIDE DEF a
<1> DEFINE S == {m[2] : m \in {x \in read.members : x[1] = a}}
<1>4. S \in SUBSET Sources /\ S # {}
    BY <1>1, <1>3 DEF Submissions
<1>5. S \in SUBSET Nat
    BY <1>4 DEF Sources
<1>6. s \in S
    BY <1>4, <1>5, LeastInSet
<1>7. a \in Attempts /\ s \in Sources
    BY <1>1, <1>3, <1>4, <1>6 DEF Submissions
<1> QED
    BY <1>7 DEF a

-----------------------------------------------------------------------------
(* The rounds of recovery *)

\* A round keeps the database fit and the read calm.
LEMMA RoundGood ==
    ASSUME NEW w, Good(w), w.call.kind = "none", NEW e, Evolves(w.db, e), Fits(e, turns), Later(w.db, e),
           NEW r \in Reads, ReadFits(r), Calm(r), r.kind = "none" => r.stage = "none"
    PROVE  Good([w EXCEPT !.db = e, !.read = r])
<1> DEFINE v == [w EXCEPT !.db = e, !.read = r]
<1>1. OK(v)
    BY RecoveryStep DEF Handles, Good
<1>2. v.db = e /\ v.call = w.call /\ v.read = r /\ v.settle = w.settle
    BY DEF Good, OK, Worlds
<1> HIDE DEF v, Calm
<1>3. CallKnows(v.db, v.call, turns) /\ ReadWaits(v.call, v.read)
    BY <1>2 DEF CallKnows, ReadWaits
<1>4. Good(v)
    BY <1>1, <1>2, <1>3, GoodStep
<1> QED
    BY <1>4 DEF v

LEMMA RecoverMemberSafe ==
    ASSUME IInv, SInv, NEW d \in Decisions, RecoverMember(d) PROVE SInv'
<1> DEFINE a == Least({m[1] : m \in read.members})
           s == Least({m[2] : m \in {x \in read.members : x[1] = a}})
           r == [read EXCEPT !.members = read.members \ {<<a, s>>}]
           e == MarkUncertainIfUnresolved(db, a, s)
           w == [World EXCEPT !.db = MarkUncertainIfUnresolved(World.db, a, s),
                              !.read.members = World.read.members \ {<<a, s>>}]
           decided == [w EXCEPT !.db = BeginReconciliation(w.db, a, s, d)]
           reconciled == IF read.view = "failed" THEN decided
                         ELSE ReconcileSubmission(decided, read.view, a, s)
           again(v) == IF v.db.mem[a][s].state \in Unresolved THEN [v EXCEPT !.read.retry = TRUE] ELSE v
<1>2. /\ UNCHANGED <<turns, notes>> /\ read.stage = "members" /\ read.members # {}
      /\ \/ Becomes(w)
         \/ /\ d \in ReconcileDecisions(w.db, a, s) /\ w.db.mem[a][s].state = "uncertain"
            /\ \/ d = "needs_attention" /\ Becomes(DropCurrent(decided, a))
               \/ d = "wait" /\ Becomes(again(decided))
               \/ d = "ready" /\ Becomes(again(reconciled))
    BY DEF RecoverMember, Decisions
<1>3. a \in Attempts /\ s \in Sources
    BY <1>2, MemberRoundType
<1> HIDE DEF a, s
<1>4. Good(World) /\ World.db = db /\ World.call = call /\ World.read = read /\ call.kind = "none"
    <2>1. read.kind # "none"
        BY <1>2 DEF SInv, Sound, World, ReadWaits
    <2> QED
        BY <1>2, <2>1, WorldGood, NoCallWhileReading
<1>5. r \in Reads /\ ReadFits(r) /\ Calm(r) /\ (r.kind = "none" => r.stage = "none")
    BY <1>2, <1>3 DEF IInv, TypeOK, Reads, ReadFits, SInv, RoundsFit, Calm, Sound, World, ReadWaits
<1>6. Good(w) /\ w.call.kind = "none"
    <2>1. Evolves(db, e)
        BY <1>3, MarkUncertainIfUnresolvedEvolves DEF IInv, TypeOK
    <2>2. e \in Databases /\ db \in Databases
        BY <2>1 DEF Evolves, IInv, TypeOK
    <2>3. Fits(db, turns) /\ Len(turns) \in Nat /\ Alike(db, e)
        BY <1>3, <1>4, <2>2, ThreadLength, MarkUncertainIfUnresolvedAlike DEF Good, Sound
    <2> HIDE DEF e
    <2>4. Fits(e, turns) /\ Later(db, e)
        BY <2>2, <2>3, AlikeKeeps
    <2>5. w = [World EXCEPT !.db = e, !.read = r]
        BY WorldOK DEF e
    <2> HIDE DEF w, r
    <2>6. Good([World EXCEPT !.db = e, !.read = r])
        BY <1>4, <1>5, <2>1, <2>4, RoundGood
    <2>7. [World EXCEPT !.db = e, !.read = r].call = World.call
        BY DEF World
    <2> QED
        BY <1>4, <2>5, <2>6, <2>7
<1> HIDE DEF w
<1>7. ASSUME d \in ReconcileDecisions(w.db, a, s), w.db.mem[a][s].state = "uncertain"
      PROVE  Good(decided) /\ decided.call.kind = "none"
    <2> DEFINE f == BeginReconciliation(w.db, a, s, d)
    <2>1. w.db \in Databases /\ Fits(w.db, turns) /\ Len(turns) \in Nat
        BY <1>6, ThreadLength DEF Good, Sound, OK, Worlds
    <2>2. Evolves(w.db, f)
        BY <1>3, <1>7, <2>1, BeginReconciliationEvolves
    <2>3. w.db.mem[a][s].state \in Unresolved
        BY <1>7 DEF Unresolved
    <2>4. Fits(f, turns) /\ Later(w.db, f)
        BY <1>3, <1>7, <2>1, <2>3, BeginReconciliationKeeps
    <2> HIDE DEF f
    <2>5. Good([w EXCEPT !.db = f])
        BY <1>6, <2>2, <2>4, DatabaseGood
    <2>6. [w EXCEPT !.db = f].call = w.call
        BY <1>6 DEF Good, OK, Worlds
    <2> QED
        BY <1>6, <2>5, <2>6 DEF f
<1> HIDE DEF decided
<1>8. ASSUME Good(decided), decided.call.kind = "none"
      PROVE  Good(reconciled) /\ Good(DropCurrent(decided, a))
    BY <1>3, <1>8, ReconcileSubmissionGood, DropCurrentGood
<1> HIDE DEF reconciled
<1>9. ASSUME NEW v, Good(v) PROVE Good(again(v))
    <2> DEFINE q == [v.read EXCEPT !.retry = TRUE]
               y == [v EXCEPT !.read = q]
    <2>1. OK(v) /\ v \in Worlds
        BY <1>9 DEF Good, OK
    <2>2. q \in Reads /\ ReadFits(q)
        BY <2>1 DEF OK, Worlds, Reads, ReadFits
    <2>3. q.kind = v.read.kind /\ q.stage = v.read.stage /\ q.attempts = v.read.attempts
        BY <2>1 DEF Worlds, Reads
    <2> HIDE DEF q
    <2>4. y \in Worlds /\ y.db = v.db /\ y.call = v.call /\ y.read = q /\ y.settle = v.settle
        BY <2>1, <2>2 DEF Worlds
    <2> HIDE DEF y
    <2>5. OK(y)
        BY <2>1, <2>2, <2>4 DEF OK
    <2>6. ReadWaits(y.call, y.read) /\ Calm(y.read) /\ CallKnows(y.db, y.call, turns)
          /\ Fits(y.db, turns) /\ Later(v.db, y.db)
        BY <1>9, <2>3, <2>4, LaterReflexive DEF Good, Sound, ReadWaits, Calm
    <2>7. Good(y)
        BY <1>9, <2>4, <2>5, <2>6, GoodStep
    <2>8. [v EXCEPT !.read.retry = TRUE] = y
        BY DEF y, q
    <2> QED
        BY <1>9, <2>7, <2>8
<1> HIDE DEF again
<1> QED
    BY <1>2, <1>6, <1>7, <1>8, <1>9, SCarry

LEMMA RecoverMembersDoneSafe == ASSUME IInv, SInv, RecoverMembersDone PROVE SInv'
<1>1. /\ read.stage = "members" /\ UNCHANGED <<turns, notes>>
      /\ db' = db /\ call' = call /\ settle' = settle
      /\ read' = [read EXCEPT !.stage = "attempts", !.attempts = Terminalizing(db)]
    BY DEF RecoverMembersDone, World, Becomes
<1>2. read.kind # "none"
    BY <1>1 DEF SInv, Sound, World, ReadWaits
<1>3. read'.kind = read.kind /\ read'.stage = "attempts" /\ read'.attempts = Terminalizing(db)
    BY <1>1 DEF IInv, TypeOK, Reads
<1>4. Sound(World)'
    BY <1>1, <1>2, <1>3 DEF SInv, Sound, World, ReadWaits
<1>5. RoundsFit' /\ NotesFit'
    BY <1>1, <1>3 DEF RoundsFit, NotesFit, SInv
<1> QED
    BY <1>4, <1>5 DEF SInv

\* While the rounds over the attempts run, no submission is in flight.
LEMMA RoundsFacts ==
    ASSUME IInv, SInv, read.stage = "attempts"
    PROVE  /\ Fits(db, turns) /\ db \in Databases /\ Len(turns) \in Nat /\ call.kind = "none"
           /\ read.kind # "none" /\ SettleKnows(db, settle, turns)
<1>1. Len(turns) \in Nat
    BY TurnsBounded
<1> QED
    BY <1>1 DEF SInv, Sound, World, ReadWaits, IInv, TypeOK

\* A round leaves the other attempts of the recovery as they are.
LEMMA OtherAttemptsStay ==
    ASSUME NEW d \in Databases, NEW a \in Attempts, NEW decision, NEW b \in Attempts \ {a}
    PROVE  BeginTerminalReconciliation(d, a, decision).att[b] = d.att[b]
<1>1. MarkTerminalNeedsAttention(d, a).att[b] = d.att[b]
    BY DEF MarkTerminalNeedsAttention, CompleteSources, MoveMembers, Databases
<1>2. [d EXCEPT !.att[a].tries = @ + 1].att[b] = d.att[b]
    BY DEF Databases
<1> QED
    BY <1>1, <1>2 DEF BeginTerminalReconciliation

LEMMA RecoverAttemptSafe ==
    ASSUME IInv, SInv, NEW d \in Decisions, RecoverAttempt(d)
    PROVE  SInv' /\ \E a \in Attempts : /\ IsActive(db, a) /\ db.att[a].turn # NoTurn
                                        /\ d \in TerminalDecisions(db, a)
                                        /\ db' = BeginTerminalReconciliation(db, a, d)
<1> DEFINE a == Least(read.attempts)
           r == [read EXCEPT !.attempts = read.attempts \ {a}]
           e == BeginTerminalReconciliation(db, a, d)
           unseen == read.view = "failed" \/ db.att[a].turn \notin Listed(read.view)
           w == [World EXCEPT !.read = r]
           decided == [w EXCEPT !.db = e]
           blocked(v) == [v EXCEPT !.read.blocked = v.read.blocked \cup {a}]
           retrying == [decided EXCEPT !.read.retry = TRUE]
           done == [decided EXCEPT !.read.retry = decided.read.retry \/ unseen]
<1>1. /\ UNCHANGED <<turns, notes>> /\ read.stage = "attempts" /\ read.attempts # {}
      /\ d \in TerminalDecisions(db, a)
      /\ \/ Becomes(blocked(DropCurrent(decided, a)))
         \/ Becomes(blocked(retrying))
         \/ Becomes(done)
    BY WorldOK DEF RecoverAttempt, Decisions
<1>2. a \in read.attempts /\ a \in Attempts
    <2>1. read.attempts \in SUBSET Attempts /\ read.attempts \in SUBSET Nat
        BY DEF IInv, TypeOK, Reads, Attempts
    <2> QED
        BY <1>1, <2>1, LeastInSet
<1> HIDE DEF a, e, unseen
<1>3. r \in Reads /\ r.kind = read.kind /\ r.stage = "attempts" /\ r.attempts = read.attempts \ {a}
    BY <1>1 DEF IInv, TypeOK, Reads
<1> HIDE DEF r
<1> DEFINE L(x, q) == [db |-> e, d |-> x, call |-> call, read |-> q, settle |-> settle, used |-> used]
           Like(q) == q \in Reads /\ q.kind = r.kind /\ q.stage = r.stage /\ q.attempts = r.attempts
<1>4. decided = L(disp, r)
    <2>1. w = [db |-> db, d |-> disp, call |-> call, read |-> r, settle |-> settle, used |-> used]
        BY DEF World
    <2> HIDE DEF w
    <2> QED
        BY <2>1
<1> HIDE DEF w
<1>5. DropCurrent(decided, a) = L(disp, r) \/ DropCurrent(decided, a) = L([disp EXCEPT !.cur = NoAttempt], r)
    <2>1. [L(disp, r) EXCEPT !.d.cur = NoAttempt] = L([disp EXCEPT !.cur = NoAttempt], r)
        OBVIOUS
    <2> HIDE DEF L
    <2> QED
        BY <1>4, <2>1 DEF DropCurrent
<1> HIDE DEF decided
<1>6. ASSUME NEW b \in BOOLEAN PROVE \E q : Like(q) /\ [decided EXCEPT !.read.retry = b] = L(disp, q)
    <2>1. Like([r EXCEPT !.retry = b])
        BY <1>3 DEF Reads
    <2>2. [decided EXCEPT !.read.retry = b] = L(disp, [r EXCEPT !.retry = b])
        BY <1>4
    <2> QED
        BY <2>1, <2>2
<1>7. (\E q : Like(q) /\ retrying = L(disp, q)) /\ (\E q : Like(q) /\ done = L(disp, q))
    <2>1. (decided.read.retry \/ unseen) \in BOOLEAN
        OBVIOUS
    <2> HIDE DEF L, Like, unseen
    <2> QED
        BY <1>6, <2>1
<1>8. ASSUME NEW x, NEW q, Like(q) PROVE \E p : Like(p) /\ blocked(L(x, q)) = L(x, p)
    <2>1. Like([q EXCEPT !.blocked = q.blocked \cup {a}])
        BY <1>2, <1>8 DEF Reads
    <2>2. blocked(L(x, q)) = L(x, [q EXCEPT !.blocked = q.blocked \cup {a}])
        OBVIOUS
    <2> QED
        BY <2>1, <2>2
<1>9. PICK x, q : Like(q) /\ Becomes(L(x, q))
    <2>1. Like(r)
        BY <1>3
    <2> HIDE DEF L, Like, blocked, retrying, done
    <2> QED
        BY <1>1, <1>5, <1>7, <1>8, <2>1
<1>10. /\ db' = e /\ call' = call /\ settle' = settle
       /\ read'.kind = read.kind /\ read'.stage = "attempts" /\ read'.attempts = read.attempts \ {a}
    BY <1>3, <1>9 DEF Becomes
<1> HIDE DEF L, Like, blocked, retrying, done
<1>11. /\ Fits(db, turns) /\ db \in Databases /\ Len(turns) \in Nat /\ call.kind = "none"
       /\ read.kind # "none" /\ SettleKnows(db, settle, turns)
    BY <1>1, RoundsFacts
<1>12. IsActive(db, a) /\ db.att[a].turn # NoTurn
    BY <1>2 DEF SInv, RoundsFit, Terminalizing, IsActive
<1>13. Fits(e, turns) /\ Later(db, e)
    BY <1>1, <1>2, <1>11, <1>12, BeginTerminalReconciliationKeeps DEF e
<1>14. SettleKnows(e, settle, turns)
    BY <1>11, <1>13 DEF SettleKnows, Later, Shut
<1>15. Sound(World)'
    BY <1>1, <1>10, <1>11, <1>13, <1>14 DEF Sound, World, ReadWaits, CallKnows
<1>16. RoundsFit'
    <2>1. \A b \in Attempts \ {a} : e.att[b] = db.att[b]
        BY <1>2, <1>11, OtherAttemptsStay DEF e
    <2> QED
        BY <1>10, <2>1 DEF RoundsFit, SInv, Terminalizing
<1>17. SInv'
    BY <1>1, <1>15, <1>16 DEF SInv, NotesFit
<1> QED
    BY <1>1, <1>2, <1>10, <1>12, <1>17 DEF e

LEMMA RecoverTurnsSafe == ASSUME IInv, SInv, RecoverTurns PROVE SInv' /\ Alike(db, db')
<1> DEFINE over == {a \in Attempts \ read.blocked :
                      /\ read.view # "failed" /\ db.att[a].turn # NoTurn
                      /\ a \in AttemptForTurn(db, db.att[a].turn)
                      /\ db.att[a].turn \in Listed(read.view) /\ ShownEnded(db.att[a].turn)}
           fresh == {db.att[a].turn : a \in over} \ disp.published
           q == [a \in Attempts |-> IF a \in over THEN [World.db.att[a] EXCEPT !.accepting = FALSE]
                                    ELSE World.db.att[a]]
           l == [t \in Turns |-> IF t \in fresh /\ World.settle[t] = "idle" THEN "queued" ELSE World.settle[t]]
           v == [World EXCEPT
                    !.db.att = q,
                    !.d.published = World.d.published \cup fresh,
                    !.d.timer = World.d.timer \/ read.retry,
                    !.settle = l, !.read = NoRead]
<1>1. Becomes(Settled(v)) /\ UNCHANGED <<turns, notes>> /\ read.stage = "attempts"
    BY DEF RecoverTurns
<1>2. /\ Fits(db, turns) /\ db \in Databases /\ Len(turns) \in Nat /\ call.kind = "none"
      /\ read.kind # "none" /\ SettleKnows(db, settle, turns)
    BY <1>1, RoundsFacts
<1>3. \A t \in fresh : t \in 1..Len(turns)
    BY <1>2 DEF Listed
<1> HIDE DEF over, fresh
<1> DEFINE e == [World.db EXCEPT !.att = q]
<1>4. /\ e.src = db.src /\ e.mem = db.mem /\ e.out = db.out /\ e.att = q
      /\ \A b \in Attempts : /\ q[b].state = db.att[b].state /\ q[b].primary = db.att[b].primary
                             /\ q[b].turn = db.att[b].turn /\ (q[b].accepting => db.att[b].accepting)
    BY <1>2 DEF World, Databases, AttemptRows
<1>5. Alike(db, e) /\ e \in Databases
    <2>1. q \in [Attempts -> AttemptRows]
        BY ZenonT(60), <1>2 DEF World, Databases, AttemptRows
    <2>2. World.db = db
        BY DEF World
    <2> HIDE DEF q
    <2>3. e \in Databases
        BY <1>2, <2>1, <2>2 DEF Databases
    <2> QED
        BY <1>4, <2>3 DEF Alike
<1> HIDE DEF q
<1>6. Fits(e, turns) /\ Later(db, e)
    BY <1>2, <1>5, AlikeKeeps
<1>7. /\ v.db = e /\ v.call = call /\ v.read = NoRead /\ v.settle = l
    BY DEF World
<1> HIDE DEF e, v
<1>8. SettleKnows(e, l, turns)
    <2>1. \A t \in Turns : /\ l[t] # "idle" => settle[t] # "idle" \/ t \in 1..Len(turns)
                           /\ l[t] = "finishing" => settle[t] = "finishing"
        BY <1>3 DEF World
    <2> HIDE DEF l
    <2> QED
        BY <1>2, <1>6, <2>1 DEF SettleKnows, Later, Shut
<1> HIDE DEF l
<1>9. /\ db' = e /\ call' = call /\ read' = NoRead /\ settle' = l
    <2>1. Settled(v) = v \/ Settled(v) = [v EXCEPT !.d.wake = TRUE]
        BY DEF Settled
    <2>2. [v EXCEPT !.d.wake = TRUE].db = v.db /\ [v EXCEPT !.d.wake = TRUE].call = v.call
          /\ [v EXCEPT !.d.wake = TRUE].read = v.read /\ [v EXCEPT !.d.wake = TRUE].settle = v.settle
        BY DEF v, World
    <2> QED
        BY <1>1, <1>7, <2>1, <2>2 DEF Becomes
<1>10. Sound(World)'
    BY <1>1, <1>2, <1>6, <1>8, <1>9 DEF Sound, World, ReadWaits, CallKnows, NoRead
<1>11. RoundsFit'
    BY <1>9 DEF RoundsFit, NoRead
<1>12. SInv'
    BY <1>1, <1>10, <1>11 DEF SInv, NotesFit
<1> QED
    BY <1>5, <1>9, <1>12

-----------------------------------------------------------------------------
(* Terminal processing *)

\* The processing of a turn of the thread starts or stops waiting.
LEMMA SettleGood ==
    ASSUME NEW w, Good(w), NEW t \in Turns, NEW x \in {"idle", "waiting", "draining"},
           x # "idle" => t \in 1..Len(turns)
    PROVE  Good([w EXCEPT !.settle = [w.settle EXCEPT ![t] = x]])
<1> DEFINE l == [w.settle EXCEPT ![t] = x]
           v == [w EXCEPT !.settle = l]
<1>1. /\ l \in Settlings
      /\ \A u \in Turns : /\ l[u] # "idle" => w.settle[u] # "idle" \/ u \in 1..Len(turns)
                          /\ l[u] = "finishing" => w.settle[u] = "finishing"
    BY DEF Good, OK, Worlds, Settlings
<1> HIDE DEF l
<1>2. v \in Worlds /\ v.db = w.db /\ v.call = w.call /\ v.read = w.read /\ v.settle = l
    BY <1>1 DEF Good, OK, Worlds
<1> HIDE DEF v
<1>3. OK(v) /\ Fits(v.db, turns) /\ Later(w.db, v.db)
    BY <1>2, LaterReflexive DEF Good, OK, Sound
<1>4. CallKnows(v.db, v.call, turns) /\ ReadWaits(v.call, v.read) /\ Calm(v.read)
    BY <1>2 DEF Good, Sound
<1>5. Good(v)
    BY <1>1, <1>2, <1>3, <1>4, GoodStep
<1> QED
    BY <1>5 DEF v, l

LEMMA ProcessTerminalGood ==
    ASSUME IInv, SInv, read.stage # "attempts", NEW t \in Turns, t \in 1..Len(turns), ProcessTerminal(t)
    PROVE  \E v : Good(v) /\ Becomes(v)
<1> DEFINE w0 == [World EXCEPT !.settle = [World.settle EXCEPT ![t] = "waiting"]]
<1>1. PICK shown \in BOOLEAN : \E w \in Terminal(w0, t, shown) :
        Becomes(w) \/ Becomes([w EXCEPT !.settle = [w.settle EXCEPT ![t] = "idle"]])
    <2>1. w0 = [World EXCEPT !.settle[t] = "waiting"]
        OBVIOUS
    <2> HIDE DEF w0
    <2>2. PICK shown \in BOOLEAN : \E w \in Terminal(w0, t, shown) :
            Becomes(w) \/ Becomes([w EXCEPT !.settle[t] = "idle"])
        BY <2>1 DEF ProcessTerminal
    <2> QED
        BY <2>2
<1>2. PICK w \in Terminal(w0, t, shown) :
        Becomes(w) \/ Becomes([w EXCEPT !.settle = [w.settle EXCEPT ![t] = "idle"]])
    BY <1>1
<1>3. Good(w0)
    BY WorldGood, SettleGood
<1> HIDE DEF w0
<1>4. Good(w)
    BY <1>2, <1>3, TerminalGood
<1>5. Good([w EXCEPT !.settle = [w.settle EXCEPT ![t] = "idle"]])
    BY <1>4, SettleGood
<1> QED
    BY <1>2, <1>4, <1>5

\* A delivered notification is about a turn of the thread, and so are the rest.
LEMMA NotesGood ==
    ASSUME IInv, SInv, notes # <<>>
    PROVE  /\ Head(notes)[2] \in 1..Len(turns) /\ Head(notes)[2] \in Turns
           /\ \A i \in 1..Len(Tail(notes)) : Tail(notes)[i][2] \in 1..Len(turns)
<1>1. notes \in Seq({"started", "completed"} \X Turns) /\ Len(notes) \in Nat /\ Len(notes) > 0
    BY DEF IInv, TypeOK
<1>2. Head(notes) = notes[1] /\ Len(Tail(notes)) = Len(notes) - 1
      /\ \A i \in 1..Len(Tail(notes)) : Tail(notes)[i] = notes[i + 1]
    BY <1>1
<1>3. \A i \in 1..Len(notes) : notes[i][2] \in 1..Len(turns)
    BY DEF SInv, NotesFit
<1> QED
    BY <1>1, <1>2, <1>3, NotesTail

\* A handler that takes a notification.
LEMMA NotesCarry ==
    ASSUME IInv, SInv, notes # <<>>, NEW v, Good(v), Becomes(v), notes' = Tail(notes), turns' = turns
    PROVE  SInv'
<1>1. NotesFit'
    BY NotesGood DEF NotesFit
<1>2. /\ db' = v.db /\ call' = v.call /\ read' = v.read /\ settle' = v.settle
    BY DEF Becomes
<1>3. Sound(World)' /\ RoundsFit'
    BY <1>2 DEF Good, Sound, World, RoundsFit, Calm
<1> QED
    BY <1>1, <1>3 DEF SInv

LEMMA StartedDeliveredSafe == ASSUME IInv, SInv, StartedDelivered PROVE SInv'
<1>1. notes # <<>> /\ notes' = Tail(notes) /\ turns' = turns /\ read.stage # "attempts"
    BY DEF StartedDelivered, Serial, Between
<1>2. PICK shown \in BOOLEAN : \E w \in Started(World, Head(notes)[2], shown) : Becomes(w)
    BY DEF StartedDelivered
<1>3. PICK v \in Started(World, Head(notes)[2], shown) : Becomes(v)
    BY <1>2
<1>4. Good(v)
    BY <1>1, <1>3, WorldGood, NotesGood, StartedGood
<1> QED
    BY <1>1, <1>3, <1>4, NotesCarry

LEMMA CompletedDeliveredSafe == ASSUME IInv, SInv, CompletedDelivered PROVE SInv'
<1>1. notes # <<>> /\ notes' = Tail(notes) /\ turns' = turns /\ read.stage # "attempts"
    BY DEF CompletedDelivered, Serial, Between
<1>2. ProcessTerminal(Head(notes)[2]) \/ Becomes(World)
    BY DEF CompletedDelivered
<1>3. \E v : Good(v) /\ Becomes(v)
    BY <1>1, <1>2, WorldGood, NotesGood, ProcessTerminalGood
<1> QED
    BY <1>1, <1>3, NotesCarry

LEMMA PublishedTerminalSafe ==
    ASSUME IInv, SInv, NEW t \in Turns, PublishedTerminal(t) PROVE SInv'
<1>1. /\ UNCHANGED <<turns, notes>> /\ read.stage # "attempts" /\ ProcessTerminal(t)
      /\ settle[t] = "queued"
    BY DEF PublishedTerminal, Between
<1>2. t \in 1..Len(turns)
    BY <1>1 DEF SInv, Sound, World, SettleKnows
<1> QED
    BY <1>1, <1>2, ProcessTerminalGood, SCarry

\* The attempt whose turn is processed is bound to that turn.
LEMMA AttemptOfBound ==
    ASSUME IInv, NEW t \in Turns, settle[t] \in Processing
    PROVE  AttemptOf(t) \in Attempts /\ db.att[AttemptOf(t)].turn = t /\ t # NoTurn
<1>1. AttemptOf(t) \in Attempts
    BY AttemptOfType
<1>2. PICK a \in Attempts : db.att[a].turn = t
    BY DEF IInv, Owned
<1>3. t # NoTurn
    BY DEF Turns, Attempts, NoTurn
<1>4. a \in AttemptsOf(t)
    BY <1>2, <1>3 DEF AttemptsOf, IInv, FreeRows
<1> DEFINE active == {b \in AttemptsOf(t) : db.att[b].state = "active"}
           from == IF active # {} THEN active ELSE AttemptsOf(t)
<1>5. from # {} /\ from \subseteq AttemptsOf(t) /\ from \in SUBSET (0..MaxAttempts) /\ MaxAttempts \in Nat
    BY <1>4, BoundsAssumption DEF AttemptsOf, Attempts
<1>6. AttemptOf(t) = CHOOSE b \in from : \A c \in from : c <= b
    BY DEF AttemptOf
<1> HIDE DEF from
<1>7. \E b \in from : \A c \in from : c <= b
    BY <1>5, GreatestExists
<1>8. AttemptOf(t) \in AttemptsOf(t)
    BY <1>5, <1>6, <1>7
<1> QED
    BY <1>1, <1>3, <1>8 DEF AttemptsOf

\* A turn has one attempt.
LEMMA OneAttempt ==
    ASSUME NEW e, NEW th, Len(th) \in Nat, Fits(e, th), NEW a \in Attempts, NEW b \in Attempts,
           e \in Databases, e.att[a].turn # NoTurn, e.att[a].turn = e.att[b].turn
    PROVE  a = b
<1>1. e.att[a].primary \in Sources /\ e.att[b].primary \in Sources
    BY DEF Databases, AttemptRows
<1>2. /\ e.att[a].turn \in 1..Len(th) /\ <<a, e.att[a].primary>> \in th[e.att[a].turn].inputs
      /\ <<b, e.att[b].primary>> \in th[e.att[a].turn].inputs
    BY DEF Fits, ThreadFits
<1> QED
    BY <1>1, <1>2 DEF Fits, ThreadFits

\* Terminal processing writes the attempt's rows and moves on.
LEMMA ProcessingGood ==
    ASSUME IInv, SInv, read.stage # "attempts", NEW t \in Turns, settle[t] \in Processing,
           NEW e, Evolves(db, e), Fits(e, turns), Later(db, e), Stays(db, e, turns),
           NEW x \in {"idle", "finishing", "draining"},
           x = "finishing" => \E a \in Attempts : e.att[a].turn = t /\ Shut(e, a)
    PROVE  Good([World EXCEPT !.db = e, !.settle[t] = x])
<1> DEFINE l == [settle EXCEPT ![t] = x]
           v == [World EXCEPT !.db = e, !.settle = l]
<1>1. /\ l \in Settlings
      /\ \A u \in Turns : /\ l[u] # "idle" => settle[u] # "idle"
                          /\ l[u] = "finishing" => settle[u] = "finishing" \/ (u = t /\ x = "finishing")
    BY DEF IInv, TypeOK, Settlings, Processing
<1> HIDE DEF l
<1>2. Handles(World, [World EXCEPT !.db = e, !.settle[t] = x])
    BY ProcessingStep
<1>3. [World EXCEPT !.db = e, !.settle[t] = x] = v
    BY WorldOK DEF l
<1>4. OK(v)
    BY <1>2, <1>3 DEF Handles
<1>5. /\ Good(World) /\ World.db = db /\ World.call = call /\ World.read = read /\ World.settle = settle
    BY WorldGood
<1>6. v.db = e /\ v.call = call /\ v.read = read /\ v.settle = l
    BY DEF World
<1> HIDE DEF v
<1>7. CallKnows(e, call, turns)
    BY <1>5, CallStays DEF Good, Sound, OK, Worlds
<1>8. SettleKnows(e, settle, turns)
    BY <1>5 DEF Good, Sound, SettleKnows, Later, Shut
<1>9. SettleKnows(e, l, turns)
    BY <1>1, <1>8 DEF SettleKnows
<1>10. Good(v)
    BY <1>4, <1>5, <1>6, <1>7, <1>9 DEF Good, Sound
<1> QED
    BY <1>3, <1>10

LEMMA SubmissionsSettledSafe ==
    ASSUME IInv, SInv, NEW t \in Turns, SubmissionsSettled(t) PROVE SInv' /\ Alike(db, db')
<1> DEFINE a == AttemptOf(t)
           e == IF db.att[a].state = "active" THEN Terminalize(db, a) ELSE db
           v == [World EXCEPT !.db = e, !.settle[t] = "finishing"]
<1>1. /\ settle[t] = "waiting" /\ UNCHANGED <<turns, notes>> /\ read.stage # "attempts" /\ Becomes(v)
      /\ ~HasUnresolved(db, a)
    BY WorldOK DEF SubmissionsSettled, Serial, Between
<1>2. a \in Attempts /\ db.att[a].turn = t /\ t # NoTurn /\ db \in Databases
    BY <1>1, AttemptOfBound DEF Processing, IInv, TypeOK
<1>3. Evolves(db, e) /\ Alike(db, e) /\ e \in Databases
    BY <1>2, TerminalizeEvolves, EvolvesReflexive, TerminalizeAlike, AlikeReflexive DEF Evolves
<1>4. Fits(db, turns) /\ Len(turns) \in Nat
    BY TurnsBounded DEF SInv, Sound, World
<1>5. IsActive(e, a) => ~e.att[a].accepting
    BY <1>2 DEF IsActive, Terminalize, Databases, AttemptRows
<1>6. \A s \in Sources : db.mem[a][s].state \notin Unresolved
    BY <1>1 DEF HasUnresolved, Members
<1> HIDE DEF a, e
<1>7. Fits(e, turns) /\ Later(db, e) /\ Stays(db, e, turns)
    BY <1>2, <1>3, <1>4, AlikeKeeps
<1>8. Shut(e, a) /\ e.att[a].turn = t
    <2>1. \A s \in Sources : e.mem[a][s].state \notin Unresolved
        BY <1>2, <1>3, <1>6 DEF Alike
    <2> QED
        BY <1>2, <1>3, <1>5, <2>1 DEF Shut, Alike
<1>9. Good(v)
    BY <1>1, <1>2, <1>3, <1>7, <1>8, ProcessingGood DEF Processing
<1>10. db' = e
    BY <1>1 DEF Becomes, World
<1> HIDE DEF v
<1> QED
    BY <1>1, <1>3, <1>9, <1>10, SCarry

\* What the last transaction of a turn does to the database.
Finishes(d, e) ==
    \/ e = d
    \/ \E a \in Attempts :
         /\ IsActive(d, a) /\ d.att[a].turn # NoTurn /\ ~HasUnresolved(d, a)
         /\ \/ e = CompleteAttempt(d, a) \/ e = RetryAttempt(d, a)
            \/ \E r \in NextSource(d) : e = SupersedeAttempt(d, a, r)

LEMMA FinishSafe == ASSUME IInv, SInv, NEW t \in Turns, Finish(t) PROVE SInv' /\ Finishes(db, db')
<1> DEFINE a == AttemptOf(t)
           closed == IF db.att[a].state # "active" THEN {db}
                     ELSE {CompleteAttempt(db, a), RetryAttempt(db, a)}
                            \cup {SupersedeAttempt(db, a, r) : r \in NextSource(db)}
<1>1. settle[t] = "finishing" /\ UNCHANGED <<turns, notes>> /\ read.stage # "attempts"
    BY DEF Finish, Serial, Between
<1>2. PICK e \in closed : Becomes([World EXCEPT !.db = e, !.settle[t] = "draining"])
    BY DEF Finish
<1>3. a \in Attempts /\ db.att[a].turn = t /\ t # NoTurn /\ db \in Databases
    BY <1>1, AttemptOfBound DEF Processing, IInv, TypeOK
<1>4. Fits(db, turns) /\ Len(turns) \in Nat
    BY TurnsBounded DEF SInv, Sound, World
<1>5. Shut(db, a)
    <2>1. PICK b \in Attempts : db.att[b].turn = t /\ Shut(db, b)
        BY <1>1 DEF SInv, Sound, World, SettleKnows
    <2>2. b = a
        BY <1>3, <1>4, <2>1, OneAttempt
    <2> QED
        BY <2>1, <2>2
<1> HIDE DEF a
<1>6. ~HasUnresolved(db, a)
    BY <1>5 DEF Shut, HasUnresolved, Members
<1>7. \/ e = db
      \/ /\ IsActive(db, a)
         /\ \/ e = CompleteAttempt(db, a) \/ e = RetryAttempt(db, a)
            \/ \E r \in NextSource(db) : e = SupersedeAttempt(db, a, r)
    BY DEF IsActive
<1>8. Evolves(db, e) /\ Fits(e, turns) /\ Later(db, e) /\ Stays(db, e, turns)
    <2>1. CASE e = db
        BY <1>3, <1>4, <2>1, EvolvesReflexive, AlikeReflexive, AlikeKeeps
    <2>2. CASE IsActive(db, a) /\ e = CompleteAttempt(db, a)
        BY <1>3, <1>4, <2>2, CompleteAttemptEvolves, CompleteAttemptKeeps
    <2>3. CASE IsActive(db, a) /\ e = RetryAttempt(db, a)
        BY <1>3, <1>4, <1>6, <2>3, RetryAttemptEvolves, RetryAttemptKeeps
    <2>4. ASSUME IsActive(db, a), NEW r \in NextSource(db), e = SupersedeAttempt(db, a, r)
          PROVE  Evolves(db, e) /\ Fits(e, turns) /\ Later(db, e) /\ Stays(db, e, turns)
        <3>1. r \in Sources /\ db.src[r].state = "absent"
            BY DEF NextSource
        <3> QED
            BY <1>3, <1>4, <2>4, <3>1, SupersedeAttemptEvolves, SupersedeAttemptKeeps
    <2> QED
        BY <1>7, <2>1, <2>2, <2>3, <2>4
<1>9. Good([World EXCEPT !.db = e, !.settle[t] = "draining"])
    BY <1>1, <1>8, ProcessingGood DEF Processing
<1>10. db' = e
    BY <1>2 DEF Becomes, World
<1>11. Finishes(db, e)
    BY <1>3, <1>6, <1>7 DEF Finishes
<1> QED
    BY <1>1, <1>2, <1>9, <1>10, <1>11, SCarry

LEMMA DrainedSafe == ASSUME IInv, SInv, NEW t \in Turns, Drained(t) PROVE SInv'
<1> DEFINE w1 == [World EXCEPT !.settle = [World.settle EXCEPT ![t] = "idle"]]
           x == [w1.d EXCEPT !.paused = FALSE]
           w == [w1 EXCEPT !.d = x]
<1>1. settle[t] = "draining" /\ UNCHANGED <<turns, notes>> /\ read.stage # "attempts"
    BY DEF Drained, Serial, Between
<1>2. [World EXCEPT !.settle[t] = "idle", !.d.paused = FALSE] = w
    BY WorldOK DEF OK, Worlds
<1>3. PICK v \in Pump(w) : Becomes(v)
    BY <1>2 DEF Drained
<1>4. Good(w1)
    BY <1>1, WorldGood, SettleGood
<1> HIDE DEF w1
<1>5. x \in OpenDispatchers
    BY <1>4 DEF Good, OK, Worlds, OpenDispatchers
<1> HIDE DEF x
<1>6. Good(w)
    BY <1>4, <1>5, DispatcherGood
<1> HIDE DEF w
<1> QED
    BY <1>1, <1>3, <1>6, PumpGood, SCarry

LEMMA ProcessingFailsSafe == ASSUME IInv, SInv, NEW t \in Turns, ProcessingFails(t) PROVE SInv'
<1> DEFINE l == [settle EXCEPT ![t] = "idle"]
           x == [disp EXCEPT !.timer = TRUE]
           u == [used EXCEPT !.readErrors = used.readErrors + 1]
           v == [World EXCEPT !.settle = l, !.d = x, !.used = u]
<1>1. /\ UNCHANGED <<turns, notes>> /\ read.stage # "attempts" /\ used.readErrors < MaxReadErrors
      /\ Becomes(v)
    BY WorldOK DEF ProcessingFails, Serial, Between
<1>2. /\ l \in Settlings
      /\ \A s \in Turns : /\ l[s] # "idle" => settle[s] # "idle"
                          /\ l[s] = "finishing" => settle[s] = "finishing"
    BY DEF IInv, TypeOK, Settlings
<1>3. x \in OpenDispatchers
    BY WorldOK DEF OK, Worlds, OpenDispatchers
<1>4. u \in Budgets
    BY SMTT(60), <1>1, RunBoundsAssumption DEF IInv, TypeOK, Budgets
<1> HIDE DEF l, x, u
<1>5. Good(World) /\ World.db = db /\ World.call = call /\ World.read = read /\ World.settle = settle
    BY <1>1, WorldGood
<1>6. v \in Worlds /\ v.db = db /\ v.call = call /\ v.read = read /\ v.settle = l
    BY <1>2, <1>3, <1>4, WorldOK DEF OK, Worlds
<1> HIDE DEF v
<1>7. OK(v)
    BY <1>5, <1>6 DEF Good, OK
<1>8. CallKnows(v.db, v.call, turns) /\ ReadWaits(v.call, v.read) /\ Calm(v.read)
      /\ Fits(v.db, turns) /\ Later(World.db, v.db)
    BY <1>5, <1>6, LaterReflexive DEF Good, Sound
<1>9. Good(v)
    BY <1>2, <1>5, <1>6, <1>7, <1>8, GoodStep
<1> QED
    BY <1>1, <1>9, SCarry

-----------------------------------------------------------------------------
(* The app-server *)

\* A step of the native thread, or of a submission in flight.
LEMMA NativeSafe ==
    ASSUME SInv, UNCHANGED <<db, read, settle>>, Len(turns) \in Nat, Len(turns') \in Nat,
           Len(turns) <= Len(turns'), Fits(db, turns'), CallKnows(db, call', turns'),
           call'.kind = call.kind, NotesFit'
    PROVE  SInv'
<1>1. SettleKnows(db, settle, turns')
    BY DEF SInv, Sound, World, SettleKnows
<1>2. ReadWaits(call', read)
    BY DEF SInv, Sound, World, ReadWaits
<1>3. RoundsFit'
    BY DEF SInv, RoundsFit
<1> QED
    BY <1>1, <1>2, <1>3 DEF SInv, Sound, World

LEMMA NotesOfThread ==
    ASSUME IInv, SInv, NEW n \in Nat, Len(turns) <= n
    PROVE  notes \in Seq({"started", "completed"} \X (1..n))
<1> DEFINE S == {"started", "completed"} \X (1..n)
<1>1. notes \in Seq({"started", "completed"} \X Turns) /\ Len(notes) \in Nat /\ Len(turns) \in Nat
    BY TurnsBounded DEF IInv, TypeOK
<1>2. \A i \in 1..Len(notes) : notes[i] \in {"started", "completed"} \X Turns /\ notes[i][2] \in 1..Len(turns)
    BY <1>1, ElementOfSeq DEF SInv, NotesFit
<1>3. \A i \in 1..Len(notes) : notes[i] \in S
    BY <1>1, <1>2
<1> HIDE DEF S
<1>4. notes \in [1..Len(notes) -> {"started", "completed"} \X Turns]
    BY <1>1, LenProperties
<1>5. notes \in [1..Len(notes) -> S]
    BY <1>3, <1>4
<1>6. notes \in Seq(S)
    BY <1>1, <1>5, IsASeq
<1> QED
    BY <1>6 DEF S

LEMMA NotesElements ==
    ASSUME NEW n, NEW q \in Seq({"started", "completed"} \X (1..n)), NEW i \in 1..Len(q)
    PROVE  q[i][2] \in 1..n
<1>1. q[i] \in {"started", "completed"} \X (1..n)
    BY ElementOfSeq
<1> QED
    BY <1>1

LEMMA InterruptedTurns ==
    ASSUME IInv
    PROVE  /\ Len(Interrupted) = Len(turns) /\ Interrupted \in Seq(NativeTurns) /\ Len(turns) \in Nat
           /\ \A t \in 1..Len(turns) : /\ Interrupted[t].inputs = turns[t].inputs
                                       /\ Interrupted[t].status = "ended"
<1>1. turns \in Seq(NativeTurns)
    BY TurnsBounded
<1>2. \A t \in 1..Len(turns) : turns[t] \in NativeTurns /\ Interrupted[t] = [turns[t] EXCEPT !.status = "ended"]
    BY <1>1, ElementOfSeq DEF Interrupted
<1>3. \A t \in 1..Len(turns) : Interrupted[t].inputs = turns[t].inputs /\ Interrupted[t].status = "ended"
    BY <1>2 DEF NativeTurns
<1> QED
    BY <1>1, <1>3, InterruptedType

LEMMA ApplyStartSafe == ASSUME IInv, SInv, ApplyStart PROVE SInv'
<1> DEFINE n == Len(turns) + 1
           new == [status |-> "active", inputs |-> {<<call.att, call.src>>}]
           over == IF ActiveTurns = {} THEN <<>>
                   ELSE << <<"completed", CHOOSE u \in ActiveTurns : TRUE>> >>
           a == call.att
           s == call.src
<1>1. /\ call.kind = "start" /\ call.stage = "sent"
      /\ turns' = Append(Interrupted, new)
      /\ notes' = notes \o over \o << <<"started", n>> >>
      /\ call' = [call EXCEPT !.stage = "ok", !.turn = n]
      /\ UNCHANGED <<db, read, settle>>
    BY DEF ApplyStart
<1>2. /\ call \in Calls /\ a \in Attempts /\ s \in Sources /\ Len(turns) \in Nat /\ db \in Databases
      /\ Fits(db, turns) /\ CallKnows(db, call, turns)
    BY <1>1, TurnsBounded DEF IInv, TypeOK, CallFits, SInv, Sound, World
<1>3. /\ call'.kind = "start" /\ call'.stage = "ok" /\ call'.turn = n /\ call'.att = a /\ call'.src = s
    BY <1>1, <1>2 DEF Calls
<1>4. /\ Len(turns') = n /\ turns'[n] = new
      /\ \A t \in 1..Len(turns) : turns'[t] = Interrupted[t]
    <2> HIDE DEF new
    <2>1. Interrupted \in Seq(NativeTurns) /\ Len(Interrupted) = Len(turns)
        BY InterruptedTurns
    <2>2. new \in NativeTurns
        BY <1>2 DEF new, NativeTurns, Submissions
    <2> QED
        BY <1>1, <1>2, <2>1, <2>2, AppendProperties
<1>5. /\ turns'[n].inputs = {<<a, s>>}
      /\ \A t \in 1..Len(turns) : turns'[t].inputs = turns[t].inputs /\ turns'[t].status # "active"
    BY <1>4, InterruptedTurns
<1>6. /\ IsStart(db, a, s) /\ db.mem[a][s].state \in Unresolved /\ ~Ran(turns, a, s)
      /\ \A b \in Attempts : a < b => db.att[b].state = "absent"
      /\ db.att[a].state # "absent" /\ db.src[s].state # "absent"
    BY <1>1, <1>2 DEF CallKnows
<1> HIDE DEF new, a, s
<1>7. Fits(db, turns') /\ <<a, s>> \in turns'[n].inputs
    BY <1>2, <1>4, <1>5, <1>6, StartAppliedKeeps
<1>8. CallKnows(db, call', turns')
    BY <1>2, <1>3, <1>4, <1>6, <1>7 DEF CallKnows
<1>9. NotesFit'
    <2>1. n \in Nat /\ Len(turns) <= n /\ n \in 1..n
        BY <1>2
    <2>2. notes \in Seq({"started", "completed"} \X (1..n))
        BY <2>1, NotesOfThread
    <2>3. over \in Seq({"started", "completed"} \X (1..n))
        <3>1. CASE ActiveTurns = {}
            BY <3>1, EmptySeq
        <3>2. CASE ActiveTurns # {}
            <4> DEFINE ending == CHOOSE u \in ActiveTurns : TRUE
                       x == <<"completed", ending>>
            <4>1. over = <<x>>
                BY <3>2
            <4>2. ending \in 1..n
                BY <1>2, <3>2 DEF ActiveTurns
            <4> HIDE DEF ending, over, n
            <4>3. x \in {"started", "completed"} \X (1..n)
                BY <4>2
            <4> HIDE DEF x
            <4> QED
                BY <4>1, <4>3, OneElement
        <3> QED
            BY <3>1, <3>2
    <2> HIDE DEF n, over
    <2>4. << <<"started", n>> >> \in Seq({"started", "completed"} \X (1..n))
        <3>1. <<"started", n>> \in {"started", "completed"} \X (1..n)
            BY <2>1
        <3> QED
            BY <3>1, OneElement
    <2>5. notes' \in Seq({"started", "completed"} \X (1..n))
        BY <1>1, <2>2, <2>3, <2>4, ConcatProperties
    <2> QED
        BY <1>4, <2>5, NotesElements DEF NotesFit
<1> QED
    BY <1>1, <1>2, <1>3, <1>4, <1>7, <1>8, <1>9, NativeSafe

\* Only the outcome of the submission in flight changes.
LEMMA OutcomeSafe ==
    ASSUME IInv, SInv, UNCHANGED <<db, read, settle, turns, notes>>,
           NEW x \in {"refused", "error"}, x = "refused" => call.kind = "steer" /\ call.stage = "sent",
           call' = [call EXCEPT !.stage = x]
    PROVE  SInv'
<1>1. /\ call'.kind = call.kind /\ call'.stage = x /\ call'.turn = call.turn /\ call'.att = call.att
      /\ call'.src = call.src
    BY DEF IInv, TypeOK, Calls
<1>2. CallKnows(db, call, turns) /\ Fits(db, turns) /\ Len(turns) \in Nat
    BY TurnsBounded DEF SInv, Sound, World
<1>3. CallKnows(db, call', turns)
    BY <1>1, <1>2 DEF CallKnows
<1>4. NotesFit'
    BY DEF SInv, NotesFit
<1> QED
    BY <1>1, <1>2, <1>3, <1>4, NativeSafe

LEMMA ApplySteerSafe == ASSUME IInv, SInv, ApplySteer PROVE SInv'
<1> DEFINE a == call.att
           s == call.src
           n == call.turn
<1>1. /\ call.kind = "steer" /\ call.stage = "sent" /\ turns[n].status = "active"
      /\ UNCHANGED <<db, read, settle, notes>>
      /\ \/ /\ turns' = [turns EXCEPT ![n].inputs = @ \cup {<<a, s>>}] /\ call' = [call EXCEPT !.stage = "ok"]
         \/ call' = [call EXCEPT !.stage = "refused"] /\ UNCHANGED turns
    BY DEF ApplySteer
<1>2. CASE call' = [call EXCEPT !.stage = "refused"] /\ UNCHANGED turns
    BY <1>1, <1>2, OutcomeSafe
<1>3. CASE turns' = [turns EXCEPT ![n].inputs = @ \cup {<<a, s>>}] /\ call' = [call EXCEPT !.stage = "ok"]
    <2>1. /\ call \in Calls /\ a \in Attempts /\ s \in Sources /\ Len(turns) \in Nat /\ db \in Databases
          /\ Fits(db, turns) /\ CallKnows(db, call, turns) /\ turns \in Seq(NativeTurns)
        BY <1>1, TurnsBounded DEF IInv, TypeOK, CallFits, SInv, Sound, World
    <2>2. /\ call'.kind = "steer" /\ call'.stage = "ok" /\ call'.turn = n /\ call'.att = a /\ call'.src = s
        BY <1>1, <1>3, <2>1 DEF Calls
    <2>3. /\ ~IsStart(db, a, s) /\ db.mem[a][s].state \in Unresolved /\ SameConversation(db, db.att[a].primary, s)
          /\ db.att[a].turn = n /\ n # NoTurn
          /\ db.att[a].state # "absent" /\ db.src[s].state # "absent"
        BY <1>1, <2>1 DEF CallKnows
    <2> HIDE DEF a, s, n
    <2>4. n \in 1..Len(turns)
        BY <2>1, <2>3 DEF Fits, ThreadFits
    <2> DEFINE new == [turns[n] EXCEPT !.inputs = @ \cup {<<a, s>>}]
    <2>5. turns[n] \in NativeTurns
        BY <2>1, <2>4, ElementOfSeq
    <2>6. new \in NativeTurns /\ new.inputs = turns[n].inputs \cup {<<a, s>>} /\ new.status = turns[n].status
        BY <2>1, <2>5 DEF NativeTurns, Submissions
    <2>7. turns' = [turns EXCEPT ![n] = new]
        BY <1>3
    <2> HIDE DEF new
    <2>8. Len(turns') = Len(turns) /\ turns'[n] = new /\ \A t \in 1..Len(turns) : t # n => turns'[t] = turns[t]
        <3>1. DOMAIN turns = 1..Len(turns)
            BY <2>1, LenProperties
        <3> QED
            BY <2>1, <2>4, <2>6, <2>7, <3>1, ExceptSeq
    <2>9. \A t \in 1..Len(turns) : turns'[t].status = turns[t].status
                                   /\ (t # n => turns'[t].inputs = turns[t].inputs)
        BY <2>6, <2>8
    <2>10. Fits(db, turns') /\ <<a, s>> \in turns'[n].inputs
        <3>1. /\ db.att[a].turn # NoTurn /\ turns[db.att[a].turn].status = "active"
              /\ turns'[db.att[a].turn].inputs = turns[db.att[a].turn].inputs \cup {<<a, s>>}
              /\ \A t \in 1..Len(turns) : turns'[t].status = turns[t].status
                                         /\ (t # db.att[a].turn => turns'[t].inputs = turns[t].inputs)
            BY <1>1, <2>3, <2>6, <2>8, <2>9
        <3>2. Fits(db, turns') /\ <<a, s>> \in turns'[db.att[a].turn].inputs
            BY <2>1, <2>3, <2>8, <3>1, SteerAppliedKeeps
        <3> QED
            BY <2>3, <3>2
    <2>11. CallKnows(db, call', turns')
        BY <2>2, <2>3, <2>4, <2>8, <2>10 DEF CallKnows
    <2>12. NotesFit'
        BY <1>1, <2>8 DEF SInv, NotesFit
    <2> QED
        BY <1>1, <2>1, <2>2, <2>8, <2>10, <2>11, <2>12, NativeSafe
<1> QED
    BY <1>1, <1>2, <1>3

LEMMA SteerRejectedSafe == ASSUME IInv, SInv, SteerRejected PROVE SInv'
    BY OutcomeSafe DEF SteerRejected

LEMMA SubmissionFailsSafe == ASSUME IInv, SInv, SubmissionFails PROVE SInv'
    BY OutcomeSafe DEF SubmissionFails

\* Turns end, and no other input reaches them.
LEMMA CallSurvivesEnd ==
    ASSUME NEW e, NEW c, NEW th, NEW th2, CallFits(e, c), CallKnows(e, c, th), Len(th2) = Len(th),
           \A t \in 1..Len(th) : th2[t].inputs = th[t].inputs
    PROVE  CallKnows(e, c, th2)
<1>1. \A a, s : Ran(th2, a, s) <=> Ran(th, a, s)
    BY DEF Ran
<1> QED
    BY <1>1 DEF CallKnows

LEMMA TurnEndsSafe == ASSUME IInv, SInv, NEW t \in Turns, TurnEnds(t) PROVE SInv'
<1>1. /\ t \in 1..Len(turns) /\ turns' = [turns EXCEPT ![t].status = "ended"]
      /\ notes' = IF Connected THEN Append(notes, <<"completed", t>>) ELSE notes
      /\ UNCHANGED <<db, call, read, settle>>
    BY DEF TurnEnds, ActiveTurns
<1>2. /\ Len(turns) \in Nat /\ Fits(db, turns) /\ CallKnows(db, call, turns) /\ CallFits(db, call)
      /\ turns \in Seq(NativeTurns)
    BY TurnsBounded DEF SInv, Sound, World, IInv
<1>3. /\ Len(turns') = Len(turns)
      /\ \A u \in 1..Len(turns) : /\ turns'[u].inputs = turns[u].inputs
                                  /\ turns'[u].status = "active" => turns[u].status = "active"
    <2> DEFINE new == [turns[t] EXCEPT !.status = "ended"]
    <2>1. turns[t] \in NativeTurns
        BY <1>1, <1>2, ElementOfSeq
    <2>2. new \in NativeTurns /\ new.inputs = turns[t].inputs /\ new.status = "ended"
        BY <2>1 DEF NativeTurns
    <2>3. turns' = [turns EXCEPT ![t] = new]
        BY <1>1
    <2> HIDE DEF new
    <2>4. DOMAIN turns = 1..Len(turns)
        BY <1>2, LenProperties
    <2>5. Len(turns') = Len(turns) /\ turns'[t] = new /\ \A u \in 1..Len(turns) : u # t => turns'[u] = turns[u]
        BY <1>1, <1>2, <2>2, <2>3, <2>4, ExceptSeq
    <2> QED
        BY <2>2, <2>5
<1>4. Fits(db, turns') /\ CallKnows(db, call, turns')
    BY <1>2, <1>3, TurnsEndKeeps, CallSurvivesEnd
<1>5. NotesFit'
    <2> DEFINE n == Len(turns)
    <2>1. notes \in Seq({"started", "completed"} \X (1..n))
        BY <1>2, NotesOfThread
    <2>2. <<"completed", t>> \in {"started", "completed"} \X (1..n)
        BY <1>1
    <2>3. notes' \in Seq({"started", "completed"} \X (1..n))
        BY <1>1, <2>1, <2>2, AppendProperties
    <2> QED
        BY <1>3, <2>3, NotesElements DEF NotesFit
<1> QED
    BY <1>1, <1>2, <1>3, <1>4, <1>5, NativeSafe

-----------------------------------------------------------------------------
(* The connection and the process *)

\* The process ends with a fit database.
LEMMA DownSafe ==
    ASSUME IInv, SInv, NEW d1, Fits(d1, turns), NEW u, Down(d1, u) PROVE SInv'
<1>1. /\ db' = d1 /\ call' = NoCall /\ read' = NoRead /\ settle' = [t \in Turns |-> "idle"]
      /\ notes' = <<>> /\ turns' = Interrupted
    BY DEF Down
<1>2. Fits(d1, Interrupted)
    <2> HIDE DEF Interrupted
    <2>1. /\ Len(Interrupted) = Len(turns)
          /\ \A t \in 1..Len(turns) : /\ Interrupted[t].inputs = turns[t].inputs
                                      /\ Interrupted[t].status = "active" => turns[t].status = "active"
        BY InterruptedTurns
    <2> QED
        BY <2>1, TurnsEndKeeps
<1>3. CallKnows(d1, NoCall, Interrupted) /\ ReadWaits(NoCall, NoRead)
    BY DEF CallKnows, ReadWaits, NoCall, NoRead
<1>4. SettleKnows(d1, [t \in Turns |-> "idle"], Interrupted)
    BY DEF SettleKnows
<1>5. Sound(World)'
    BY <1>1, <1>2, <1>3, <1>4 DEF Sound, World
<1>6. RoundsFit' /\ NotesFit'
    BY <1>1 DEF RoundsFit, NotesFit, NoRead
<1> QED
    BY <1>5, <1>6 DEF SInv

LEMMA ThreadFit == ASSUME IInv, SInv PROVE Fits(db, turns) /\ Len(turns) \in Nat /\ db \in Databases
    BY TurnsBounded DEF SInv, Sound, World, IInv, TypeOK

LEMMA CrashSafe == ASSUME IInv, SInv, Crash PROVE SInv'
    BY ThreadFit, DownSafe DEF Crash

LEMMA PumpThrowsSafe == ASSUME IInv, SInv, PumpThrows PROVE SInv'
    BY ThreadFit, DownSafe DEF PumpThrows

LEMMA StopSafe == ASSUME IInv, SInv, Stop PROVE SInv' /\ Alike(db, db')
<1> DEFINE q == [a \in Attempts |->
                    IF db.att[a].state = "active" THEN [db.att[a] EXCEPT !.accepting = FALSE] ELSE db.att[a]]
           fenced == [db EXCEPT !.att = q]
           open == IF disp.cur = NoAttempt THEN {}
                   ELSE {s \in Members(db, disp.cur, {"start_submitting", "steer_submitting"}) :
                            CanMarkUncertain(db, disp.cur, s)}
           marked == IF open = {} THEN fenced ELSE MarkUncertain(fenced, disp.cur, Least(open))
           u == [used EXCEPT !.crashes = used.crashes + 1]
<1>1. Down(marked, u)
    BY DEF Stop
<1>2. Fits(db, turns) /\ Len(turns) \in Nat /\ db \in Databases
    BY ThreadFit
<1>3. fenced \in Databases /\ Alike(db, fenced) /\ fenced.mem = db.mem
    <2>1. /\ q \in [Attempts -> AttemptRows]
          /\ \A b \in Attempts : /\ q[b].turn = db.att[b].turn /\ q[b].state = db.att[b].state
                                 /\ q[b].primary = db.att[b].primary
                                 /\ q[b].accepting => db.att[b].accepting
        BY ZenonT(60), <1>2 DEF Databases, AttemptRows
    <2> HIDE DEF q
    <2>2. fenced \in Databases
        BY <1>2, <2>1 DEF Databases
    <2>3. fenced.src = db.src /\ fenced.mem = db.mem /\ fenced.out = db.out /\ fenced.att = q
        BY <1>2 DEF Databases
    <2> HIDE DEF fenced
    <2>4. Alike(db, fenced)
        BY <2>1, <2>3 DEF Alike
    <2> QED
        BY <2>2, <2>3, <2>4
<1> HIDE DEF fenced
<1>4. Alike(db, marked) /\ marked \in Databases
    <2>1. CASE open = {}
        BY <1>3, <2>1
    <2>2. CASE open # {}
        <3>1. open \in SUBSET Sources /\ open \in SUBSET Nat /\ disp.cur \in Attempts
            BY <2>2 DEF Members, Sources, IInv, TypeOK, Dispatchers
        <3>2. Least(open) \in open /\ Least(open) \in Sources
            BY <2>2, <3>1, LeastInSet
        <3>3. fenced.mem[disp.cur][Least(open)].state \in Unresolved
            BY <1>3, <2>2, <3>2 DEF Members, Unresolved
        <3> HIDE DEF open
        <3>4. Evolves(fenced, MarkUncertain(fenced, disp.cur, Least(open)))
              /\ Alike(fenced, MarkUncertain(fenced, disp.cur, Least(open)))
            BY <1>3, <3>1, <3>2, <3>3, MarkUncertainEvolves, MarkUncertainAlike
        <3> QED
            BY <1>3, <2>2, <3>4, AlikeTransitive DEF Evolves
    <2> QED
        BY <2>1, <2>2
<1> HIDE DEF marked, u
<1>5. Fits(marked, turns)
    BY <1>2, <1>4, AlikeKeeps
<1>6. db' = marked
    BY <1>1 DEF Down
<1> QED
    BY <1>1, <1>4, <1>5, <1>6, DownSafe

LEMMA BootSafe == ASSUME IInv, SInv, Boot PROVE SInv'
<1>1. Becomes(Recover(World)) /\ UNCHANGED <<turns, notes>>
    BY DEF Boot
<1>2. CASE read.stage # "attempts"
    BY <1>1, <1>2, WorldGood, RecoverGood, SCarry
<1>3. CASE read.stage = "attempts"
    <2>1. /\ Fits(db, turns) /\ call.kind = "none" /\ read.kind # "none" /\ SettleKnows(db, settle, turns)
        BY <1>3, RoundsFacts
    <2> DEFINE x == [[disp EXCEPT !.published = {}, !.ready = FALSE, !.timer = FALSE] EXCEPT !.paused = FALSE]
               w == [World EXCEPT !.d = x]
               r == [NoRead EXCEPT !.kind = "recover", !.att = NoAttempt, !.src = NoSource, !.stage = "waiting"]
    <2>2. Recover(World) = LaunchRead(w, "recover", NoAttempt, NoSource)
        BY <2>1 DEF Recover, World
    <2> HIDE DEF x
    <2>3. NewGeneration(w).db = db /\ NewGeneration(w).call = call /\ NewGeneration(w).settle = settle
          /\ [NewGeneration(w) EXCEPT !.read = r].db = db /\ [NewGeneration(w) EXCEPT !.read = r].call = call
          /\ [NewGeneration(w) EXCEPT !.read = r].settle = settle /\ [NewGeneration(w) EXCEPT !.read = r].read = r
        BY <2>1 DEF NewGeneration, World
    <2>4. db' = db /\ call' = call /\ settle' = settle /\ read' = r
        BY <1>1, <2>2, <2>3 DEF LaunchRead, Becomes
    <2>5. r.kind = "recover" /\ r.stage = "waiting" /\ r.attempts = {}
        BY DEF NoRead
    <2> HIDE DEF r
    <2>6. Sound(World)'
        BY <1>1, <2>1, <2>4, <2>5 DEF Sound, World, CallKnows, ReadWaits
    <2>7. RoundsFit' /\ NotesFit'
        BY <1>1, <2>4, <2>5 DEF RoundsFit, NotesFit, SInv
    <2> QED
        BY <2>6, <2>7 DEF SInv
<1> QED
    BY <1>2, <1>3

LEMMA ReconnectSafe == ASSUME IInv, SInv, Reconnect PROVE SInv'
    BY WorldGood, RecoverGood, SCarry DEF Reconnect, Serial, Between

\* A handler's world becomes the state while the turns end.
LEMMA InterruptedSafe ==
    ASSUME IInv, SInv, NEW v, Good(v), Becomes(v), turns' = Interrupted, notes' = <<>>
    PROVE  SInv'
<1>1. /\ db' = v.db /\ call' = v.call /\ read' = v.read /\ settle' = v.settle
    BY DEF Becomes
<1>2. /\ Len(Interrupted) = Len(turns)
      /\ \A t \in 1..Len(turns) : /\ Interrupted[t].inputs = turns[t].inputs
                                  /\ Interrupted[t].status = "active" => turns[t].status = "active"
    BY InterruptedTurns
<1>3. /\ Fits(v.db, turns) /\ CallKnows(v.db, v.call, turns) /\ CallFits(v.db, v.call)
      /\ ReadWaits(v.call, v.read) /\ SettleKnows(v.db, v.settle, turns) /\ Calm(v.read)
    BY DEF Good, OK, Sound
<1> HIDE DEF Interrupted
<1>4. Fits(v.db, Interrupted) /\ CallKnows(v.db, v.call, Interrupted)
    BY <1>2, <1>3, TurnsEndKeeps, CallSurvivesEnd
<1>5. SettleKnows(v.db, v.settle, Interrupted)
    BY <1>2, <1>3 DEF SettleKnows
<1>6. Sound(World)'
    BY <1>1, <1>3, <1>4, <1>5 DEF Sound, World
<1>7. RoundsFit' /\ NotesFit'
    BY <1>1, <1>3 DEF RoundsFit, NotesFit, Calm
<1> QED
    BY <1>6, <1>7 DEF SInv

LEMMA LinkLostSafe == ASSUME IInv, SInv, LinkLost PROVE SInv'
<1> DEFINE l == [used EXCEPT !.losses = used.losses + 1]
           v == [World EXCEPT !.used = l]
           w == Unavailable(v)
           failed == [w.call EXCEPT !.stage = "error"]
           x == [w EXCEPT !.call = failed]
<1>1. /\ used.losses < MaxLosses /\ notes' = <<>> /\ turns' = Interrupted /\ read.stage # "attempts"
      /\ v = [World EXCEPT !.used.losses = @ + 1]
      /\ \E lost \in BOOLEAN :
            Becomes([w EXCEPT !.call.stage = IF @ = "sent" \/ (lost /\ @ = "ok") THEN "error" ELSE @])
    <2>1. v = [World EXCEPT !.used.losses = @ + 1]
        BY WorldOK
    <2> QED
        BY <2>1 DEF LinkLost, Serial, Between
<1>2. l \in Budgets
    BY <1>1, LossSpent DEF IInv, TypeOK
<1> HIDE DEF l
<1>3. Good(World) /\ World.db = db /\ World.call = call /\ World.read = read /\ World.settle = settle
    BY <1>1, WorldGood
<1>4. v \in Worlds /\ v.db = db /\ v.call = call /\ v.read = read /\ v.settle = settle
    BY <1>2, WorldOK DEF OK, Worlds
<1> HIDE DEF v
<1>5. OK(v)
    BY <1>3, <1>4 DEF Good, OK
<1>6. Good(v)
    BY <1>3, <1>4, <1>5, GoodShift
<1>7. Good(w)
    BY <1>6, UnavailableGood
<1> HIDE DEF w
<1>8. w \in Worlds /\ w.call \in Calls /\ CallFits(w.db, w.call) /\ OK(w) /\ ReadFits(w.read)
      /\ CallKnows(w.db, w.call, turns)
    BY <1>7 DEF Good, OK, Sound, Worlds
<1>9. Becomes(w) \/ (w.call.stage \in {"sent", "ok"} /\ Becomes(x))
    <2>1. PICK lost \in BOOLEAN :
            Becomes([w EXCEPT !.call.stage = IF @ = "sent" \/ (lost /\ @ = "ok") THEN "error" ELSE @])
        BY <1>1
    <2> DEFINE dead == w.call.stage = "sent" \/ (lost /\ w.call.stage = "ok")
    <2>2. CASE dead
        <3>1. x = [w EXCEPT !.call.stage = IF @ = "sent" \/ (lost /\ @ = "ok") THEN "error" ELSE @]
            BY <2>2
        <3> QED
            BY <2>1, <2>2, <3>1
    <2>3. CASE ~dead
        <3>1. w = [w EXCEPT !.call.stage = IF @ = "sent" \/ (lost /\ @ = "ok") THEN "error" ELSE @]
            BY <1>8, <2>3 DEF Worlds, Calls
        <3> QED
            BY <2>1, <3>1
    <2> QED
        BY <2>2, <2>3
<1>10. ASSUME w.call.stage \in {"sent", "ok"} PROVE Good(x)
    <2>1. failed \in Calls
        BY <1>8 DEF Calls
    <2>2. /\ failed.kind = w.call.kind /\ failed.stage = "error" /\ failed.att = w.call.att
          /\ failed.src = w.call.src /\ failed.turn = w.call.turn
        BY <1>8 DEF Calls
    <2>3. CallFits(w.db, failed)
        BY <1>8, <1>10, <2>1, <2>2 DEF CallFits
    <2>4. CallKnows(w.db, failed, turns)
        BY <1>8, <2>2 DEF CallKnows
    <2> HIDE DEF failed
    <2>5. x \in Worlds /\ x.db = w.db /\ x.call = failed /\ x.read = w.read /\ x.settle = w.settle
        BY <1>8, <2>1 DEF Worlds
    <2> HIDE DEF x
    <2>6. OK(x)
        BY <1>8, <2>3, <2>5 DEF OK
    <2>7. ReadWaits(x.call, x.read)
        BY <1>7, <2>2, <2>5 DEF Good, Sound, ReadWaits
    <2> QED
        BY <1>7, <2>4, <2>5, <2>6, <2>7 DEF Good, Sound
<1> HIDE DEF x
<1> QED
    BY <1>1, <1>7, <1>9, <1>10, InterruptedSafe

LEMMA OpenedSafe == ASSUME IInv, SInv, Opened PROVE SInv'
<1> DEFINE x == [disp EXCEPT !.paused = FALSE]
<1>1. read.stage # "attempts"
    BY DEF Opened, Serial, Between
<1>2. \/ (\E v \in Pump([World EXCEPT !.d = x]) : Becomes(v)) /\ UNCHANGED <<turns, notes>>
      \/ Down(db, used)
      \/ Becomes(Unavailable(World)) /\ UNCHANGED <<turns, notes>>
    BY DEF Opened, World
<1>3. x \in OpenDispatchers
    BY WorldOK DEF OK, Worlds, OpenDispatchers
<1>4. CASE Down(db, used)
    BY <1>4, ThreadFit, DownSafe
<1>5. CASE Becomes(Unavailable(World)) /\ UNCHANGED <<turns, notes>>
    BY <1>1, <1>5, WorldGood, UnavailableGood, SCarry
<1>6. CASE (\E v \in Pump([World EXCEPT !.d = x]) : Becomes(v)) /\ UNCHANGED <<turns, notes>>
    BY <1>1, <1>3, <1>6, PumpedSafe
<1> QED
    BY <1>2, <1>4, <1>5, <1>6

-----------------------------------------------------------------------------
(* The inductive invariant *)

LEMMA InitSafe == Init => SInv
<1> SUFFICES ASSUME Init PROVE SInv
    OBVIOUS
<1>1. /\ db = EmptyDatabase /\ call = NoCall /\ read = NoRead /\ settle = [t \in Turns |-> "idle"]
      /\ turns = <<>> /\ notes = <<>> /\ Len(turns) = 0 /\ Len(notes) = 0
    BY DEF Init
<1>2. /\ \A s \in Sources : db.src[s].state = "absent"
      /\ \A a \in Attempts : db.att[a].state = "absent" /\ db.att[a].turn = NoTurn
      /\ \A a \in Attempts, s \in Sources : db.mem[a][s].state = "none" /\ ~db.mem[a][s].observed
      /\ db.out = {}
    BY <1>1 DEF EmptyDatabase, NoMember
<1>3. MembersFit(db)
    BY <1>2 DEF MembersFit, MemberFits, IsActive, IsStart, Unresolved
<1>4. SourcesFit(db)
    BY <1>2 DEF SourcesFit, LiveIn, CompletedIn, Working, Live, Unresolved, IsActive
<1>5. ThreadFits(db, turns) /\ RunsFit(db, turns)
    BY <1>1, <1>2 DEF ThreadFits, RunsFit, Ran
<1>6. BudgetFits(db) /\ WarningsFit(db) /\ AttemptsFit(db)
    BY <1>2 DEF BudgetFits, Waiting, WarningsFit, SourceWarned, AttemptWarned, AttemptsFit
<1>7. Fits(db, turns)
    BY <1>3, <1>4, <1>5, <1>6 DEF Fits
<1>8. CallKnows(db, call, turns) /\ ReadWaits(call, read) /\ SettleKnows(db, settle, turns)
    BY <1>1 DEF CallKnows, ReadWaits, SettleKnows, NoCall, NoRead
<1>9. RoundsFit /\ NotesFit
    BY <1>1 DEF RoundsFit, NotesFit, NoRead
<1> QED
    BY <1>7, <1>8, <1>9 DEF SInv, Sound, World

LEMMA StutterSafe == ASSUME SInv, UNCHANGED vars PROVE SInv'
<1>1. Sound(World)'
    BY DEF vars, SInv, Sound, World
<1> QED
    BY <1>1 DEF vars, SInv, RoundsFit, NotesFit

LEMMA InductiveSafe == ASSUME IInv, SInv, [Next]_vars PROVE SInv'
<1>1. CASE UNCHANGED vars
    BY <1>1, StutterSafe
<1>2. CASE Handlers
    <2>1. CASE \E s \in Sources, c \in Conversations : Accept(s, c)
        BY <2>1, AcceptSafe
    <2>2. CASE EnqueueInternal \/ PostedPump \/ PumpThrows \/ AdmissionAnswered \/ AdmissionRetry
        BY <2>2, EnqueueInternalSafe, PostedPumpSafe, PumpThrowsSafe, AdmissionAnsweredSafe,
           AdmissionRetrySafe
    <2>3. CASE RecoveryTimer \/ SubmissionAnswered \/ StaleReadReturns
        BY <2>3, RecoveryTimerSafe, SubmissionAnsweredSafe, StaleReadReturnsSafe
    <2>4. CASE \E view \in Views : FailureReadReturns(view) \/ RecoveryReadReturns(view)
        BY <2>4, FailureReadReturnsSafe, RecoveryReadReturnsSafe
    <2>5. CASE \E d \in Decisions : RecoverMember(d) \/ RecoverAttempt(d)
        BY <2>5, RecoverMemberSafe, RecoverAttemptSafe
    <2>6. CASE RecoverMembersDone \/ RecoverTurns \/ StartedDelivered \/ CompletedDelivered
        BY <2>6, RecoverMembersDoneSafe, RecoverTurnsSafe, StartedDeliveredSafe,
           CompletedDeliveredSafe
    <2>7. CASE \E t \in Turns : PublishedTerminal(t) \/ SubmissionsSettled(t) \/ Finish(t)
                                \/ Drained(t) \/ ProcessingFails(t)
        BY <2>7, PublishedTerminalSafe, SubmissionsSettledSafe, FinishSafe, DrainedSafe,
           ProcessingFailsSafe
    <2> QED
        BY <1>2, <2>1, <2>2, <2>3, <2>4, <2>5, <2>6, <2>7 DEF Handlers
<1>3. CASE Native
    BY <1>3, ApplyStartSafe, ApplySteerSafe, SteerRejectedSafe, SubmissionFailsSafe, TurnEndsSafe
    DEF Native
<1>4. CASE Lifecycle
    BY <1>4, CrashSafe, StopSafe, BootSafe, LinkLostSafe, ReconnectSafe, OpenedSafe DEF Lifecycle
<1> QED
    BY <1>1, <1>2, <1>3, <1>4 DEF Next

\* The three tables stay fit for each other and for the native thread, whatever
\* transaction of the store (conversation-store.ts) ran last and wherever the
\* process stopped; what the dispatcher still has under way stays true of them.
THEOREM TablesAgree == Spec => [](IInv /\ SInv)
<1>1. Init => IInv /\ SInv
    BY InitIInv, InitSafe
<1>2. IInv /\ SInv /\ [Next]_vars => (IInv /\ SInv)'
    BY Inductive, InductiveSafe DEF Step
<1> QED
    BY <1>1, <1>2, PTL DEF Spec

-----------------------------------------------------------------------------
(* What the invariant says *)

LEMMA AccountingFollows == ASSUME IInv, SInv PROVE SourceAccounting
<1>1. SUFFICES ASSUME NEW s \in Sources
               PROVE  LET live == {a \in Attempts : db.mem[a][s].state \in Live}
                      IN  /\ Cardinality(live) <= 1
                          /\ db.src[s].state = "active" <=> live # {}
    BY DEF SourceAccounting
<1> DEFINE live == {a \in Attempts : db.mem[a][s].state \in Live}
<1>2. SourcesFit(db)
    BY DEF SInv, Sound, World, Fits
<1>3. \A a, b \in live : a = b
    BY <1>2 DEF SourcesFit, Working, LiveIn
<1>4. db.src[s].state = "active" <=> live # {}
    BY <1>2 DEF SourcesFit, LiveIn
<1> HIDE DEF live
<1>5. Cardinality(live) <= 1
    <2>1. CASE live = {}
        BY <2>1, FS_EmptySet
    <2>2. CASE live # {}
        <3>1. PICK a : a \in live
            BY <2>2
        <3>2. live = {a}
            BY <1>3, <3>1
        <3>3. Cardinality({a}) = 1
            BY FS_Singleton
        <3> QED
            BY <3>2, <3>3
    <2> QED
        BY <2>1, <2>2
<1> QED
    BY <1>4, <1>5 DEF live

LEMMA IdentityFollows == ASSUME IInv, SInv PROVE TurnIdentity
<1>1. SUFFICES ASSUME NEW a \in Attempts, db.att[a].turn # NoTurn
               PROVE  /\ db.att[a].turn <= Len(turns)
                      /\ <<a, db.att[a].primary>> \in turns[db.att[a].turn].inputs
                      /\ \A b \in Attempts \ {a} : db.att[b].turn # db.att[a].turn
    BY DEF TurnIdentity
<1>2. Fits(db, turns) /\ Len(turns) \in Nat /\ db \in Databases
    BY ThreadFit
<1>3. db.att[a].turn \in 1..Len(turns) /\ <<a, db.att[a].primary>> \in turns[db.att[a].turn].inputs
    BY <1>1, <1>2 DEF Fits, ThreadFits
<1>4. \A b \in Attempts \ {a} : db.att[b].turn # db.att[a].turn
    BY <1>1, <1>2, OneAttempt
<1> QED
    BY <1>2, <1>3, <1>4

LEMMA SubmissionsOfTurns ==
    ASSUME IInv, NEW t \in 1..Len(turns) PROVE turns[t].inputs \subseteq Attempts \X Sources
<1>1. turns[t] \in NativeTurns
    BY TurnsBounded, ElementOfSeq
<1> QED
    BY <1>1 DEF NativeTurns, Submissions

LEMMA IsolationFollows == ASSUME IInv, SInv PROVE ConversationIsolation
<1>1. SUFFICES ASSUME NEW t \in 1..Len(turns), NEW m \in turns[t].inputs, NEW n \in turns[t].inputs
               PROVE  m = n \/ SameConversation(db, m[2], n[2])
    BY DEF ConversationIsolation
<1>2. ThreadFits(db, turns)
    BY ThreadFit DEF Fits
<1>3. PICK a \in Attempts, s \in Sources : m = <<a, s>>
    BY SubmissionsOfTurns
<1>4. PICK b \in Attempts, z \in Sources : n = <<b, z>>
    BY SubmissionsOfTurns
<1>5. a = b /\ (s = z \/ SameConversation(db, s, z))
    BY <1>2, <1>3, <1>4 DEF ThreadFits
<1> QED
    BY <1>3, <1>4, <1>5

LEMMA BudgetFollows == ASSUME IInv, SInv PROVE RetryBudget
    BY ThreadFit DEF RetryBudget, Fits, BudgetFits, Waiting

LEMMA OnceFollows == ASSUME IInv, SInv PROVE NoDoubleExecution
<1>1. RunsFit(db, turns)
    BY ThreadFit DEF Fits
<1>2. SUFFICES ASSUME NEW s \in Sources, NEW a \in Attempts, NEW b \in Attempts,
                      a < b, Ran(turns, a, s), Ran(turns, b, s)
               PROVE  Spoilt(db, a, s)
    BY DEF NoDoubleExecution, Ran, Spoilt
<1>3. b \in Attempts \ {a}
    BY <1>2, BoundsAssumption DEF Attempts
<1> QED
    BY <1>1, <1>2, <1>3 DEF RunsFit

LEMMA WarnedFollows == ASSUME IInv, SInv PROVE WarnedIsOver
<1>1. SUFFICES ASSUME NEW s \in Sources, Warned(s) PROVE db.src[s].state \in {"completed", "superseded"}
    BY DEF WarnedIsOver
<1>2. WarningsFit(db)
    BY ThreadFit DEF Fits
<1>3. Over(db, s)
    BY <1>1, <1>2 DEF Warned, WarningsFit, SourceWarned, AttemptWarned
<1> QED
    BY <1>3 DEF Over

\* The source row and the submission rows, which reserve, restorePending, the
\* reconciliation of recover and the terminal transactions each write in part,
\* agree: a source is active exactly while one live submission of it exists.
THEOREM AccountingHolds == Spec => []SourceAccounting
    BY TablesAgree, AccountingFollows, PTL

\* The turn that confirmStart binds, from an answer, a notification or the
\* history, carries the attempt's first input, and no two attempts share one.
THEOREM IdentityHolds == Spec => []TurnIdentity
    BY TablesAgree, IdentityFollows, PTL

\* reserveNextSteer never sends a message of one conversation into a turn of
\* another, whatever waits in the queue and however the turn was found again.
THEOREM IsolationHolds == Spec => []ConversationIsolation
    BY TablesAgree, IsolationFollows, PTL

\* failedAttempts keeps every source that waits or runs below
\* maxEffectFreeAttempts observed failures, through restarts and recoveries.
THEOREM BudgetHolds == Spec => []RetryBudget
    BY TablesAgree, BudgetFollows, PTL

\* restorePending, the reconciliation of an uncertain submission and a restart
\* never send a message to a second native turn unless the first was observed
\* to carry it and has failed.
THEOREM RunsOnceHolds == Spec => []NoDoubleExecution
    BY TablesAgree, OnceFollows, PTL

\* After markNeedsAttention, markTerminalNeedsAttention or failAttemptGroup has
\* warned the owner, no recovery, terminal or retry runs the message again.
THEOREM WarnedHolds == Spec => []WarnedIsOver
    BY TablesAgree, WarnedFollows, PTL

-----------------------------------------------------------------------------
(***************************************************************************)
(* The refinement of SourceQueue: what each handler does to the stages.    *)
(***************************************************************************)

Heard(w) == Good(w) /\ Told(w.db)

\* A step that starts no source, and one that may start a source at its end.
Follows(w, v) == Heard(v) /\ Calms(w.db, v.db)
Proceeds(w, v) == Good(v) /\ Advances(w.db, v.db)

LEMMA HeardFacts ==
    ASSUME NEW w, Heard(w)
    PROVE  /\ Good(w) /\ w \in Worlds /\ w.db \in Databases /\ Told(w.db) /\ Fits(w.db, turns)
           /\ Len(turns) \in Nat /\ Len(turns) <= MaxAttempts
    BY ThreadLength DEF Heard, Good, OK, Worlds, Sound

LEMMA FollowsReflexive == ASSUME NEW w, Heard(w) PROVE Follows(w, w)
    BY CalmsReflexive DEF Follows

LEMMA FollowsTransitive ==
    ASSUME NEW w, NEW v, NEW u, Follows(w, v), Follows(v, u) PROVE Follows(w, u)
    BY CalmsTransitive DEF Follows

LEMMA FollowsProceeds == ASSUME NEW w, NEW v, Follows(w, v) PROVE Proceeds(w, v)
    BY DEF Follows, Heard, Proceeds, Advances

LEMMA ProceedsAfter ==
    ASSUME NEW w, NEW v, NEW u, Follows(w, v), Proceeds(v, u) PROVE Proceeds(w, u)
    BY AdvancesAfter DEF Follows, Proceeds

LEMMA SameFollows == ASSUME NEW w, Heard(w), NEW v, Good(v), v.db = w.db PROVE Follows(w, v)
    BY CalmsReflexive DEF Follows, Heard

LEMMA MovesFollow ==
    ASSUME NEW w, NEW v, Good(v), Told(v.db), Calms(w.db, v.db) PROVE Follows(w, v)
    BY DEF Follows, Heard

LEMMA AlikeFollows == ASSUME NEW w, Heard(w), NEW v, Good(v), Alike(w.db, v.db) PROVE Follows(w, v)
<1>1. w.db \in Databases /\ v.db \in Databases /\ Len(turns) \in Nat /\ Fits(w.db, turns) /\ Told(w.db)
    BY HeardFacts DEF Good, OK, Worlds
<1>2. Told(v.db) /\ Calms(w.db, v.db)
    BY <1>1, AlikeMoves
<1> QED
    BY <1>2, MovesFollow

LEMMA DispatcherFollows ==
    ASSUME NEW w, Heard(w), NEW x \in OpenDispatchers
    PROVE  Follows(w, [w EXCEPT !.d = x])
<1> DEFINE v == [w EXCEPT !.d = x]
<1>1. Good(v)
    BY DispatcherGood DEF Heard
<1>2. v.db = w.db
    BY HeardFacts DEF Worlds
<1> HIDE DEF v
<1>3. Follows(w, v)
    BY <1>1, <1>2, SameFollows
<1> QED
    BY <1>3 DEF v

LEMMA PublishFollows ==
    ASSUME NEW w, Heard(w), NEW t \in 1..Len(turns) PROVE Follows(w, Publish(w, t))
<1>1. Good(w) /\ t \in Turns
    BY HeardFacts, TurnInThread DEF Good
<1>2. Good(Publish(w, t)) /\ Publish(w, t).db = w.db
    BY <1>1, PublishGood
<1> QED
    BY <1>2, SameFollows

LEMMA PublishFreeFollows ==
    ASSUME NEW w, Heard(w), NEW t \in 1..Len(turns)
    PROVE  Follows(w, Free(w)) /\ Follows(w, Publish(Free(w), t))
<1>1. Follows(w, Free(w))
    BY HeardFacts, FreeGood, SameFollows
<1>2. Follows(Free(w), Publish(Free(w), t))
    BY <1>1, PublishFollows DEF Follows
<1> QED
    BY <1>1, <1>2, FollowsTransitive

\* pump

LEMMA LaunchStartProceeds ==
    ASSUME NEW w, Heard(w), w.call.kind = "none", w.read.kind = "none",
           NEW a \in NextAttempt(w.db), NEW s \in Sources, w.db.src[s].state = "pending",
           \A z \in Pending(w.db) : z < s => ~SameConversation(w.db, s, z),
           NEW v \in LaunchStart(w, a, s)
    PROVE  Proceeds(w, v)
<1> DEFINE e == Launch(w.db, a, s)
<1>1. Good(v)
    BY LaunchStartGood, HeardFacts
<1>2. /\ a \in Attempts /\ w.db.att[a].state = "absent" /\ w.db.att[a].turn = NoTurn
      /\ \A c \in Attempts : c < a => w.db.att[c].state # "absent"
    BY HeardFacts DEF NextAttempt, Good, OK, FreeRows, Attempts
<1>3. Advances(w.db, e)
    BY <1>2, HeardFacts, LaunchMoves
<1>4. v.db = e
    <2> DEFINE x == [w.d EXCEPT !.cur = a, !.busy = TRUE, !.admission = "none"]
               c == NewCall("start", a, s, NoTurn)
               sent == [w EXCEPT !.db = e, !.d = x, !.call = c]
               c2 == [c EXCEPT !.stage = "unsaved"]
               u == [w.used EXCEPT !.errors = w.used.errors + 1]
               unsaved == [w EXCEPT !.db = e, !.d = x, !.call = c2, !.used = u]
    <2>1. v = sent \/ v = unsaved
        BY ZenonT(60) DEF LaunchStart, Launch, x, c, e
    <2> HIDE DEF e, c, x, c2, u
    <2>2. w \in Worlds
        BY HeardFacts
    <2>3. sent.db = e /\ unsaved.db = e
        BY <2>2 DEF Worlds
    <2> QED
        BY <2>1, <2>3
<1> HIDE DEF e
<1> QED
    BY <1>1, <1>3, <1>4 DEF Proceeds

LEMMA LeastPending ==
    ASSUME NEW d, NEW s \in Pending(d), s = Least(Pending(d)) PROVE \A z \in Pending(d) : s <= z
<1> DEFINE P == Pending(d)
<1>1. P \in SUBSET Sources /\ P # {}
    BY DEF Pending
<1>2. P \in SUBSET Nat
    BY <1>1, BoundsAssumption DEF Sources
<1> HIDE DEF P
<1>3. \A z \in P : Least(P) <= z
    BY <1>1, <1>2, LeastInSet DEF Sources
<1> QED
    BY <1>3 DEF P

\* The candidate is the oldest of its conversation.
LEMMA CandidateFollows ==
    ASSUME NEW w, Heard(w), w.call.kind = "none", NEW s \in Candidates(w)
    PROVE  /\ s \in Sources /\ Follows(w, WithCandidate(w, s))
           /\ WithCandidate(w, s).call = w.call /\ WithCandidate(w, s).read = w.read
           /\ WithCandidate(w, s).db.att = w.db.att
           /\ WithCandidate(w, s).db.src[s].state = "pending"
           /\ \A z \in Pending(WithCandidate(w, s).db) : z < s => ~SameConversation(WithCandidate(w, s).db, s, z)
<1>0. Good(w) /\ w \in Worlds /\ w.db \in Databases
    BY HeardFacts
<1>1. s \in Sources /\ w.db.src[s].state \in {"absent", "pending"}
    BY DEF Candidates, Pending, NextSource
<1>2. CASE w.db.src[s].state = "absent"
    <2> DEFINE e == InsertSource(w.db, s, Internal)
               u == [w.used EXCEPT !.events = w.used.events + 1]
               x == [w EXCEPT !.db = e, !.used = u]
    <2>1. w.used.events < MaxEvents
        BY <1>2, RunBoundsAssumption DEF Candidates, Pending
    <2>2. u \in Budgets
        BY <2>1, RunBoundsAssumption DEF Heard, Good, OK, Worlds, Budgets
    <2>3. Evolves(w.db, e) /\ e.att = w.db.att /\ e.src[s].state = "pending" /\ e.src[s].conv = Internal
        BY <1>0, <1>1, InsertSourceEvolves DEF InsertSource, Databases
    <2>4. Fits(e, turns) /\ Later(w.db, e)
        BY <1>0, <1>1, <1>2, HeardFacts, InsertSourceKeeps
    <2>5. Told(e) /\ Calms(w.db, e)
        BY <1>0, <1>1, <1>2, HeardFacts, InsertSourceMoves
    <2>6. \A z \in Sources : ~SameConversation(e, s, z)
        BY <2>3, InternalIsNoConversation DEF SameConversation, Chat
    <2> HIDE DEF e, u
    <2>7. x \in Worlds /\ x.db = e /\ x.call = w.call /\ x.read = w.read /\ x.settle = w.settle
        BY <1>0, <2>2, <2>3 DEF Worlds, Evolves
    <2> HIDE DEF x
    <2>8. OK(x)
        BY <1>0, <2>3, <2>7, WorldStep DEF Good, OK, Handles
    <2>9. Good(x)
        BY <1>0, <2>4, <2>7, <2>8, GoodDatabase
    <2>10. WithCandidate(w, s) = x
        BY <1>2 DEF WithCandidate, e, u, x
    <2>11. Follows(w, x)
        BY <2>5, <2>7, <2>9, MovesFollow
    <2> QED
        BY <1>1, <2>3, <2>6, <2>7, <2>10, <2>11 DEF Pending
<1>3. CASE w.db.src[s].state = "pending"
    <2>1. WithCandidate(w, s) = w
        BY <1>3 DEF WithCandidate
    <2>2. s \in Pending(w.db) /\ s = Least(Pending(w.db))
        BY <1>3 DEF Candidates, NextSource, Pending
    <2>3. \A z \in Pending(w.db) : s <= z
        BY <2>2, LeastPending
    <2>4. \A z \in Pending(w.db) : z \in Int /\ s \in Int
        BY <1>1, BoundsAssumption DEF Pending, Sources
    <2> QED
        BY <1>1, <1>3, <2>1, <2>3, <2>4, FollowsReflexive
<1> QED
    BY <1>1, <1>2, <1>3

LEMMA StartNextProceeds ==
    ASSUME NEW w, Heard(w), w.call.kind = "none", w.read.kind = "none", NEW v \in StartNext(w)
    PROVE  Proceeds(w, v)
<1>1. ASSUME NEW s \in Candidates(w), NEW a \in NextAttempt(w.db),
             NEW x \in LaunchStart(WithCandidate(w, s), a, s)
      PROVE  Proceeds(w, x)
    <2> DEFINE y == WithCandidate(w, s)
    <2>1. /\ s \in Sources /\ Follows(w, y) /\ y.call = w.call /\ y.read = w.read /\ y.db.att = w.db.att
          /\ y.db.src[s].state = "pending"
          /\ \A z \in Pending(y.db) : z < s => ~SameConversation(y.db, s, z)
        BY CandidateFollows
    <2> HIDE DEF y
    <2>2. a \in NextAttempt(y.db) /\ Heard(y) /\ x \in LaunchStart(y, a, s)
        BY <2>1 DEF NextAttempt, Follows, y
    <2>3. Proceeds(y, x)
        BY <2>1, <2>2, LaunchStartProceeds
    <2> QED
        BY <2>1, <2>3, ProceedsAfter
<1>2. Follows(w, [w EXCEPT !.d.admission = "asking"])
    <2>1. [w.d EXCEPT !.admission = "asking"] \in OpenDispatchers
        BY DEF Heard, Good, OK, Worlds, OpenDispatchers
    <2> QED
        BY <2>1, DispatcherFollows
<1>3. \/ v = w \/ v = [w EXCEPT !.d.admission = "asking"]
      \/ \E s \in Candidates(w), a \in NextAttempt(w.db) : v \in LaunchStart(WithCandidate(w, s), a, s)
    BY DEF StartNext
<1> QED
    BY <1>1, <1>2, <1>3, FollowsReflexive, FollowsProceeds

\* The source that is steered in is the oldest of the attempt's conversation.
LEMMA SteerNextProceeds ==
    ASSUME NEW w, Heard(w), w.call.kind = "none", w.read.kind = "none", NEW v \in SteerNext(w)
    PROVE  Proceeds(w, v)
<1> DEFINE a == w.d.cur
           x(s) == [w EXCEPT !.db = Reserve(w.db, a, s, "steer_submitting"),
                             !.call = NewCall("steer", a, s, w.db.att[a].turn)]
<1>1. Good(v)
    BY SteerNextGood, HeardFacts
<1>2. v = w \/ (CanSteer(w) /\ ~PrimaryKeyConflict(w) /\ \E s \in NextSteer(w.db, a) : v = x(s))
    BY DEF SteerNext
<1>3. ASSUME NEW s \in NextSteer(w.db, a), CanSteer(w), ~PrimaryKeyConflict(w), v = x(s) PROVE Proceeds(w, v)
    <2> DEFINE e == Reserve(w.db, a, s, "steer_submitting")
    <2>1. /\ a \in Attempts /\ s \in Sources /\ w.db.att[a].turn \in Turns /\ w.db.att[a].turn # NoTurn
          /\ IsActive(w.db, a) /\ w.db.att[a].accepting /\ w.db.src[s].state = "pending"
          /\ SameConversation(w.db, w.db.att[a].primary, s)
          /\ w.db.mem[a][s].state = "none"
        BY <1>3 DEF CanSteer, PrimaryKeyConflict, NextSteer, Pending, IsActive, Heard, Good, OK, Worlds,
                    OpenDispatchers, Databases, AttemptRows, Turns, Attempts, NoTurn
    <2>2. \A z \in Pending(w.db) : SameConversation(w.db, w.db.att[a].primary, z) => s <= z
        <3>1. SUFFICES ASSUME NEW z \in Pending(w.db), SameConversation(w.db, w.db.att[a].primary, z)
                       PROVE  s <= z
            OBVIOUS
        <3>2. \A b \in Attempts : w.db.mem[b][z].state \notin Live
            BY <3>1, HeardFacts DEF Fits, SourcesFit, LiveIn, Pending
        <3> QED
            BY <1>3, <3>1, <3>2 DEF NextSteer
    <2> HIDE DEF a
    <2>3. \A z \in Pending(w.db) : z < s => ~SameConversation(w.db, s, z)
        <3>1. \A z \in Pending(w.db) : z \in Int /\ s \in Int
            BY <2>1, BoundsAssumption DEF Pending, Sources
        <3>2. \A z \in Pending(w.db) : SameConversation(w.db, s, z) => SameConversation(w.db, w.db.att[a].primary, z)
            BY <2>1 DEF SameConversation, Chat
        <3> QED
            BY <2>2, <3>1, <3>2
    <2>4. Advances(w.db, e)
        BY <2>1, <2>3, HeardFacts, SteerMoves
    <2> HIDE DEF e
    <2>5. v.db = e
        BY <1>3, HeardFacts DEF Worlds, e, x
    <2> QED
        BY <1>1, <2>4, <2>5 DEF Proceeds
<1> QED
    BY <1>2, <1>3, FollowsReflexive, FollowsProceeds

LEMMA PumpProceeds == ASSUME NEW w, Heard(w), NEW v \in Pump(w) PROVE Proceeds(w, v)
<1>1. CASE PumpBlocked(w)
    BY <1>1, FollowsReflexive, FollowsProceeds DEF Pump
<1>2. CASE ~PumpBlocked(w)
    <2>1. w.call.kind = "none" /\ w.read.kind = "none"
        BY <1>2 DEF PumpBlocked, Outstanding, Heard, Good, OK, Worlds, OpenDispatchers
    <2> QED
        BY <1>2, <2>1, StartNextProceeds, SteerNextProceeds DEF Pump
<1> QED
    BY <1>1, <1>2

\* The notifications

LEMMA PauseIdentityConflictFollows ==
    ASSUME NEW w, Heard(w), NEW a \in Attempts PROVE Follows(w, PauseIdentityConflict(w, a))
    BY HeardFacts, PauseIdentityConflictGood, AlikeFollows

LEMMA EarlyFollows ==
    ASSUME NEW w, Heard(w), NEW T \in SUBSET Turns PROVE Follows(w, [w EXCEPT !.call.early = T])
    BY HeardFacts, EarlyGood, SameFollows

LEMMA NotePresenceFollows == ASSUME NEW w, Heard(w) PROVE Follows(w, NotePresence(w))
    BY HeardFacts, NotePresenceGood, SameFollows

LEMMA ConfirmStartFollows ==
    ASSUME NEW w, Heard(w), NEW a \in Attempts, NEW s \in Sources, NEW t \in 1..Len(turns),
           <<a, s>> \in turns[t].inputs, NEW terminal \in BOOLEAN, NEW x \in OpenDispatchers
    PROVE  Follows(w, [w EXCEPT !.db = ConfirmStart(w.db, a, s, t, terminal), !.d = x])
<1> DEFINE e == ConfirmStart(w.db, a, s, t, terminal)
           v == [w EXCEPT !.db = e, !.d = x]
<1>1. Good(v)
    BY HeardFacts, ConfirmStartGood
<1>2. Told(e) /\ Calms(w.db, e)
    BY HeardFacts, ConfirmStartMoves
<1> HIDE DEF e
<1>3. v.db = e
    BY HeardFacts DEF Worlds
<1> HIDE DEF v
<1>4. Follows(w, v)
    BY <1>1, <1>2, <1>3, MovesFollow
<1> QED
    BY <1>4 DEF v, e

LEMMA StartedProceeds ==
    ASSUME NEW w0, Heard(w0), NEW t \in 1..Len(turns), NEW shown \in BOOLEAN, NEW v \in Started(w0, t, shown)
    PROVE  Proceeds(w0, v)
<1> DEFINE w == [NotePresence(w0) EXCEPT !.d.busy = TRUE]
           m == Correlated(w, t, shown)
           a == (CHOOSE x \in m : TRUE)[1]
           s == (CHOOSE x \in m : TRUE)[2]
           early == w.call.att = a /\ t \in w.call.early
           w1 == [w EXCEPT !.d.cur = a, !.call.early = IF early THEN {} ELSE w.call.early]
           w2 == [w1 EXCEPT !.db = ConfirmStart(w1.db, a, s, t, early)]
<1>1. Follows(w0, w) /\ Heard(w) /\ Good(w) /\ w \in Worlds
    <2> DEFINE n == NotePresence(w0)
    <2>1. Follows(w0, n) /\ Heard(n)
        BY NotePresenceFollows DEF Follows
    <2>2. [n.d EXCEPT !.busy = TRUE] \in OpenDispatchers
        BY <2>1 DEF Heard, Good, OK, Worlds, OpenDispatchers
    <2> HIDE DEF n
    <2>3. Follows(n, [n EXCEPT !.d = [n.d EXCEPT !.busy = TRUE]])
        BY <2>1, <2>2, DispatcherFollows
    <2>4. w = [n EXCEPT !.d = [n.d EXCEPT !.busy = TRUE]]
        BY DEF n
    <2> HIDE DEF w
    <2>5. Follows(w0, w)
        BY <2>1, <2>3, <2>4, FollowsTransitive
    <2> QED
        BY <2>5, HeardFacts DEF Follows
<1>2. \/ m = {} /\ v = w
      \/ /\ m # {}
         /\ \/ v = PauseIdentityConflict(w1, a)
            \/ v = Publish(Free(w2), t)
            \/ v \in Pump(w2)
    BY DEF Started
<1> HIDE DEF w
<1>3. ASSUME m # {} PROVE a \in Attempts /\ s \in Sources /\ <<a, s>> \in turns[t].inputs
    <2> DEFINE y == CHOOSE x \in m : TRUE
    <2>1. y \in m
        BY <1>3
    <2> HIDE DEF y
    <2>2. y[1] \in Attempts /\ y[2] \in Sources /\ <<y[1], y[2]>> \in turns[t].inputs
        BY <1>1, <2>1, CorrelatedKnown DEF Good
    <2> QED
        BY <2>2 DEF y
<1> HIDE DEF a, s, m
<1>4. ASSUME m # {} PROVE Follows(w0, w1) /\ Heard(w1)
    <2> DEFINE y == [w.d EXCEPT !.cur = a]
               T == IF early THEN {} ELSE w.call.early
               z == [w EXCEPT !.d = y]
    <2>1. y \in OpenDispatchers
        BY <1>1, <1>3, <1>4 DEF Worlds, OpenDispatchers
    <2>2. T \in SUBSET Turns
        BY <1>1 DEF Worlds, Calls
    <2>3. w1 = [z EXCEPT !.call.early = T]
        BY <1>1 DEF Worlds
    <2> HIDE DEF y, T, w1
    <2>4. Follows(w, z)
        BY <1>1, <2>1, DispatcherFollows
    <2> HIDE DEF z
    <2>5. Follows(z, w1)
        BY <2>2, <2>3, <2>4, EarlyFollows DEF Follows
    <2>6. Follows(w0, w1)
        BY <1>1, <2>4, <2>5, FollowsTransitive
    <2> QED
        BY <2>6 DEF Follows
<1>5. early \in BOOLEAN
    OBVIOUS
<1> HIDE DEF w1, early
<1>6. ASSUME m # {} PROVE Follows(w0, w2) /\ Heard(w2)
    <2>1. w1 \in Worlds /\ w1.d \in OpenDispatchers
        BY <1>4, <1>6, HeardFacts DEF Worlds
    <2>2. w2 = [w1 EXCEPT !.db = ConfirmStart(w1.db, a, s, t, early), !.d = w1.d]
        BY <2>1 DEF Worlds
    <2> HIDE DEF w2
    <2>3. Follows(w1, w2)
        BY <1>3, <1>4, <1>5, <1>6, <2>1, <2>2, ConfirmStartFollows
    <2>4. Follows(w0, w2)
        BY <1>4, <1>6, <2>3, FollowsTransitive
    <2> QED
        BY <2>4 DEF Follows
<1> HIDE DEF w2
<1>7. ASSUME m # {}, v = PauseIdentityConflict(w1, a) PROVE Proceeds(w0, v)
    <2>1. Follows(w1, v)
        BY <1>3, <1>4, <1>7, PauseIdentityConflictFollows
    <2> QED
        BY <1>4, <1>7, <2>1, FollowsTransitive, FollowsProceeds
<1>8. ASSUME m # {}, v = Publish(Free(w2), t) PROVE Proceeds(w0, v)
    <2>1. Follows(w2, v)
        BY <1>6, <1>8, PublishFreeFollows
    <2> QED
        BY <1>6, <1>8, <2>1, FollowsTransitive, FollowsProceeds
<1>9. ASSUME m # {}, v \in Pump(w2) PROVE Proceeds(w0, v)
    BY <1>6, <1>9, PumpProceeds, ProceedsAfter
<1>10. ASSUME v = w PROVE Proceeds(w0, v)
    BY <1>1, <1>10, FollowsProceeds
<1> QED
    BY <1>2, <1>7, <1>8, <1>9, <1>10

LEMMA TerminalProceeds ==
    ASSUME NEW w0, Heard(w0), NEW t \in 1..Len(turns), NEW shown \in BOOLEAN, NEW v \in Terminal(w0, t, shown)
    PROVE  Proceeds(w0, v)
<1> DEFINE w == [NotePresence(w0) EXCEPT !.d.paused = FALSE]
           inFlight == w.call.kind = "start" /\ w.call.att = w.d.cur
           m == IF inFlight THEN {<<w.d.cur, s>> : s \in UnresolvedStart(w, w.d.cur)}
                ELSE Correlated(w, t, shown)
           a == (CHOOSE x \in m : TRUE)[1]
           s == (CHOOSE x \in m : TRUE)[2]
           w1 == [w EXCEPT !.d.cur = a]
           ended == [w EXCEPT !.db = Terminalize(w.db, w.d.cur)]
           idle == [w EXCEPT !.d.busy = FALSE]
           bound == [w1 EXCEPT !.db = ConfirmStart(w1.db, a, s, t, TRUE)]
           T == IF inFlight THEN w.call.early \cup {t} ELSE w.call.early
           unknown == [w1 EXCEPT !.db = ObserveUnknownStartTerminal(w1.db, a, s), !.call.early = T]
<1>0. t \in Turns
    BY TurnInThread DEF Heard, Good
<1>1. Follows(w0, w) /\ Heard(w) /\ Good(w) /\ w \in Worlds
    <2> DEFINE n == NotePresence(w0)
    <2>1. Follows(w0, n) /\ Heard(n)
        BY NotePresenceFollows DEF Follows
    <2>2. [n.d EXCEPT !.paused = FALSE] \in OpenDispatchers
        BY <2>1 DEF Heard, Good, OK, Worlds, OpenDispatchers
    <2> HIDE DEF n
    <2>3. Follows(n, [n EXCEPT !.d = [n.d EXCEPT !.paused = FALSE]])
        BY <2>1, <2>2, DispatcherFollows
    <2>4. w = [n EXCEPT !.d = [n.d EXCEPT !.paused = FALSE]]
        BY DEF n
    <2> HIDE DEF w
    <2>5. Follows(w0, w)
        BY <2>1, <2>3, <2>4, FollowsTransitive
    <2> QED
        BY <2>5, HeardFacts DEF Follows
<1>2. \/ w.d.cur # NoAttempt /\ v = Publish(Free(ended), t)
      \/ v \in Pump(idle)
      \/ v = w
      \/ m # {} /\ v = PauseIdentityConflict(w1, a)
      \/ m # {} /\ <<a, s>> \in turns[t].inputs /\ v = Publish(Free(bound), t)
      \/ m # {} /\ v = unknown
    BY DEF Terminal
<1> HIDE DEF w
<1>3. w.d.cur # NoAttempt => w.d.cur \in Attempts
    BY <1>1 DEF Worlds, OpenDispatchers
<1>4. ASSUME m # {} PROVE a \in Attempts /\ s \in Sources
    <2>1. m \subseteq Submissions
        <3>1. CASE inFlight
            <4>1. w.d.cur \in Attempts
                BY <1>1, <3>1 DEF Good, OK, CallFits
            <4>2. UnresolvedStart(w, w.d.cur) \subseteq Sources
                BY DEF UnresolvedStart
            <4> QED
                BY <3>1, <4>1, <4>2 DEF Submissions
        <3>2. CASE ~inFlight
            BY <1>1, <3>2, CorrelatedType DEF Good
        <3> QED
            BY <3>1, <3>2
    <2>2. (CHOOSE x \in m : TRUE) \in Submissions
        BY <1>4, <2>1
    <2> QED
        BY <2>2 DEF Submissions
<1> HIDE DEF a, s, m
<1>5. ASSUME w.d.cur # NoAttempt, v = Publish(Free(ended), t) PROVE Proceeds(w0, v)
    <2> DEFINE e == Terminalize(w.db, w.d.cur)
    <2>1. Evolves(w.db, e) /\ Alike(w.db, e)
        BY <1>1, <1>3, <1>5, HeardFacts, TerminalizeEvolves, TerminalizeAlike
    <2>2. w.d \in OpenDispatchers /\ ended = [w EXCEPT !.db = e, !.d = w.d] /\ ended.db = e
        BY <1>1 DEF Worlds
    <2> HIDE DEF ended, e
    <2>3. Good(ended)
        BY <1>1, <2>1, <2>2, AlikeGood
    <2>4. Follows(w, ended)
        BY <1>1, <2>1, <2>2, <2>3, AlikeFollows
    <2>5. Follows(ended, v)
        BY <1>5, <2>4, PublishFreeFollows DEF Follows
    <2> QED
        BY <1>1, <2>4, <2>5, FollowsTransitive, FollowsProceeds
<1>6. ASSUME v \in Pump(idle) PROVE Proceeds(w0, v)
    <2>1. [w.d EXCEPT !.busy = FALSE] \in OpenDispatchers
        BY <1>1 DEF Worlds, OpenDispatchers
    <2>2. Follows(w, idle)
        BY <1>1, <2>1, DispatcherFollows
    <2> HIDE DEF idle
    <2>3. Follows(w0, idle) /\ Heard(idle)
        BY <1>1, <2>2, FollowsTransitive DEF Follows
    <2> QED
        BY <1>6, <2>3, PumpProceeds, ProceedsAfter
<1>7. ASSUME m # {} PROVE Follows(w0, w1) /\ Heard(w1)
    <2>1. [w.d EXCEPT !.cur = a] \in OpenDispatchers
        BY <1>1, <1>4, <1>7 DEF Worlds, OpenDispatchers
    <2>2. Follows(w, w1)
        BY <1>1, <2>1, DispatcherFollows
    <2> HIDE DEF w1
    <2>3. Follows(w0, w1)
        BY <1>1, <2>2, FollowsTransitive
    <2> QED
        BY <2>3 DEF Follows
<1>8. w1.call = w.call
    BY <1>1 DEF Worlds
<1> HIDE DEF w1
<1>9. ASSUME m # {}, v = PauseIdentityConflict(w1, a) PROVE Proceeds(w0, v)
    <2>1. Follows(w1, v)
        BY <1>4, <1>7, <1>9, PauseIdentityConflictFollows
    <2> QED
        BY <1>7, <1>9, <2>1, FollowsTransitive, FollowsProceeds
<1>10. ASSUME m # {}, <<a, s>> \in turns[t].inputs, v = Publish(Free(bound), t) PROVE Proceeds(w0, v)
    <2>1. w1 \in Worlds /\ w1.d \in OpenDispatchers
        BY <1>7, <1>10, HeardFacts DEF Worlds
    <2>2. bound = [w1 EXCEPT !.db = ConfirmStart(w1.db, a, s, t, TRUE), !.d = w1.d]
        BY <2>1 DEF Worlds
    <2> HIDE DEF bound
    <2>3. Follows(w1, bound)
        BY <1>4, <1>7, <1>10, <2>1, <2>2, ConfirmStartFollows
    <2>4. Follows(w0, bound) /\ Follows(bound, v)
        BY <1>7, <1>10, <2>3, FollowsTransitive, PublishFreeFollows DEF Follows
    <2> QED
        BY <2>4, FollowsTransitive, FollowsProceeds
<1>11. ASSUME m # {}, v = unknown PROVE Proceeds(w0, v)
    <2> DEFINE e == ObserveUnknownStartTerminal(w1.db, a, s)
               y == [w1 EXCEPT !.db = e, !.d = w1.d]
    <2>0. w1 \in Worlds /\ Good(w1) /\ w1.db \in Databases
        BY <1>7, <1>11, HeardFacts
    <2>1. Evolves(w1.db, e) /\ Alike(w1.db, e) /\ w1.d \in OpenDispatchers
        BY <1>4, <1>11, <2>0, ObserveUnknownStartTerminalEvolves, ObserveUnknownStartTerminalAlike DEF Worlds
    <2>2. T \in SUBSET Turns
        BY <1>0, <1>1 DEF Worlds, Calls
    <2> HIDE DEF T
    <2>3. unknown = [y EXCEPT !.call.early = T] /\ y.db = e
        BY <2>0 DEF Worlds
    <2> HIDE DEF e, unknown
    <2>4. Good(y)
        BY <2>0, <2>1, AlikeGood
    <2> HIDE DEF y
    <2>5. Follows(w1, y)
        BY <1>7, <1>11, <2>1, <2>3, <2>4, AlikeFollows
    <2>6. Follows(y, v)
        BY <1>11, <2>2, <2>3, <2>5, EarlyFollows DEF Follows
    <2> QED
        BY <1>7, <1>11, <2>5, <2>6, FollowsTransitive, FollowsProceeds
<1>12. ASSUME v = w PROVE Proceeds(w0, v)
    BY <1>1, <1>12, FollowsProceeds
<1> QED
    BY <1>2, <1>5, <1>6, <1>9, <1>10, <1>11, <1>12

\* The answers

LEMMA NewGenerationFollows ==
    ASSUME NEW w, Heard(w) PROVE Follows(w, NewGeneration(w))
    BY HeardFacts, NewGenerationGood, SameFollows

LEMMA DropCurrentFollows ==
    ASSUME NEW w, Heard(w), NEW a PROVE Follows(w, DropCurrent(w, a))
    BY HeardFacts, DropCurrentGood, SameFollows

LEMMA UncertainFollows ==
    ASSUME NEW w0, Heard(w0), w0.call.kind = "none", NEW a \in Attempts, NEW s \in Sources,
           NEW v \in Uncertain(w0, a, s)
    PROVE  Follows(w0, v)
<1> DEFINE w == NewGeneration(w0)
           u == [w EXCEPT !.db = MarkUncertain(w.db, a, s)]
           decided(d) == [u EXCEPT !.db = BeginReconciliation(u.db, a, s, d)]
<1>1. Follows(w0, w) /\ Heard(w) /\ Good(w) /\ w \in Worlds /\ w.call.kind = "none" /\ w.db \in Databases
    <2>1. Follows(w0, w) /\ w.call.kind = "none"
        BY NewGenerationFollows, NewGenerationGood, HeardFacts
    <2> HIDE DEF w
    <2> QED
        BY <2>1, HeardFacts DEF Follows
<1>2. \/ v = w
      \/ /\ CanMarkUncertain(w.db, a, s)
         /\ \E d \in ReconcileDecisions(u.db, a, s) :
              v \in {DropCurrent(decided(d), a), [decided(d) EXCEPT !.d.timer = TRUE],
                     LaunchRead(decided(d), "failure", a, s)}
    BY DEF Uncertain, ReconcileDecisions
<1> HIDE DEF w, u, decided
<1>3. SUFFICES ASSUME CanMarkUncertain(w.db, a, s),
                      NEW d \in ReconcileDecisions(u.db, a, s),
                      v \in {DropCurrent(decided(d), a), [decided(d) EXCEPT !.d.timer = TRUE],
                             LaunchRead(decided(d), "failure", a, s)}
               PROVE  Follows(w, v)
    <2>1. CASE v = w
        BY <1>1, <2>1
    <2>2. CASE v # w
        BY <1>1, <1>2, <2>2, FollowsTransitive
    <2> QED
        BY <2>1, <2>2
<1> USE DEF u
<1>4. w.db.mem[a][s].state \in Unresolved
    BY <1>3 DEF CanMarkUncertain, Unresolved
<1>5. /\ Follows(w, u) /\ Heard(u) /\ Good(u) /\ u \in Worlds /\ u.call.kind = "none" /\ u.db \in Databases
      /\ u.db.mem[a][s].state \in Unresolved
    <2> DEFINE e == MarkUncertain(w.db, a, s)
    <2>1. Evolves(w.db, e) /\ Alike(w.db, e) /\ w.d \in OpenDispatchers
        BY <1>1, <1>4, MarkUncertainEvolves, MarkUncertainAlike DEF Worlds
    <2>a. e \in Databases
        BY <2>1 DEF Evolves
    <2>b. e.mem[a][s].state = "uncertain"
        BY <1>1, <1>4 DEF MarkUncertain, Databases, MemberRows
    <2>2. e.mem[a][s].state \in Unresolved
        BY <2>b DEF Unresolved
    <2> HIDE DEF e
    <2>3. u = [w EXCEPT !.db = e, !.d = w.d]
        BY <1>1 DEF Worlds, e
    <2>4. u.db = e /\ u.call = w.call
        BY <1>1 DEF Worlds, e
    <2> HIDE DEF u
    <2>5. Good(u)
        BY <1>1, <2>1, <2>3, AlikeGood
    <2>6. Follows(w, u)
        BY <1>1, <2>1, <2>4, <2>5, AlikeFollows
    <2> QED
        BY <1>1, <2>2, <2>4, <2>5, <2>6, HeardFacts DEF Follows
<1> HIDE DEF u
<1> USE DEF decided
<1> DEFINE x == decided(d)
<1>6. Follows(u, x) /\ x.call.kind = "none"
    <2> DEFINE e == BeginReconciliation(u.db, a, s, d)
    <2>1. Evolves(u.db, e)
        BY <1>5, BeginReconciliationEvolves
    <2>2. Fits(e, turns) /\ Later(u.db, e)
        BY <1>5, HeardFacts, BeginReconciliationKeeps
    <2>3. Told(e) /\ Calms(u.db, e)
        BY <1>5, HeardFacts, BeginReconciliationMoves
    <2> HIDE DEF e
    <2>4. x = [u EXCEPT !.db = e]
        BY DEF e
    <2>5. x.call = u.call /\ x.db = e
        BY <1>5, <2>4 DEF Worlds
    <2> HIDE DEF x, decided
    <2>6. Good(x)
        BY <1>5, <2>1, <2>2, <2>4, DatabaseGood
    <2> QED
        BY <1>5, <2>3, <2>5, <2>6, MovesFollow
<1>7. v \in {DropCurrent(x, a), [x EXCEPT !.d.timer = TRUE], LaunchRead(x, "failure", a, s)}
    BY <1>3
<1> HIDE DEF x, decided
<1>8. Heard(x) /\ Good(x) /\ x \in Worlds /\ OK(x)
    BY <1>6, HeardFacts DEF Follows, Good
<1>9. Follows(x, v)
    <2>1. Follows(x, DropCurrent(x, a))
        BY <1>8, DropCurrentFollows
    <2>2. Follows(x, [x EXCEPT !.d = [x.d EXCEPT !.timer = TRUE]])
        <3>1. [x.d EXCEPT !.timer = TRUE] \in OpenDispatchers
            BY <1>8 DEF Worlds, OpenDispatchers
        <3> QED
            BY <1>8, <3>1, DispatcherFollows
    <2>3. Follows(x, LaunchRead(x, "failure", a, s))
        <3>1. OK(LaunchRead(x, "failure", a, s))
            BY <1>8, LaunchReadHandles DEF Handles
        <3>2. Good(LaunchRead(x, "failure", a, s)) /\ LaunchRead(x, "failure", a, s).db = x.db
            BY <1>6, <1>8, <3>1, LaunchReadGood
        <3> QED
            BY <1>8, <3>2, SameFollows
    <2> QED
        BY <1>7, <2>1, <2>2, <2>3
<1> QED
    BY <1>5, <1>6, <1>9, FollowsTransitive

LEMMA UnsavedFollows ==
    ASSUME NEW w, Heard(w), w.call.kind = "none", NEW a \in Attempts, NEW s \in Sources,
           w.db.mem[a][s].state \in Unresolved, IsStart(w.db, a, s), ~Ran(turns, a, s)
    PROVE  Follows(w, Unsaved(w, a, s))
<1> DEFINE e == FailUnstartedAttempt(RestorePending(w.db, a, s), a)
           x == [w.d EXCEPT !.paused = TRUE, !.cur = NoAttempt, !.busy = FALSE, !.timer = TRUE]
<1>1. Good(Unsaved(w, a, s))
    BY HeardFacts, UnsavedGood
<1>2. Told(e) /\ Calms(w.db, e)
    BY HeardFacts, StartBackMoves
<1>3. Unsaved(w, a, s) = [w EXCEPT !.db = e, !.d = x]
    BY DEF Unsaved
<1> HIDE DEF e, x
<1>4. Unsaved(w, a, s).db = e
    BY <1>3, HeardFacts DEF Worlds
<1> QED
    BY <1>1, <1>2, <1>4, MovesFollow

LEMMA NotSteerableFollows ==
    ASSUME NEW w, Heard(w), w.call.kind = "none", NEW a \in Attempts, NEW s \in Sources,
           ~IsStart(w.db, a, s), ~Ran(turns, a, s)
    PROVE  Follows(w, NotSteerable(w, a, s))
<1> DEFINE e == RestorePending(w.db, a, s)
           x == [w.d EXCEPT !.steerPause = a]
<1>1. CASE w.db.mem[a][s].state \in {"steer_submitting", "uncertain"}
    <2>1. w.db.mem[a][s].state \in Unresolved
        BY <1>1 DEF Unresolved
    <2>2. Told(e) /\ Calms(w.db, e)
        BY <2>1, HeardFacts, SteerBackMoves
    <2>3. NotSteerable(w, a, s) = [w EXCEPT !.db = e, !.d = x]
        BY <1>1 DEF NotSteerable
    <2>4. Good(NotSteerable(w, a, s))
        BY HeardFacts, NotSteerableGood
    <2> HIDE DEF e, x
    <2>5. NotSteerable(w, a, s).db = e
        BY <2>3, HeardFacts DEF Worlds
    <2> QED
        BY <2>2, <2>4, <2>5, MovesFollow
<1>2. CASE w.db.mem[a][s].state \notin {"steer_submitting", "uncertain"}
    BY <1>2, FollowsReflexive DEF NotSteerable
<1> QED
    BY <1>1, <1>2

LEMMA StartAnsweredFollows ==
    ASSUME NEW w, Heard(w), NEW a \in Attempts, NEW s \in Sources, NEW t \in 1..Len(turns),
           <<a, s>> \in turns[t].inputs, NEW early \in BOOLEAN, NEW reported \in BOOLEAN
    PROVE  Follows(w, StartAnswered(w, a, s, t, early, reported))
<1> DEFINE terminal == early \/ reported
           c  == StartConfirmation(w.db, a, s, t, terminal)
           x  == [w.d EXCEPT !.cur = IF c = "bound" THEN a ELSE w.d.cur]
           w1 == [w EXCEPT !.db = ConfirmStart(w.db, a, s, t, terminal), !.d = x]
<1>1. x \in OpenDispatchers
    BY DEF Heard, Good, OK, Worlds, OpenDispatchers
<1>2. \/ StartAnswered(w, a, s, t, early, reported) = PauseIdentityConflict(w, a)
      \/ StartAnswered(w, a, s, t, early, reported) \in {w1, Publish(Free(w1), t), Free(w1)}
    BY DEF StartAnswered
<1>3. terminal \in BOOLEAN
    OBVIOUS
<1> HIDE DEF x, terminal
<1>4. Follows(w, w1)
    BY <1>1, <1>3, ConfirmStartFollows
<1> HIDE DEF w1
<1>5. Follows(w1, Free(w1)) /\ Follows(w1, Publish(Free(w1), t))
    BY <1>4, PublishFreeFollows DEF Follows
<1>6. Follows(w, Free(w1)) /\ Follows(w, Publish(Free(w1), t))
    BY <1>4, <1>5, FollowsTransitive
<1> QED
    BY <1>2, <1>4, <1>6, PauseIdentityConflictFollows

LEMMA ConfirmSteerFollows ==
    ASSUME NEW w, Heard(w), w.call.kind = "none", NEW a \in Attempts, NEW s \in Sources, NEW t
    PROVE  Follows(w, [w EXCEPT !.db = ConfirmSteer(w.db, a, s, t)])
<1> DEFINE e == ConfirmSteer(w.db, a, s, t)
           v == [w EXCEPT !.db = e]
<1>1. Good(v)
    BY HeardFacts, ConfirmSteerGood
<1>2. Told(e) /\ Calms(w.db, e)
    BY HeardFacts, ConfirmSteerMoves
<1> HIDE DEF e
<1>3. v.db = e
    BY HeardFacts DEF Worlds
<1> HIDE DEF v
<1>4. Follows(w, v)
    BY <1>1, <1>2, <1>3, MovesFollow
<1> QED
    BY <1>4 DEF v, e

LEMMA SteerAnsweredFollows ==
    ASSUME NEW w, Heard(w), w.call.kind = "none", NEW a \in Attempts, NEW s \in Sources, NEW t
    PROVE  Follows(w, SteerAnswered(w, a, s, t))
    BY ConfirmSteerFollows, PauseIdentityConflictFollows DEF SteerAnswered

LEMMA AnsweredFollows ==
    ASSUME NEW w, Heard(w), w.call.kind = "none",
           NEW c \in Calls, CallFits(w.db, c), CallKnows(w.db, c, turns), NEW reported \in BOOLEAN,
           c.stage \in {"ok", "refused", "unsaved", "error"}, NEW v \in Answered(w, c, reported)
    PROVE  Follows(w, v)
<1>1. c.kind \in {"start", "steer"} /\ c.att \in Attempts /\ c.src \in Sources /\ c.stale \in BOOLEAN
    BY DEF CallFits, Calls
<1>2. CASE c.stage = "unsaved"
    <2>1. v = Unsaved(w, c.att, c.src)
        BY <1>2 DEF Answered
    <2>2. /\ w.db.mem[c.att][c.src].state \in Unresolved /\ IsStart(w.db, c.att, c.src)
          /\ ~Ran(turns, c.att, c.src)
        BY <1>1, <1>2 DEF CallKnows
    <2> QED
        BY <1>1, <2>1, <2>2, UnsavedFollows
<1>3. CASE c.stage = "refused"
    <2>1. v = NotSteerable(w, c.att, c.src)
        BY <1>3 DEF Answered
    <2>2. ~IsStart(w.db, c.att, c.src) /\ ~Ran(turns, c.att, c.src)
        BY <1>1, <1>3 DEF CallKnows
    <2> QED
        BY <1>1, <2>1, <2>2, NotSteerableFollows
<1>4. CASE c.stage = "error" \/ (c.stage = "ok" /\ c.stale)
    <2>1. v \in Uncertain(w, c.att, c.src)
        BY <1>1, <1>4 DEF Answered
    <2> QED
        BY <1>1, <2>1, UncertainFollows
<1>5. CASE c.stage = "ok" /\ ~c.stale /\ c.kind = "start"
    <2>1. v = StartAnswered(w, c.att, c.src, c.turn, c.turn \in c.early, reported)
        BY <1>1, <1>5 DEF Answered
    <2>2. c.turn \in 1..Len(turns) /\ <<c.att, c.src>> \in turns[c.turn].inputs /\ (c.turn \in c.early) \in BOOLEAN
        BY <1>5 DEF CallKnows
    <2> QED
        BY <1>1, <2>1, <2>2, StartAnsweredFollows
<1>6. CASE c.stage = "ok" /\ ~c.stale /\ c.kind = "steer"
    <2>1. v = SteerAnswered(w, c.att, c.src, c.turn)
        BY <1>1, <1>6 DEF Answered
    <2> QED
        BY <1>1, <2>1, SteerAnsweredFollows
<1> QED
    BY <1>1, <1>2, <1>3, <1>4, <1>5, <1>6

\* Reading the history back

LEMMA EndedFollows ==
    ASSUME NEW w, Heard(w), NEW a \in Attempts, NEW t \in 1..Len(turns)
    PROVE  Follows(w, Ended(w, a, t))
<1> DEFINE w1 == DropCurrent(w, a)
           own == w.db.att[a].state = "active" /\ w.db.att[a].turn = t
           e == IF own THEN Terminalize(w1.db, a) ELSE w1.db
           x == [w1.d EXCEPT !.busy = FALSE, !.steerPause = NoAttempt]
           w2 == [w1 EXCEPT !.db = e, !.d = x]
<1>1. Follows(w, w1)
    BY DropCurrentFollows
<1>2. Ended(w, a, t) = Publish(w2, t)
    BY DEF Ended
<1> HIDE DEF w1
<1>a. Heard(w1) /\ Good(w1) /\ w1 \in Worlds /\ w1.db \in Databases
    BY <1>1, HeardFacts DEF Follows
<1>3. Evolves(w1.db, e) /\ Alike(w1.db, e)
    BY <1>a, TerminalizeEvolves, EvolvesReflexive, TerminalizeAlike, AlikeReflexive
<1>4. x \in OpenDispatchers
    BY <1>a DEF Worlds, OpenDispatchers
<1> HIDE DEF e, x
<1>5. Good(w2)
    BY <1>a, <1>3, <1>4, AlikeGood
<1>6. w2.db = e
    BY <1>a DEF Worlds
<1> HIDE DEF w2
<1>7. Follows(w1, w2)
    BY <1>a, <1>3, <1>5, <1>6, AlikeFollows
<1>8. Follows(w2, Publish(w2, t))
    BY <1>7, PublishFollows DEF Follows
<1> QED
    BY <1>1, <1>2, <1>7, <1>8, FollowsTransitive

LEMMA StartFoundFollows ==
    ASSUME NEW w, Heard(w), NEW a \in Attempts, NEW s \in Sources, NEW t \in 1..Len(turns),
           <<a, s>> \in turns[t].inputs
    PROVE  Follows(w, StartFound(w, a, s, t))
<1> DEFINE ended == ShownEnded(t)
           x == [w.d EXCEPT !.cur = IF ended THEN NoAttempt ELSE a, !.busy = ~ended]
           w1 == [w EXCEPT !.db = ConfirmStart(w.db, a, s, t, ended), !.d = x]
<1>1. StartFound(w, a, s, t) \in {PauseIdentityConflict(w, a), Publish(Free(w1), t), w1}
    BY DEF StartFound
<1>2. ended \in BOOLEAN
    BY DEF ShownEnded
<1> HIDE DEF ended
<1>3. x \in OpenDispatchers
    BY <1>2 DEF Heard, Good, OK, Worlds, OpenDispatchers
<1> HIDE DEF x
<1>4. Follows(w, w1)
    BY <1>2, <1>3, ConfirmStartFollows
<1> HIDE DEF w1
<1>5. Follows(w1, Publish(Free(w1), t))
    BY <1>4, PublishFreeFollows DEF Follows
<1>6. Follows(w, Publish(Free(w1), t))
    BY <1>4, <1>5, FollowsTransitive
<1> QED
    BY <1>1, <1>4, <1>6, PauseIdentityConflictFollows

LEMMA SteerFoundFollows ==
    ASSUME NEW w, Heard(w), w.call.kind = "none", NEW a \in Attempts, NEW s \in Sources, NEW t \in 1..Len(turns)
    PROVE  Follows(w, SteerFound(w, a, s, t))
<1> DEFINE w1 == [w EXCEPT !.db = ConfirmSteer(w.db, a, s, t)]
<1>1. Follows(w, w1)
    BY ConfirmSteerFollows
<1>2. SteerFound(w, a, s, t) \in {w, w1, Ended(w1, a, t)}
    BY DEF SteerFound
<1> HIDE DEF w1
<1>3. Follows(w1, Ended(w1, a, t))
    BY <1>1, EndedFollows DEF Follows
<1>4. Follows(w, Ended(w1, a, t))
    BY <1>1, <1>3, FollowsTransitive
<1> QED
    BY <1>1, <1>2, <1>4, FollowsReflexive

LEMMA StartAbsentFollows ==
    ASSUME NEW w, Heard(w), w.call.kind = "none", NEW a \in Attempts, NEW s \in Sources,
           w.db.mem[a][s].state \in Unresolved, IsStart(w.db, a, s), ~Ran(turns, a, s)
    PROVE  Follows(w, StartAbsent(w, a, s))
<1> DEFINE e == FailUnstartedAttempt(RestorePending(w.db, a, s), a)
           w0 == [w EXCEPT !.db = e]
           w1 == DropCurrent(w0, a)
<1>1. Good(StartAbsent(w, a, s))
    BY HeardFacts, StartAbsentGood
<1>2. Told(e) /\ Calms(w.db, e)
    BY HeardFacts, StartBackMoves
<1>3. StartAbsent(w, a, s) = [w1 EXCEPT !.d = [w1.d EXCEPT !.paused = TRUE, !.busy = FALSE]]
    BY DEF StartAbsent
<1>a. Evolves(w.db, e)
    <2>1. Evolves(w.db, RestorePending(w.db, a, s)) /\ RestorePending(w.db, a, s) \in Databases
        BY HeardFacts, RestorePendingEvolves DEF Evolves
    <2> QED
        BY <2>1, FailUnstartedAttemptEvolves, EvolvesTransitive
<1> HIDE DEF e
<1>4. w0 \in Worlds /\ w0.db = e
    BY <1>a, HeardFacts DEF Worlds, Evolves
<1> HIDE DEF w0
<1>5. w1 \in Worlds /\ w1.db = e
    <2>1. NoAttempt \in {NoAttempt} \cup Attempts
        OBVIOUS
    <2> QED
        BY <1>4, <2>1 DEF DropCurrent, Worlds, OpenDispatchers
<1> HIDE DEF w1
<1>6. StartAbsent(w, a, s).db = e
    BY <1>3, <1>5 DEF Worlds
<1> QED
    BY <1>1, <1>2, <1>6, MovesFollow

LEMMA SteerAbsentFollows ==
    ASSUME NEW w, Heard(w), w.call.kind = "none", NEW a \in Attempts, NEW s \in Sources,
           w.db.mem[a][s].state \in Unresolved, ~IsStart(w.db, a, s), ~Ran(turns, a, s),
           w.db.att[a].turn \in 1..Len(turns)
    PROVE  Follows(w, SteerAbsent(w, a, s))
<1> DEFINE e == RestorePending(w.db, a, s)
           w1 == [w EXCEPT !.db = e]
           t == w.db.att[a].turn
<1>2. Evolves(w.db, e) /\ Fits(e, turns) /\ Later(w.db, e)
    BY HeardFacts, RestorePendingEvolves, SteerBackKeeps
<1>3. SteerAbsent(w, a, s) = Ended(w1, a, t)
    BY DEF SteerAbsent
<1>a. Told(e) /\ Calms(w.db, e)
    BY HeardFacts, SteerBackMoves
<1> HIDE DEF e
<1>4. Good(w1) /\ w1.db = e
    BY <1>2, HeardFacts, DatabaseGood DEF Worlds
<1>5. t \in 1..Len(turns)
    OBVIOUS
<1> HIDE DEF w1, t
<1>6. Follows(w, w1)
    BY <1>a, <1>4, MovesFollow
<1>7. Follows(w1, Ended(w1, a, t))
    BY <1>5, <1>6, EndedFollows DEF Follows
<1> QED
    BY <1>3, <1>6, <1>7, FollowsTransitive

LEMMA ReconcileSubmissionFollows ==
    ASSUME NEW w, Heard(w), w.call.kind = "none", NEW view, NEW a \in Attempts, NEW s \in Sources
    PROVE  Follows(w, ReconcileSubmission(w, view, a, s))
<1> DEFINE found == Positive(w.db, view, a, s)
           t == CHOOSE x \in found : \A y \in found : y <= x
<1>1. found \subseteq 1..Len(turns) /\ \A x \in found : <<a, s>> \in turns[x].inputs
    BY DEF Positive, Listed, Shows
<1>2. ASSUME found # {} PROVE t \in 1..Len(turns) /\ <<a, s>> \in turns[t].inputs
    <2>1. found \in SUBSET (0..Len(turns)) /\ Len(turns) \in Nat
        BY <1>1, HeardFacts
    <2> HIDE DEF found
    <2>2. \E x \in found : \A y \in found : y <= x
        BY <1>2, <2>1, GreatestExists
    <2>3. t \in found
        BY <2>2
    <2> QED
        BY <1>1, <2>3
<1>3. \/ ReconcileSubmission(w, view, a, s) = w
      \/ /\ found # {}
         /\ ReconcileSubmission(w, view, a, s) \in {StartFound(w, a, s, t), SteerFound(w, a, s, t)}
      \/ /\ found = {} /\ ProvenAbsent(w.db, view, a, s) /\ w.db.mem[a][s].state \in Unresolved
         /\ IsStart(w.db, a, s) /\ ReconcileSubmission(w, view, a, s) = StartAbsent(w, a, s)
      \/ /\ found = {} /\ ProvenAbsent(w.db, view, a, s) /\ w.db.mem[a][s].state \in Unresolved
         /\ ~IsStart(w.db, a, s) /\ ReconcileSubmission(w, view, a, s) = SteerAbsent(w, a, s)
         /\ w.db.att[a].turn \in 1..Len(turns)
    BY DEF ReconcileSubmission, ProvenAbsent, Listed
<1>4. ASSUME found = {}, ProvenAbsent(w.db, view, a, s) PROVE ~Ran(turns, a, s)
    BY <1>4, HeardFacts, AbsenceProven
<1> HIDE DEF t, found
<1> QED
    BY <1>2, <1>3, <1>4, FollowsReflexive, StartFoundFollows, SteerFoundFollows, StartAbsentFollows, SteerAbsentFollows

\* Recovery begins; the connection is lost; a call is settled

LEMMA RecoverFollows == ASSUME NEW w, Heard(w) PROVE Follows(w, Recover(w))
<1> DEFINE x == [w.d EXCEPT !.published = {}, !.ready = FALSE, !.timer = FALSE]
           w1 == [w EXCEPT !.d = x]
           w2 == [w1 EXCEPT !.d = [w1.d EXCEPT !.timer = TRUE]]
           w3 == [w1 EXCEPT !.d = [w1.d EXCEPT !.paused = FALSE]]
<1>1. \/ Recover(w) = w2
      \/ w.call.kind = "none" /\ Recover(w) = LaunchRead(w3, "recover", NoAttempt, NoSource)
    BY DEF Recover
<1>2. x \in OpenDispatchers
    BY DEF Heard, Good, OK, Worlds, OpenDispatchers
<1> HIDE DEF x
<1>3. Good(w1) /\ w1 \in Worlds /\ w1.db = w.db /\ w1.call = w.call
    BY <1>2, HeardFacts, DispatcherGood DEF Good, OK, Worlds
<1> HIDE DEF w1
<1>4. w2.db = w.db /\ w3.db = w.db /\ w3.call = w.call
    BY <1>3 DEF Worlds
<1>5. /\ [w1.d EXCEPT !.timer = TRUE] \in OpenDispatchers
      /\ [w1.d EXCEPT !.paused = FALSE] \in OpenDispatchers
    BY <1>3 DEF Worlds, OpenDispatchers
<1>6. Good(w3)
    BY <1>3, <1>5, DispatcherGood
<1> HIDE DEF w2, w3
<1>7. OK(LaunchRead(w3, "recover", NoAttempt, NoSource))
    BY <1>6, LaunchReadHandles DEF Handles, Good
<1>8. Recover(w).db = w.db
    BY <1>1, <1>4, <1>6, <1>7, LaunchReadGood
<1> QED
    BY <1>8, HeardFacts, RecoverGood, SameFollows

LEMMA UnavailableFollows == ASSUME NEW w, Heard(w) PROVE Follows(w, Unavailable(w))
<1> DEFINE n == NewGeneration(w)
           c == IF n.call.kind = "none" THEN n.call ELSE [n.call EXCEPT !.stale = TRUE]
           x == [n.d EXCEPT !.timer = FALSE, !.ready = FALSE, !.busy = TRUE,
                            !.cur = NoAttempt, !.steerPause = NoAttempt]
<1>1. Good(n) /\ n.db = w.db
    BY HeardFacts, NewGenerationGood
<1>2. Unavailable(w) = [n EXCEPT !.call = c, !.d = x]
    BY DEF Unavailable
<1> HIDE DEF n, c, x
<1>3. Unavailable(w).db = w.db
    BY <1>1, <1>2 DEF Good, OK, Worlds
<1> QED
    BY <1>3, HeardFacts, UnavailableGood, SameFollows

LEMMA SettledFollows == ASSUME NEW w, Heard(w) PROVE Follows(w, Settled(w))
<1>1. Settled(w).db = w.db
    BY HeardFacts DEF Settled, Worlds
<1> QED
    BY <1>1, HeardFacts, SettledGood, SameFollows

-----------------------------------------------------------------------------
(* Every step keeps what SourceQueue promises *)

LEMMA WorldHeard ==
    ASSUME IInv, SInv, Told(db), read.stage # "attempts"
    PROVE  Heard(World) /\ World.db = db
    BY WorldGood DEF Heard

LEMMA ProceedsBecomes ==
    ASSUME NEW w, w.db = db, NEW v, Proceeds(w, v), Becomes(v) PROVE Advances(db, db')
    BY DEF Proceeds, Becomes

LEMMA FollowsBecomes ==
    ASSUME NEW w, w.db = db, NEW v, Follows(w, v), Becomes(v) PROVE Advances(db, db')
    BY FollowsProceeds, ProceedsBecomes

LEMMA StillAdvances == ASSUME Told(db), db' = db PROVE Advances(db, db')
<1>1. Calms(db, db)
    BY CalmsReflexive
<1> QED
    BY <1>1 DEF Advances

LEMMA AlikeAdvances ==
    ASSUME IInv, SInv, Told(db), NEW e \in Databases, Alike(db, e), db' = e PROVE Advances(db, db')
<1>1. Told(e) /\ Calms(db, e)
    BY ThreadFit, AlikeMoves
<1> QED
    BY <1>1 DEF Advances

LEMMA DatabaseTyped == ASSUME IInv, [Next]_vars PROVE db' \in Databases
    BY Inductive DEF Step, IInv, TypeOK

LEMMA AcceptAdvances ==
    ASSUME IInv, SInv, Told(db), NEW s \in Sources, NEW c \in Conversations, Accept(s, c)
    PROVE  Advances(db, db')
<1> DEFINE e == AcceptChatSource(db, s, c, disp.cur)
           x == [disp EXCEPT !.paused = FALSE]
           w == [World EXCEPT !.db = e, !.d = x]
           i == IF db.src[s].state = "absent" THEN InsertSource(db, s, c) ELSE db
<1>1. PICK v \in Pump(w) : Becomes(v)
    BY DEF Accept, World
<1>2. Good(w)
    BY AcceptGood
<1>3. w.db = e
    BY DEF World
<1>4. /\ Fits(db, turns) /\ Len(turns) \in Nat /\ db \in Databases
      /\ s \in NextSource(db) \/ db.src[s].state # "absent"
    BY ThreadFit DEF Accept
<1>5. i \in Databases /\ Fits(i, turns) /\ Told(i) /\ Calms(db, i)
    <2>1. CASE db.src[s].state = "absent"
        <3>1. InsertSource(db, s, c) \in Databases
            BY <1>4, <2>1, InsertSourceEvolves DEF Evolves
        <3>2. Fits(InsertSource(db, s, c), turns)
            BY <1>4, <2>1, InsertSourceKeeps
        <3>3. Told(InsertSource(db, s, c)) /\ Calms(db, InsertSource(db, s, c))
            BY <1>4, <2>1, InsertSourceMoves
        <3> QED
            BY <2>1, <3>1, <3>2, <3>3
    <2>2. CASE db.src[s].state # "absent"
        <3>1. Calms(db, db)
            BY CalmsReflexive
        <3> QED
            BY <1>4, <2>2, <3>1
    <2> QED
        BY <2>1, <2>2
<1>6. e = i \/ e = QueueNotices(i, {s})
    BY DEF AcceptChatSource
<1>7. e \in Databases
    BY <1>2, <1>3 DEF Good, OK, Worlds
<1> HIDE DEF i, e, w
<1>8. Alike(i, e)
    BY <1>5, <1>6, QueueNoticesAlike, AlikeReflexive
<1>9. Told(e) /\ Calms(i, e)
    BY <1>4, <1>5, <1>7, <1>8, AlikeMoves
<1>10. Calms(db, e)
    BY <1>5, <1>9, CalmsTransitive
<1>11. Proceeds(w, v)
    BY <1>1, <1>2, <1>3, <1>9, PumpProceeds DEF Heard
<1>12. Advances(e, v.db)
    BY <1>3, <1>11 DEF Proceeds
<1>13. Advances(db, v.db)
    BY <1>10, <1>12, AdvancesAfter
<1> QED
    BY <1>1, <1>13 DEF Becomes

LEMMA PumpedAdvances ==
    ASSUME IInv, SInv, Told(db), read.stage # "attempts",
           NEW x \in OpenDispatchers, NEW v \in Pump([World EXCEPT !.d = x]), Becomes(v)
    PROVE  Advances(db, db')
<1> DEFINE w == [World EXCEPT !.d = x]
<1>1. Follows(World, w)
    BY WorldHeard, DispatcherFollows
<1> HIDE DEF w
<1>2. Proceeds(w, v)
    BY <1>1, PumpProceeds DEF Follows, w
<1>3. Proceeds(World, v)
    BY <1>1, <1>2, ProceedsAfter
<1> QED
    BY <1>3, WorldHeard, ProceedsBecomes

LEMMA EnqueueInternalAdvances == ASSUME IInv, SInv, Told(db), EnqueueInternal PROVE Advances(db, db')
<1> DEFINE x == [disp EXCEPT !.paused = FALSE]
<1>1. PICK v \in Pump([World EXCEPT !.d = x]) : Becomes(v)
    BY DEF EnqueueInternal, World
<1>2. read.stage # "attempts"
    BY DEF EnqueueInternal, Serial, Between
<1>3. x \in OpenDispatchers
    BY WorldOK DEF OK, Worlds, OpenDispatchers
<1> HIDE DEF x
<1> QED
    BY <1>1, <1>2, <1>3, PumpedAdvances

LEMMA PostedPumpAdvances == ASSUME IInv, SInv, Told(db), PostedPump PROVE Advances(db, db')
<1> DEFINE x == [disp EXCEPT !.wake = FALSE]
<1>1. PICK v \in Pump([World EXCEPT !.d = x]) : Becomes(v)
    BY DEF PostedPump, World
<1>2. read.stage # "attempts"
    BY DEF PostedPump, Serial, Between
<1>3. x \in OpenDispatchers
    BY WorldOK DEF OK, Worlds, OpenDispatchers
<1> HIDE DEF x
<1> QED
    BY <1>1, <1>2, <1>3, PumpedAdvances

LEMMA AdmissionRetryAdvances == ASSUME IInv, SInv, Told(db), AdmissionRetry PROVE Advances(db, db')
<1> DEFINE x == [disp EXCEPT !.admission = "none"]
<1>1. PICK v \in Pump([World EXCEPT !.d = x]) : Becomes(v)
    BY DEF AdmissionRetry, World
<1>2. read.stage # "attempts"
    BY DEF AdmissionRetry, Serial, Between
<1>3. x \in OpenDispatchers
    BY WorldOK DEF OK, Worlds, OpenDispatchers
<1> HIDE DEF x
<1> QED
    BY <1>1, <1>2, <1>3, PumpedAdvances

LEMMA OpenedAdvances == ASSUME IInv, SInv, Told(db), Opened PROVE Advances(db, db')
<1> DEFINE x == [disp EXCEPT !.paused = FALSE]
<1>1. read.stage # "attempts"
    BY DEF Opened, Serial, Between
<1>2. \/ \E v \in Pump([World EXCEPT !.d = x]) : Becomes(v)
      \/ Down(db, used)
      \/ Becomes(Unavailable(World))
    BY DEF Opened, World
<1>3. x \in OpenDispatchers
    BY WorldOK DEF OK, Worlds, OpenDispatchers
<1> HIDE DEF x
<1>4. CASE Down(db, used)
    <2>1. db' = db
        BY <1>4 DEF Down
    <2> QED
        BY <2>1, StillAdvances
<1>5. CASE Becomes(Unavailable(World))
    BY <1>1, <1>5, WorldHeard, UnavailableFollows, FollowsBecomes
<1>6. CASE \E v \in Pump([World EXCEPT !.d = x]) : Becomes(v)
    BY <1>1, <1>3, <1>6, PumpedAdvances
<1> QED
    BY <1>2, <1>4, <1>5, <1>6

LEMMA DrainedAdvances ==
    ASSUME IInv, SInv, Told(db), NEW t \in Turns, Drained(t) PROVE Advances(db, db')
<1> DEFINE w1 == [World EXCEPT !.settle = [World.settle EXCEPT ![t] = "idle"]]
           x == [w1.d EXCEPT !.paused = FALSE]
           w == [w1 EXCEPT !.d = x]
<1>1. read.stage # "attempts"
    BY DEF Drained, Serial, Between
<1>2. [World EXCEPT !.settle[t] = "idle", !.d.paused = FALSE] = w
    BY WorldOK DEF OK, Worlds
<1>3. PICK v \in Pump(w) : Becomes(v)
    BY <1>2 DEF Drained
<1>4. Good(w1)
    BY <1>1, WorldGood, SettleGood
<1>5. w1.db = World.db
    BY DEF World
<1> HIDE DEF w1
<1>6. Follows(World, w1) /\ Heard(w1)
    BY <1>1, <1>4, <1>5, WorldHeard, SameFollows DEF Follows
<1>7. x \in OpenDispatchers
    BY <1>4 DEF Good, OK, Worlds, OpenDispatchers
<1> HIDE DEF x
<1>8. Follows(w1, w)
    BY <1>6, <1>7, DispatcherFollows
<1> HIDE DEF w
<1>9. Proceeds(w, v)
    BY <1>3, <1>8, PumpProceeds DEF Follows
<1>10. Proceeds(World, v)
    BY <1>6, <1>8, <1>9, ProceedsAfter
<1> QED
    BY <1>1, <1>3, <1>10, WorldHeard, ProceedsBecomes

LEMMA RecoveryTimerAdvances == ASSUME IInv, SInv, Told(db), RecoveryTimer PROVE Advances(db, db')
<1>1. Becomes(Recover(World)) /\ read.stage # "attempts"
    BY DEF RecoveryTimer, Serial, Between
<1> QED
    BY <1>1, WorldHeard, RecoverFollows, FollowsBecomes

\* Starting a recovery leaves the tables, whatever read it overtakes.
LEMMA RecoverStays == ASSUME Becomes(Recover(World)) PROVE db' = db
<1> DEFINE x == [disp EXCEPT !.published = {}, !.ready = FALSE, !.timer = FALSE]
           w2 == [World EXCEPT !.d = [x EXCEPT !.timer = TRUE]]
           w3 == [World EXCEPT !.d = [x EXCEPT !.paused = FALSE]]
<1>1. Recover(World) = w2 \/ Recover(World) = LaunchRead(w3, "recover", NoAttempt, NoSource)
    BY DEF Recover, World
<1> HIDE DEF x
<1>2. w2.db = db
    BY DEF World
<1>3. LaunchRead(w3, "recover", NoAttempt, NoSource).db = db
    <2> DEFINE r == [NoRead EXCEPT !.kind = "recover", !.att = NoAttempt, !.src = NoSource, !.stage = "waiting"]
    <2>1. LaunchRead(w3, "recover", NoAttempt, NoSource) = [NewGeneration(w3) EXCEPT !.read = r]
        BY DEF LaunchRead
    <2> HIDE DEF r
    <2>2. [NewGeneration(w3) EXCEPT !.read = r].db = db
        BY DEF NewGeneration, World
    <2> QED
        BY <2>1, <2>2
<1> HIDE DEF w2, w3
<1> QED
    BY <1>1, <1>2, <1>3 DEF Becomes

LEMMA BootAdvances == ASSUME IInv, SInv, Told(db), Boot \/ Reconnect PROVE Advances(db, db')
    BY RecoverStays, StillAdvances DEF Boot, Reconnect

\* A handler that leaves the tables.
LEMMA KeepsTables ==
    ASSUME IInv, NEW w \in Worlds, w.db = db, Becomes(Settled(w)) \/ Becomes(w) PROVE db' = db
<1>1. Settled(w).db = w.db
    BY DEF Settled, Worlds
<1> QED
    BY <1>1 DEF Becomes

LEMMA AdmissionAnsweredAdvances ==
    ASSUME IInv, SInv, Told(db), AdmissionAnswered PROVE Advances(db, db')
<1> DEFINE x == [disp EXCEPT !.admission = "granted"]
           y == [disp EXCEPT !.admission = "waiting"]
           u == [used EXCEPT !.errors = used.errors + 1]
           w1 == [World EXCEPT !.d = x]
           w2 == [World EXCEPT !.d = y, !.used = u]
<1>1. \/ Becomes(Settled(w1))
      \/ used.errors < MaxErrors /\ Becomes(Settled(w2))
    BY DEF AdmissionAnswered, World
<1>2. x \in OpenDispatchers /\ y \in OpenDispatchers
    BY WorldOK DEF OK, Worlds, OpenDispatchers
<1>3. used.errors < MaxErrors => u \in Budgets
    BY SMTT(60), RunBoundsAssumption DEF IInv, TypeOK, Budgets
<1> HIDE DEF x, y, u
<1>4. w1 \in Worlds /\ w1.db = db
    BY <1>2, WorldOK DEF OK, Worlds, World
<1>5. used.errors < MaxErrors => w2 \in Worlds /\ w2.db = db
    BY <1>2, <1>3, WorldOK DEF OK, Worlds, World
<1> HIDE DEF w1, w2
<1>6. db' = db
    BY <1>1, <1>4, <1>5, KeepsTables
<1> QED
    BY <1>6, StillAdvances

LEMMA StaleReadReturnsAdvances ==
    ASSUME IInv, SInv, Told(db), StaleReadReturns PROVE Advances(db, db')
<1> DEFINE x == [disp EXCEPT !.stale = disp.stale - 1]
           w1 == [World EXCEPT !.d = x]
<1>1. Becomes(Settled(w1)) /\ disp.stale > 0
    BY DEF StaleReadReturns, World
<1>2. x \in OpenDispatchers
    BY <1>1, WorldOK DEF OK, Worlds, OpenDispatchers
<1> HIDE DEF x
<1>3. w1 \in Worlds /\ w1.db = db
    BY <1>2, WorldOK DEF OK, Worlds, World
<1> HIDE DEF w1
<1>4. db' = db
    BY <1>1, <1>3, KeepsTables
<1> QED
    BY <1>4, StillAdvances

\* The handlers and the steps of the environment that leave the tables alone.
LEMMA QuietAdvances ==
    ASSUME IInv, SInv, Told(db),
           \/ PumpThrows \/ Crash \/ RecoverMembersDone \/ Native
           \/ \E t \in Turns : ProcessingFails(t)
    PROVE  Advances(db, db')
<1>1. CASE PumpThrows \/ Crash
    BY <1>1, StillAdvances DEF PumpThrows, Crash, Down
<1>2. CASE RecoverMembersDone
    BY <1>2, StillAdvances DEF RecoverMembersDone, Becomes, World
<1>3. CASE Native
    BY <1>3, StillAdvances DEF Native, ApplyStart, ApplySteer, SteerRejected, SubmissionFails, TurnEnds
<1>4. CASE \E t \in Turns : ProcessingFails(t)
    BY <1>4, StillAdvances DEF ProcessingFails, Becomes, World
<1> QED
    BY <1>1, <1>2, <1>3, <1>4

LEMMA LinkLostAdvances == ASSUME IInv, SInv, Told(db), LinkLost PROVE Advances(db, db')
<1> DEFINE v == [World EXCEPT !.used.losses = @ + 1]
           w == Unavailable(v)
<1>1. PICK lost \in BOOLEAN :
        Becomes([w EXCEPT !.call.stage = IF @ = "sent" \/ (lost /\ @ = "ok") THEN "error" ELSE @])
    BY DEF LinkLost
<1> DEFINE n == IF v.read.kind = "none" THEN v ELSE [v EXCEPT !.read = NoRead, !.d.stale = @ + 1]
           c == IF n.call.kind = "none" THEN n.call ELSE [n.call EXCEPT !.stale = TRUE]
           x == [n.d EXCEPT !.timer = FALSE, !.ready = FALSE, !.busy = TRUE,
                            !.cur = NoAttempt, !.steerPause = NoAttempt]
<1>2. n = [World EXCEPT !.read = n.read, !.d = n.d, !.used = n.used]
    BY DEF World
<1>3. w = [n EXCEPT !.call = c, !.d = x]
    BY DEF Unavailable, NewGeneration
<1> HIDE DEF n, c, x
<1>4. w = [World EXCEPT !.read = n.read, !.d = x, !.used = n.used, !.call = c]
    BY <1>2, <1>3 DEF World
<1> HIDE DEF w
<1>5. [w EXCEPT !.call.stage = IF @ = "sent" \/ (lost /\ @ = "ok") THEN "error" ELSE @].db = db
    BY <1>4 DEF World
<1>6. db' = db
    BY <1>1, <1>5 DEF Becomes
<1> QED
    BY <1>6, StillAdvances

LEMMA SubmissionAnsweredAdvances ==
    ASSUME IInv, SInv, Told(db), SubmissionAnswered PROVE Advances(db, db')
<1> DEFINE w == [World EXCEPT !.call = NoCall]
<1>0. PICK reported \in BOOLEAN : \E v \in Answered(w, call, reported) : Becomes(Settled(v))
    BY DEF SubmissionAnswered
<1>1. PICK v \in Answered(w, call, reported) : Becomes(Settled(v))
    BY <1>0
<1>2. /\ read.stage # "attempts"
      /\ call.stage \in {"ok", "refused", "unsaved", "error"}
    BY DEF SubmissionAnswered, Serial, Between
<1>3. Good(w) /\ w.call.kind = "none" /\ w.db = db
    BY <1>2, WorldGood, CallOverGood DEF World
<1>4. call \in Calls /\ CallFits(w.db, call) /\ CallKnows(w.db, call, turns)
    BY <1>3 DEF IInv, TypeOK, SInv, Sound, World
<1> HIDE DEF w
<1>5. Heard(w)
    BY <1>3 DEF Heard
<1>6. Follows(w, v)
    BY <1>1, <1>2, <1>3, <1>4, <1>5, AnsweredFollows
<1>7. Follows(v, Settled(v))
    BY <1>6, SettledFollows DEF Follows
<1>8. Follows(w, Settled(v))
    BY <1>6, <1>7, FollowsTransitive
<1> QED
    BY <1>1, <1>3, <1>8, FollowsBecomes

LEMMA FailureReadReturnsAdvances ==
    ASSUME IInv, SInv, Told(db), NEW view \in Views, FailureReadReturns(view) PROVE Advances(db, db')
<1> DEFINE a == read.att
           s == read.src
           w == [Consume(World, view) EXCEPT !.read = NoRead]
           r == IF view = "failed" THEN w ELSE ReconcileSubmission(w, view, a, s)
           x == [r.d EXCEPT !.timer = TRUE]
           y == [r EXCEPT !.d = x]
<1>1. /\ Viewed(view) /\ read.kind = "failure" /\ read.stage # "attempts"
      /\ Becomes(Settled(y)) \/ Becomes(Settled(r))
    BY DEF FailureReadReturns, Serial, Between
<1>2. a \in Attempts /\ s \in Sources /\ call.kind = "none"
    BY <1>1, NoCallWhileReading DEF IInv, ReadFits
<1>3. Good(w) /\ w.call.kind = "none"
    <2>1. Calm(NoRead) /\ (NoRead.kind = "none" => NoRead.stage = "none")
        BY DEF Calm, NoRead
    <2> QED
        BY <1>1, <1>2, <2>1, ConsumeGood, NoReadFits
<1>4. w.db = db
    BY DEF Consume, World
<1> HIDE DEF w, a, s
<1>5. Heard(w)
    BY <1>3, <1>4 DEF Heard
<1>6. Follows(w, r)
    BY <1>2, <1>3, <1>5, ReconcileSubmissionFollows, FollowsReflexive
<1> HIDE DEF r
<1>7. Heard(r)
    BY <1>6 DEF Follows
<1>8. x \in OpenDispatchers
    BY <1>7 DEF Heard, Good, OK, Worlds, OpenDispatchers
<1> HIDE DEF x
<1>9. Follows(r, y)
    BY <1>7, <1>8, DispatcherFollows
<1> HIDE DEF y
<1>10. Follows(w, y)
    BY <1>6, <1>9, FollowsTransitive
<1>11. Follows(r, Settled(r)) /\ Follows(y, Settled(y))
    BY <1>7, <1>9, SettledFollows DEF Follows
<1>12. Follows(w, Settled(r)) /\ Follows(w, Settled(y))
    BY <1>6, <1>10, <1>11, FollowsTransitive
<1> QED
    BY <1>1, <1>4, <1>12, FollowsBecomes

LEMMA RecoveryReadReturnsAdvances ==
    ASSUME IInv, SInv, Told(db), NEW view \in Views, RecoveryReadReturns(view) PROVE Advances(db, db')
<1> DEFINE e == FailOrphanedUnstartedAttempts(db)
<1>1. db' = db \/ db' = e
    <2> DEFINE w == [Consume(World, view) EXCEPT !.read = [@ EXCEPT !.stage = "members", !.view = view,
                                        !.members = UnresolvedSubmissions(db)]]
               own == {a \in Attempts : \E t \in ActiveTurn \cap Listed(view) :
                     a \in AttemptForTurn(db, t) /\ db.att[a].accepting}
               cur == IF own = {} THEN NoAttempt ELSE CHOOSE a \in own : TRUE
               x == [w.d EXCEPT !.ready = TRUE, !.busy = ActiveTurn # {}, !.cur = cur,
                            !.steerPause = IF cur = NoAttempt THEN NoAttempt ELSE disp.steerPause]
               f == FailOrphanedUnstartedAttempts(w.db)
    <2>1. Becomes(w) \/ Becomes([w EXCEPT !.db = f, !.d = x])
        BY DEF RecoveryReadReturns
    <2>2. w.db = db
        BY DEF Consume, World
    <2> HIDE DEF x
    <2>3. [w EXCEPT !.db = f, !.d = x].db = f
        BY DEF Consume, World
    <2> HIDE DEF w
    <2> QED
        BY <2>1, <2>2, <2>3 DEF Becomes
<1>2. Told(e) /\ Calms(db, e)
    BY ThreadFit, FailOrphanedMoves
<1> HIDE DEF e
<1> QED
    BY <1>1, <1>2, StillAdvances DEF Advances

LEMMA RecoverAttemptAdvances ==
    ASSUME IInv, SInv, Told(db), NEW d \in Decisions, RecoverAttempt(d) PROVE Advances(db, db')
<1>1. PICK a \in Attempts : /\ IsActive(db, a) /\ db.att[a].turn # NoTurn
                            /\ d \in TerminalDecisions(db, a)
                            /\ db' = BeginTerminalReconciliation(db, a, d)
    BY RecoverAttemptSafe
<1> DEFINE e == BeginTerminalReconciliation(db, a, d)
<1>2. Told(e) /\ Calms(db, e)
    BY <1>1, ThreadFit, BeginTerminalReconciliationMoves
<1> HIDE DEF e
<1>3. db' = e
    BY <1>1 DEF e
<1> QED
    BY <1>2, <1>3 DEF Advances

LEMMA FinishAdvances ==
    ASSUME IInv, SInv, Told(db), NEW t \in Turns, Finish(t) PROVE Advances(db, db')
<1>1. db' = db \/ \E a \in Attempts :
         /\ IsActive(db, a) /\ db.att[a].turn # NoTurn /\ ~HasUnresolved(db, a)
         /\ \/ db' = CompleteAttempt(db, a) \/ db' = RetryAttempt(db, a)
            \/ \E r \in NextSource(db) : db' = SupersedeAttempt(db, a, r)
    BY FinishSafe DEF Finishes
<1>2. ASSUME NEW a \in Attempts, IsActive(db, a), db.att[a].turn # NoTurn, ~HasUnresolved(db, a),
             \/ db' = CompleteAttempt(db, a) \/ db' = RetryAttempt(db, a)
             \/ \E r \in NextSource(db) : db' = SupersedeAttempt(db, a, r)
      PROVE  Told(db') /\ Calms(db, db')
    <2>1. /\ Told(CompleteAttempt(db, a)) /\ Calms(db, CompleteAttempt(db, a))
          /\ Told(RetryAttempt(db, a)) /\ Calms(db, RetryAttempt(db, a))
          /\ \A r \in Sources : db.src[r].state = "absent" =>
               Told(SupersedeAttempt(db, a, r)) /\ Calms(db, SupersedeAttempt(db, a, r))
        BY <1>2, ThreadFit, FinishMoves
    <2>2. CASE db' = CompleteAttempt(db, a) \/ db' = RetryAttempt(db, a)
        BY <2>1, <2>2
    <2>3. CASE \E r \in NextSource(db) : db' = SupersedeAttempt(db, a, r)
        <3>1. PICK r \in NextSource(db) : db' = SupersedeAttempt(db, a, r)
            BY <2>3
        <3>2. r \in Sources /\ db.src[r].state = "absent"
            BY DEF NextSource
        <3> QED
            BY <2>1, <3>1, <3>2
    <2> QED
        BY <1>2, <2>2, <2>3
<1> QED
    BY <1>1, <1>2, StillAdvances DEF Advances

\* The transactions that only annotate the rows.
LEMMA AnnotationAdvances ==
    ASSUME IInv, SInv, Told(db), [Next]_vars,
           RecoverTurns \/ Stop \/ \E t \in Turns : SubmissionsSettled(t)
    PROVE  Advances(db, db')
<1>1. Alike(db, db')
    BY RecoverTurnsSafe, StopSafe, SubmissionsSettledSafe
<1>2. db' \in Databases
    BY DatabaseTyped
<1> DEFINE e == db'
<1> HIDE DEF e
<1>3. e \in Databases /\ Alike(db, e) /\ db' = e
    BY <1>1, <1>2 DEF e
<1> QED
    BY <1>3, AlikeAdvances

LEMMA StartedDeliveredAdvances ==
    ASSUME IInv, SInv, Told(db), StartedDelivered PROVE Advances(db, db')
<1>1. notes # <<>> /\ read.stage # "attempts"
    BY DEF StartedDelivered, Serial, Between
<1>2. PICK shown \in BOOLEAN : \E w \in Started(World, Head(notes)[2], shown) : Becomes(w)
    BY DEF StartedDelivered
<1>3. PICK v \in Started(World, Head(notes)[2], shown) : Becomes(v)
    BY <1>2
<1>4. Proceeds(World, v)
    BY <1>1, <1>3, WorldHeard, NotesGood, StartedProceeds
<1> QED
    BY <1>1, <1>3, <1>4, WorldHeard, ProceedsBecomes

LEMMA ProcessTerminalAdvances ==
    ASSUME IInv, SInv, Told(db), read.stage # "attempts", NEW t \in Turns, t \in 1..Len(turns),
           ProcessTerminal(t)
    PROVE  Advances(db, db')
<1> DEFINE w0 == [World EXCEPT !.settle = [World.settle EXCEPT ![t] = "waiting"]]
<1>1. PICK shown \in BOOLEAN : \E w \in Terminal(w0, t, shown) :
        Becomes(w) \/ Becomes([w EXCEPT !.settle = [w.settle EXCEPT ![t] = "idle"]])
    <2>1. w0 = [World EXCEPT !.settle[t] = "waiting"]
        OBVIOUS
    <2> HIDE DEF w0
    <2>2. PICK shown \in BOOLEAN : \E w \in Terminal(w0, t, shown) :
            Becomes(w) \/ Becomes([w EXCEPT !.settle[t] = "idle"])
        BY <2>1 DEF ProcessTerminal
    <2> QED
        BY <2>2
<1>2. PICK w \in Terminal(w0, t, shown) :
        Becomes(w) \/ Becomes([w EXCEPT !.settle = [w.settle EXCEPT ![t] = "idle"]])
    BY <1>1
<1>3. Good(w0) /\ w0.db = db
    BY WorldGood, SettleGood DEF World
<1> HIDE DEF w0
<1>4. Proceeds(w0, w)
    BY <1>2, <1>3, TerminalProceeds DEF Heard
<1>5. w \in Worlds
    BY <1>4 DEF Proceeds, Good, OK
<1>6. [w EXCEPT !.settle = [w.settle EXCEPT ![t] = "idle"]].db = w.db
    BY <1>5 DEF Worlds
<1>7. db' = w.db
    BY <1>2, <1>6 DEF Becomes
<1> QED
    BY <1>3, <1>4, <1>7 DEF Proceeds

LEMMA TerminalDeliveredAdvances ==
    ASSUME IInv, SInv, Told(db), CompletedDelivered \/ \E t \in Turns : PublishedTerminal(t)
    PROVE  Advances(db, db')
<1>1. CASE CompletedDelivered
    <2>1. notes # <<>> /\ read.stage # "attempts"
        BY <1>1 DEF CompletedDelivered, Serial, Between
    <2>2. ProcessTerminal(Head(notes)[2]) \/ Becomes(World)
        BY <1>1 DEF CompletedDelivered
    <2>3. CASE ProcessTerminal(Head(notes)[2])
        BY <2>1, <2>3, NotesGood, ProcessTerminalAdvances
    <2>4. CASE Becomes(World)
        BY <2>4, StillAdvances DEF Becomes, World
    <2> QED
        BY <2>2, <2>3, <2>4
<1>2. ASSUME NEW t \in Turns, PublishedTerminal(t) PROVE Advances(db, db')
    <2>1. read.stage # "attempts" /\ ProcessTerminal(t) /\ settle[t] = "queued"
        BY <1>2 DEF PublishedTerminal, Between
    <2>2. t \in 1..Len(turns)
        BY <2>1 DEF SInv, Sound, World, SettleKnows
    <2> QED
        BY <2>1, <2>2, ProcessTerminalAdvances
<1> QED
    BY <1>1, <1>2

LEMMA RecoverMemberAdvances ==
    ASSUME IInv, SInv, Told(db), NEW d \in Decisions, RecoverMember(d) PROVE Advances(db, db')
<1> DEFINE a == Least({m[1] : m \in read.members})
           s == Least({m[2] : m \in {x \in read.members : x[1] = a}})
           r == [read EXCEPT !.members = read.members \ {<<a, s>>}]
           e == MarkUncertainIfUnresolved(db, a, s)
           w == [World EXCEPT !.db = MarkUncertainIfUnresolved(World.db, a, s),
                              !.read.members = World.read.members \ {<<a, s>>}]
           decided == [w EXCEPT !.db = BeginReconciliation(w.db, a, s, d)]
           reconciled == IF read.view = "failed" THEN decided
                         ELSE ReconcileSubmission(decided, read.view, a, s)
           again(v) == IF v.db.mem[a][s].state \in Unresolved THEN [v EXCEPT !.read.retry = TRUE] ELSE v
<1>2. /\ read.stage = "members" /\ read.members # {}
      /\ \/ Becomes(w)
         \/ /\ d \in ReconcileDecisions(w.db, a, s) /\ w.db.mem[a][s].state = "uncertain"
            /\ \/ d = "needs_attention" /\ Becomes(DropCurrent(decided, a))
               \/ d = "wait" /\ Becomes(again(decided))
               \/ d = "ready" /\ Becomes(again(reconciled))
    BY DEF RecoverMember, Decisions
<1>3. a \in Attempts /\ s \in Sources
    BY <1>2, MemberRoundType
<1> HIDE DEF a, s
<1>4. Good(World) /\ World.db = db /\ World.call = call /\ World.read = read /\ call.kind = "none"
    <2>1. read.kind # "none"
        BY <1>2 DEF SInv, Sound, World, ReadWaits
    <2> QED
        BY <1>2, <2>1, WorldGood, NoCallWhileReading
<1>5. r \in Reads /\ ReadFits(r) /\ Calm(r) /\ (r.kind = "none" => r.stage = "none")
    BY <1>2, <1>3 DEF IInv, TypeOK, Reads, ReadFits, SInv, RoundsFit, Calm, Sound, World, ReadWaits
<1>6. Heard(w) /\ Calms(db, w.db) /\ w.call.kind = "none"
    <2>1. Evolves(db, e)
        BY <1>3, MarkUncertainIfUnresolvedEvolves DEF IInv, TypeOK
    <2>2. e \in Databases /\ db \in Databases
        BY <2>1 DEF Evolves, IInv, TypeOK
    <2>3. Fits(db, turns) /\ Len(turns) \in Nat /\ Alike(db, e)
        BY <1>3, <1>4, <2>2, ThreadLength, MarkUncertainIfUnresolvedAlike DEF Good, Sound
    <2> HIDE DEF e
    <2>4. Fits(e, turns) /\ Later(db, e) /\ Told(e) /\ Calms(db, e)
        BY <2>2, <2>3, AlikeKeeps, AlikeMoves
    <2>5. w = [World EXCEPT !.db = e, !.read = r]
        BY WorldOK DEF e
    <2> HIDE DEF w, r
    <2>6. Good([World EXCEPT !.db = e, !.read = r])
        BY <1>4, <1>5, <2>1, <2>4, RoundGood
    <2>7. [World EXCEPT !.db = e, !.read = r].call = World.call /\ [World EXCEPT !.db = e, !.read = r].db = e
        BY DEF World
    <2> QED
        BY <1>4, <2>4, <2>5, <2>6, <2>7 DEF Heard
<1> HIDE DEF w
<1>7. ASSUME d \in ReconcileDecisions(w.db, a, s), w.db.mem[a][s].state = "uncertain"
      PROVE  Follows(w, decided) /\ decided.call.kind = "none"
    <2> DEFINE f == BeginReconciliation(w.db, a, s, d)
    <2>1. w.db \in Databases /\ Fits(w.db, turns) /\ Len(turns) \in Nat /\ Told(w.db)
        BY <1>6, HeardFacts
    <2>2. Evolves(w.db, f)
        BY <1>3, <1>7, <2>1, BeginReconciliationEvolves
    <2>3. w.db.mem[a][s].state \in Unresolved
        BY <1>7 DEF Unresolved
    <2>4. Fits(f, turns) /\ Later(w.db, f)
        BY <1>3, <1>7, <2>1, <2>3, BeginReconciliationKeeps
    <2>5. Told(f) /\ Calms(w.db, f)
        BY <1>3, <1>7, <2>1, <2>3, BeginReconciliationMoves
    <2>6. decided = [w EXCEPT !.db = f]
        OBVIOUS
    <2> HIDE DEF f, decided
    <2>7. Good([w EXCEPT !.db = f])
        BY <1>6, <2>2, <2>4, DatabaseGood DEF Heard
    <2>8. decided.call = w.call /\ decided.db = f
        BY <1>6, <2>6, HeardFacts DEF Worlds
    <2>9. Follows(w, decided)
        BY <2>5, <2>6, <2>7, <2>8, MovesFollow
    <2> QED
        BY <1>6, <2>8, <2>9
<1> HIDE DEF decided
<1>8. ASSUME Follows(w, decided), decided.call.kind = "none"
      PROVE  Follows(w, reconciled) /\ Follows(w, DropCurrent(decided, a))
    <2>1. Heard(decided)
        BY <1>8 DEF Follows
    <2>2. Follows(decided, ReconcileSubmission(decided, read.view, a, s))
        BY <1>3, <1>8, <2>1, ReconcileSubmissionFollows
    <2>3. Follows(decided, DropCurrent(decided, a))
        BY <2>1, DropCurrentFollows
    <2> QED
        BY <1>8, <2>2, <2>3, FollowsTransitive
<1> HIDE DEF reconciled
<1>9. ASSUME NEW v, Follows(w, v), Becomes(again(v)) PROVE db' = v.db
    <2>1. v \in Worlds
        BY <1>9, HeardFacts DEF Follows
    <2> DEFINE q == [v.read EXCEPT !.retry = TRUE]
               y == [v EXCEPT !.read = q]
    <2>2. again(v) = v \/ again(v) = y
        OBVIOUS
    <2> HIDE DEF q
    <2>3. y.db = v.db
        BY <2>1 DEF Worlds
    <2> HIDE DEF y, again
    <2> QED
        BY <1>9, <2>2, <2>3 DEF Becomes
<1> HIDE DEF again
<1>10. \E v : Follows(w, v) /\ db' = v.db
    <2>1. CASE Becomes(w)
        BY <1>6, <2>1, FollowsReflexive DEF Becomes
    <2>2. CASE /\ d \in ReconcileDecisions(w.db, a, s) /\ w.db.mem[a][s].state = "uncertain"
               /\ \/ Becomes(DropCurrent(decided, a)) \/ Becomes(again(decided)) \/ Becomes(again(reconciled))
        BY <1>7, <1>8, <1>9, <2>2 DEF Becomes
    <2> QED
        BY <1>2, <2>1, <2>2
<1>11. PICK v : Follows(w, v) /\ db' = v.db
    BY <1>10
<1>12. Told(v.db) /\ Calms(w.db, v.db)
    BY <1>11 DEF Follows, Heard
<1>13. Calms(db, v.db)
    BY <1>6, <1>12, CalmsTransitive
<1> QED
    BY <1>11, <1>12, <1>13 DEF Advances

LEMMA EveryStepAdvances == ASSUME IInv, SInv, Told(db), [Next]_vars PROVE Advances(db, db')
<1>1. CASE UNCHANGED vars
    BY <1>1, StillAdvances DEF vars
<1>2. CASE Handlers
    <2>1. CASE \E s \in Sources, c \in Conversations : Accept(s, c)
        BY <2>1, AcceptAdvances
    <2>2. CASE EnqueueInternal \/ PostedPump \/ PumpThrows \/ AdmissionAnswered \/ AdmissionRetry
        BY <2>2, EnqueueInternalAdvances, PostedPumpAdvances, QuietAdvances, AdmissionAnsweredAdvances,
           AdmissionRetryAdvances
    <2>3. CASE RecoveryTimer \/ SubmissionAnswered \/ StaleReadReturns
        BY <2>3, RecoveryTimerAdvances, SubmissionAnsweredAdvances, StaleReadReturnsAdvances
    <2>4. CASE \E view \in Views : FailureReadReturns(view) \/ RecoveryReadReturns(view)
        BY <2>4, FailureReadReturnsAdvances, RecoveryReadReturnsAdvances
    <2>5. CASE \E d \in Decisions : RecoverMember(d) \/ RecoverAttempt(d)
        BY <2>5, RecoverMemberAdvances, RecoverAttemptAdvances
    <2>6. CASE RecoverMembersDone \/ RecoverTurns \/ StartedDelivered \/ CompletedDelivered
        BY <2>6, QuietAdvances, AnnotationAdvances, StartedDeliveredAdvances, TerminalDeliveredAdvances
    <2>7. CASE \E t \in Turns : PublishedTerminal(t) \/ SubmissionsSettled(t) \/ Finish(t)
                                \/ Drained(t) \/ ProcessingFails(t)
        BY <2>7, TerminalDeliveredAdvances, AnnotationAdvances, FinishAdvances, DrainedAdvances,
           QuietAdvances
    <2> QED
        BY <1>2, <2>1, <2>2, <2>3, <2>4, <2>5, <2>6, <2>7 DEF Handlers
<1>3. CASE Native
    BY <1>3, QuietAdvances
<1>4. CASE Lifecycle
    BY <1>4, QuietAdvances, AnnotationAdvances, BootAdvances, LinkLostAdvances, OpenedAdvances DEF Lifecycle
<1> QED
    BY <1>1, <1>2, <1>3, <1>4 DEF Next

-----------------------------------------------------------------------------
(* The refinement of SourceQueue *)

LEMMA StageOfState == \A s : Stage(s) = StageIn(db, s)
<1> SUFFICES ASSUME NEW s PROVE Stage(s) = StageIn(db, s)
    OBVIOUS
<1>1. Warned(s) <=> WarnedIn(db, s)
    BY DEF Warned, WarnedIn, SourceWarned, AttemptWarned
<1>2. (\E a \in Attempts : CompletedBy(s, a) /\ db.att[a].state = "active") <=> CarriedOn(db, s)
    BY DEF CompletedBy, CarriedOn, CompletedIn, IsActive
<1>3. (\E a \in Attempts : CompletedBy(s, a) /\ (Chat(db, s) => [kind |-> "final", id |-> a] \in db.out))
      <=> Explained(db, s)
    BY DEF CompletedBy, Explained
<1> HIDE DEF Warned, CompletedBy
<1> QED
    BY <1>1, <1>2, <1>3 DEF Stage, StageIn

LEMMA InitTold == Init => Told(db) /\ Queue!Init
<1> SUFFICES ASSUME Init PROVE Told(db) /\ Queue!Init
    OBVIOUS
<1>1. db \in Databases /\ db = EmptyDatabase
    BY EmptyDatabaseType DEF Init
<1>2. /\ \A s \in Sources : db.src[s].state = "absent"
      /\ \A a \in Attempts, s \in Sources : db.mem[a][s].state = "none"
    BY <1>1 DEF EmptyDatabase, NoMember
<1>3. \A s \in Sources : Stage(s) = "new" /\ StageIn(db, s) = "new"
    BY <1>2 DEF Stage, StageIn
<1>4. Told(db)
    BY <1>2, <1>3 DEF Told, MembersTalk
<1>5. [s \in Sources |-> db.src[s].conv] \in [Sources -> Conversations \cup {Internal}]
    BY <1>1 DEF Databases, SourceRows
<1>6. [s \in Sources |-> Stage(s)] = [s \in Sources |-> "new"]
    BY <1>3
<1> QED
    BY <1>4, <1>5, <1>6 DEF Queue!Init

\* What a handler does to the queue is a move of SourceQueue.
LEMMA AdvancesAllowed ==
    ASSUME NEW d \in Databases, NEW e \in Databases, Told(d), Advances(d, e)
    PROVE  /\ \A i \in Sources : /\ StageIn(e, i) # "dropped"
                                 /\ \/ StageIn(e, i) = StageIn(d, i)
                                    \/ StageIn(d, i) = "new" /\ StageIn(e, i) \in {"waiting", "running"}
                                    \/ StageIn(d, i) = "waiting" /\ StageIn(e, i) = "running"
                                    \/ /\ StageIn(d, i) = "running"
                                       /\ StageIn(e, i) \in {"waiting", "answered", "excused", "replaced"}
                                 /\ StageIn(d, i) # "new" => e.src[i].conv = d.src[i].conv
           /\ \A i, j \in Sources :
                (/\ j < i /\ d.src[j].conv = d.src[i].conv /\ d.src[i].conv \in Conversations
                 /\ StageIn(d, i) = "waiting" /\ StageIn(e, i) = "running")
                => ~(StageIn(d, j) = "waiting" /\ StageIn(e, j) = "waiting")
<1>1. \A i \in Sources : /\ StageIn(e, i) # "dropped" /\ StageIn(d, i) # "dropped"
                         /\ StageIn(d, i) # "new" <=> d.src[i].state # "absent"
    BY StageValues DEF Advances, Told
<1>2. CASE Calms(d, e)
    BY <1>1, <1>2 DEF Calms
<1>3. ASSUME NEW m \in Databases, Told(m), Calms(d, m), Starts(m, e)
      PROVE  /\ \A i \in Sources : /\ \/ StageIn(e, i) = StageIn(d, i)
                                      \/ StageIn(d, i) = "new" /\ StageIn(e, i) \in {"waiting", "running"}
                                      \/ StageIn(d, i) = "waiting" /\ StageIn(e, i) = "running"
                                      \/ /\ StageIn(d, i) = "running"
                                         /\ StageIn(e, i) \in {"waiting", "answered", "excused", "replaced"}
                                   /\ StageIn(d, i) # "new" => e.src[i].conv = d.src[i].conv
             /\ \A i, j \in Sources :
                  (/\ j < i /\ d.src[j].conv = d.src[i].conv /\ d.src[i].conv \in Conversations
                   /\ StageIn(d, i) = "waiting" /\ StageIn(e, i) = "running")
                  => ~(StageIn(d, j) = "waiting" /\ StageIn(e, j) = "waiting")
    <2>1. PICK x \in Sources :
            /\ StageIn(m, x) = "waiting" /\ StageIn(e, x) = "running"
            /\ \A z \in Pending(m) : z < x => ~SameConversation(m, x, z)
            /\ \A s \in Sources : /\ s # x => StageIn(e, s) = StageIn(m, s)
                                  /\ m.src[s].state # "absent" => e.src[s].conv = m.src[s].conv
        BY <1>3 DEF Starts
    <2>2. \A i \in Sources :
            /\ \/ StageIn(m, i) = StageIn(d, i)
               \/ StageIn(d, i) = "new" /\ StageIn(m, i) = "waiting"
               \/ StageIn(d, i) = "running" /\ StageIn(m, i) \in {"waiting", "answered", "excused", "replaced"}
            /\ d.src[i].state # "absent" => m.src[i].state # "absent" /\ m.src[i].conv = d.src[i].conv
        BY <1>3 DEF Calms
    <2>3. ASSUME NEW i \in Sources
          PROVE  /\ \/ StageIn(e, i) = StageIn(d, i)
                    \/ StageIn(d, i) = "new" /\ StageIn(e, i) \in {"waiting", "running"}
                    \/ StageIn(d, i) = "waiting" /\ StageIn(e, i) = "running"
                    \/ /\ StageIn(d, i) = "running"
                       /\ StageIn(e, i) \in {"waiting", "answered", "excused", "replaced"}
                 /\ StageIn(d, i) # "new" => e.src[i].conv = d.src[i].conv
        <3>1. CASE i = x
            BY <1>1, <2>1, <2>2, <3>1
        <3>2. CASE i # x
            BY <1>1, <2>1, <2>2, <3>2
        <3> QED
            BY <3>1, <3>2
    <2>4. ASSUME NEW i \in Sources, NEW j \in Sources, j < i, d.src[j].conv = d.src[i].conv,
                 d.src[i].conv \in Conversations, StageIn(d, i) = "waiting", StageIn(e, i) = "running",
                 StageIn(d, j) = "waiting"
          PROVE  FALSE
        <3>1. StageIn(m, i) = "waiting" /\ StageIn(m, j) = "waiting"
            BY <2>2, <2>4
        <3>2. i = x
            BY <2>1, <2>4, <3>1
        <3>3. j \in Pending(m)
            BY <1>3, <3>1, StageValues DEF Pending
        <3>4. m.src[i].conv = d.src[i].conv /\ m.src[j].conv = d.src[j].conv
            BY <1>1, <2>2, <2>4
        <3>5. SameConversation(m, x, j)
            BY <2>4, <3>2, <3>4 DEF SameConversation, Chat
        <3> QED
            BY <2>1, <2>4, <3>2, <3>3, <3>5
    <2> QED
        BY <2>3, <2>4
<1> QED
    BY <1>1, <1>2, <1>3 DEF Advances

LEMMA StepMoves ==
    ASSUME IInv, SInv, Told(db), [Next]_vars
    PROVE  /\ Told(db)'
           /\ [Queue!Move]_<<[s \in Sources |-> Stage(s)], [s \in Sources |-> db.src[s].conv]>>
<1> DEFINE e == db'
<1>1. e \in Databases /\ db \in Databases /\ Advances(db, e)
    BY DatabaseTyped, EveryStepAdvances DEF IInv, TypeOK
<1>2. Told(db)' <=> Told(e)
    BY DEF Told, MembersTalk, IsStart, SameConversation, Chat
<1>3. \A s \in Sources : Stage(s) = StageIn(db, s)
    BY StageOfState
<1>4. ASSUME NEW s \in Sources PROVE Stage(s)' = StageIn(e, s)
    <2>1. Warned(s)' <=> WarnedIn(e, s)
        BY DEF Warned, WarnedIn, SourceWarned, AttemptWarned
    <2>2. (\E a \in Attempts : CompletedBy(s, a)' /\ db'.att[a].state = "active") <=> CarriedOn(e, s)
        BY DEF CompletedBy, CarriedOn, CompletedIn, IsActive
    <2>3. (\E a \in Attempts : CompletedBy(s, a)' /\ (Chat(e, s) => [kind |-> "final", id |-> a] \in db'.out))
          <=> Explained(e, s)
        BY DEF CompletedBy, Explained
    <2>4. Chat(db, s)' <=> Chat(e, s)
        BY DEF Chat
    <2> HIDE DEF Warned, CompletedBy
    <2> QED
        BY <2>1, <2>2, <2>3, <2>4 DEF Stage, StageIn
<1>5. \A s \in Sources : db'.src[s].conv = e.src[s].conv
    OBVIOUS
<1> HIDE DEF e
<1>6. Told(db)'
    BY <1>1, <1>2 DEF Advances
<1> DEFINE p == [s \in Sources |-> Stage(s)]
           q == [s \in Sources |-> Stage(s)']
           g == [s \in Sources |-> db.src[s].conv]
           h == [s \in Sources |-> db'.src[s].conv]
<1>7. \A i \in Sources : /\ StageIn(e, i) # "dropped"
                         /\ \/ StageIn(e, i) = StageIn(db, i)
                            \/ StageIn(db, i) = "new" /\ StageIn(e, i) \in {"waiting", "running"}
                            \/ StageIn(db, i) = "waiting" /\ StageIn(e, i) = "running"
                            \/ /\ StageIn(db, i) = "running"
                               /\ StageIn(e, i) \in {"waiting", "answered", "excused", "replaced"}
                         /\ StageIn(db, i) # "new" => e.src[i].conv = db.src[i].conv
    BY <1>1, AdvancesAllowed
<1>8. \A i, j \in Sources :
        (/\ j < i /\ db.src[j].conv = db.src[i].conv /\ db.src[i].conv \in Conversations
         /\ StageIn(db, i) = "waiting" /\ StageIn(e, i) = "running")
        => ~(StageIn(db, j) = "waiting" /\ StageIn(e, j) = "waiting")
    BY <1>1, AdvancesAllowed
<1>9. q \in [Sources -> Queue!Stages] /\ h \in [Sources -> Conversations \cup {Internal}]
    <2>1. \A s \in Sources : StageIn(e, s) \in Queue!Stages
        BY <1>1, <1>7, StageValues DEF Queue!Stages
    <2>2. \A s \in Sources : e.src[s].conv \in Conversations \cup {Internal}
        BY <1>1 DEF Databases, SourceRows
    <2> QED
        BY <1>4, <1>5, <2>1, <2>2
<1>10. \A i \in Sources : /\ p[i] = StageIn(db, i) /\ q[i] = StageIn(e, i)
                          /\ g[i] = db.src[i].conv /\ h[i] = e.src[i].conv
    BY <1>3, <1>4, <1>5
<1> HIDE DEF p, q, g, h
<1>11. \A i \in Sources : q[i] = p[i] \/ <<p[i], q[i]>> \in Queue!Moves
    BY <1>7, <1>10 DEF Queue!Moves
<1>12. \A i \in Sources : p[i] # "new" => h[i] = g[i]
    BY <1>7, <1>10
<1>13. \A i, j \in Sources :
        (/\ j < i /\ g[j] = g[i] /\ g[i] \in Conversations /\ p[i] = "waiting" /\ q[i] = "running")
        => ~(p[j] = "waiting" /\ q[j] = "waiting")
    BY <1>8, <1>10
<1>14. Queue!Move
    BY <1>9, <1>11, <1>12, <1>13 DEF Queue!Move, Queue!InOrder, p, q, g, h
<1> QED
    BY <1>6, <1>14

\* The queue of conversation-store.ts keeps the promise of SourceQueue, whatever
\* the transactions of the dispatcher, the recovery rounds, the native turns, the
\* connection and the process do: an accepted message waits, runs, may go back to
\* waiting, and ends in one of three ways of which its owner is told; none is
\* dropped; the messages of one conversation start in the order they arrived.
THEOREM QueueKept == Spec => QueuePromise
<1>1. Init => Queue!Init /\ IInv /\ SInv /\ Told(db)
    BY InitTold, InitIInv, InitSafe
<1>2. IInv /\ SInv /\ Told(db) /\ [Next]_vars =>
        /\ (IInv /\ SInv /\ Told(db))'
        /\ [Queue!Move]_<<[s \in Sources |-> Stage(s)], [s \in Sources |-> db.src[s].conv]>>
    <2> SUFFICES ASSUME IInv, SInv, Told(db), [Next]_vars
                 PROVE  /\ (IInv /\ SInv /\ Told(db))'
                        /\ [Queue!Move]_<<[s \in Sources |-> Stage(s)], [s \in Sources |-> db.src[s].conv]>>
        OBVIOUS
    <2>1. IInv' /\ SInv'
        BY Inductive, InductiveSafe DEF Step
    <2> QED
        BY <2>1, StepMoves
<1> QED
    BY <1>1, <1>2, PTL DEF Spec, QueuePromise, Queue!Spec
=============================================================================
