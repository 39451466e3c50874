------------------------ MODULE ConversationStoreProofs ------------------------
(***************************************************************************)
(* What the operations of ConversationStore preserve, whatever the bounds. *)
(***************************************************************************)
EXTENDS ConversationStore, Sequences, FiniteSetTheorems, WellFoundedInduction, TLAPS

\* Every non-empty set of numbers has a least element, which Least names.
LEMMA LeastInSet ==
    ASSUME NEW S \in SUBSET Nat, S # {}
    PROVE  Least(S) \in S /\ \A y \in S : Least(S) <= y
<1> DEFINE R == OpToRel(<, Nat)
<1>1. R = {p \in Nat \X Nat : p[1] < p[2]}
    BY DEF OpToRel
<1>2. IsWellFoundedOn(R, Nat)
    BY NatLessThanWellFounded
<1> HIDE DEF R
<1>3. PICK x \in S : \A y \in S : ~(<<y, x>> \in R)
    BY <1>2, WFMin
<1>4. ASSUME NEW y \in S PROVE x <= y
    <2>1. <<y, x>> \notin {p \in Nat \X Nat : p[1] < p[2]}
        BY <1>1, <1>3
    <2>2. ~(y < x)
        BY <2>1, Zenon
    <2> QED
        BY <2>2
<1> QED
    BY <1>4 DEF Least

\* Every non-empty set of numbers below a bound has a greatest element.
LEMMA GreatestExists ==
    ASSUME NEW n \in Nat, NEW S \in SUBSET (0..n), S # {}
    PROVE  \E x \in S : \A y \in S : y <= x
<1> DEFINE T == {z \in 0..n : n - z \in S}
<1>0. T \in SUBSET Nat
    OBVIOUS
<1>1. T # {}
    <2>1. PICK y \in S : TRUE
        OBVIOUS
    <2>2. n - y \in T
        <3>1. y \in 0..n /\ n - y \in 0..n /\ n - (n - y) = y
            OBVIOUS
        <3> QED
            BY <3>1
    <2> QED
        BY <2>2
<1>2. Least(T) \in T /\ \A z \in T : Least(T) <= z
    BY <1>0, <1>1, LeastInSet
<1>3. \A y \in S : n - y \in T
    <2>1. TAKE y \in S
    <2>2. y \in 0..n /\ n - y \in 0..n /\ n - (n - y) = y
        OBVIOUS
    <2> QED
        BY <2>2
<1>4. n - Least(T) \in S
    BY <1>2
<1>5. \A y \in S : y <= n - Least(T)
    <2>1. TAKE y \in S
    <2>2. Least(T) <= n - y
        BY <1>2, <1>3
    <2>3. Least(T) \in 0..n
        BY <1>2
    <2> HIDE DEF T
    <2> QED
        BY <2>2, <2>3
<1> QED
    BY <1>4, <1>5

-----------------------------------------------------------------------------
\* What every transaction keeps: e is a database, no attempt disappears, one
\* that does not exist has no turn, and a turn once bound stays bound.
Evolves(d, e) ==
    /\ e \in Databases
    /\ \A b \in Attempts :
         /\ e.att[b].state = "absent" => /\ d.att[b].state = "absent"
                                         /\ e.att[b].turn = d.att[b].turn
         /\ d.att[b].turn # NoTurn => e.att[b].turn = d.att[b].turn

LEMMA EvolvesReflexive == ASSUME NEW d \in Databases PROVE Evolves(d, d)
    BY DEF Evolves

LEMMA EvolvesTransitive ==
    ASSUME NEW d, NEW e, NEW f, Evolves(d, e), Evolves(e, f)
    PROVE  Evolves(d, f)
    BY DEF Evolves

\* A transaction that leaves the attempts alone has only to keep the types.
LEMMA EvolvesSameAttempts ==
    ASSUME NEW d, NEW e \in Databases, e.att = d.att
    PROVE  Evolves(d, e)
    BY DEF Evolves

LEMMA EmptyDatabaseType == EmptyDatabase \in Databases
    BY BoundsAssumption
    DEF EmptyDatabase, Databases, SourceRows, AttemptRows, MemberRows, SourceStates,
        AttemptStates, MemberStates, NoMember, Sources

\* Typed updates of the tables.
MemberTables == [Attempts -> [Sources -> MemberRows]]

LEMMA MemberRowUpdate ==
    ASSUME NEW f \in MemberTables, NEW a \in Attempts, NEW s \in Sources, NEW r \in MemberRows
    PROVE  [f EXCEPT ![a][s] = r] \in MemberTables
    BY DEF MemberTables

LEMMA MemberStateUpdate ==
    ASSUME NEW f \in MemberTables, NEW a \in Attempts, NEW s \in Sources, NEW x \in MemberStates
    PROVE  [f EXCEPT ![a][s].state = x] \in MemberTables
<1>1. [f[a][s] EXCEPT !.state = x] \in MemberRows
    BY DEF MemberTables, MemberRows
<1> QED
    BY <1>1 DEF MemberTables

LEMMA MemberObservedUpdate ==
    ASSUME NEW f \in MemberTables, NEW a \in Attempts, NEW s \in Sources, NEW x \in BOOLEAN
    PROVE  [f EXCEPT ![a][s].observed = x] \in MemberTables
<1>1. [f[a][s] EXCEPT !.observed = x] \in MemberRows
    BY DEF MemberTables, MemberRows
<1> QED
    BY <1>1 DEF MemberTables

LEMMA MemberTriesUpdate ==
    ASSUME NEW f \in MemberTables, NEW a \in Attempts, NEW s \in Sources, NEW x \in 0..MaxReconcile
    PROVE  [f EXCEPT ![a][s].tries = x] \in MemberTables
<1>1. [f[a][s] EXCEPT !.tries = x] \in MemberRows
    BY DEF MemberTables, MemberRows
<1> QED
    BY <1>1 DEF MemberTables

LEMMA MemberTableUpdate ==
    ASSUME NEW d \in Databases, NEW f \in MemberTables
    PROVE  Evolves(d, [d EXCEPT !.mem = f])
    BY DEF Databases, Evolves, MemberTables

LEMMA MemberTableType == ASSUME NEW d \in Databases PROVE d.mem \in MemberTables
    BY DEF Databases, MemberTables

LEMMA SourceStateUpdate ==
    ASSUME NEW d \in Databases, NEW s \in Sources, NEW x \in SourceStates
    PROVE  Evolves(d, [d EXCEPT !.src[s].state = x])
    BY ZenonT(60) DEF Databases, SourceRows, Evolves

LEMMA QueueNoticesEvolves ==
    ASSUME NEW d \in Databases, NEW S \in SUBSET Sources
    PROVE  Evolves(d, QueueNotices(d, S))
    BY DEF QueueNotices, Notices, Databases, Evolves

LEMMA InsertSourceEvolves ==
    ASSUME NEW d \in Databases, NEW s \in Sources, NEW c \in Conversations \cup {Internal}
    PROVE  Evolves(d, InsertSource(d, s, c))
    BY DEF InsertSource, Databases, Evolves, SourceRows, SourceStates

LEMMA AcceptChatSourceEvolves ==
    ASSUME NEW d \in Databases, NEW s \in Sources, NEW c \in Conversations, NEW current
    PROVE  Evolves(d, AcceptChatSource(d, s, c, current))
    BY InsertSourceEvolves, QueueNoticesEvolves, EvolvesTransitive, EvolvesReflexive
    DEF AcceptChatSource, Evolves

LEMMA ReserveEvolves ==
    ASSUME NEW d \in Databases, NEW a \in Attempts, NEW s \in Sources,
           NEW as \in {"start_submitting", "steer_submitting"}
    PROVE  Evolves(d, Reserve(d, a, s, as))
<1> DEFINE r == [NoMember EXCEPT !.state = as]
           e == [d EXCEPT !.mem[a][s] = r]
<1>1. r \in MemberRows
    <2>1. NoMember \in MemberRows
        BY BoundsAssumption DEF MemberRows, MemberStates, NoMember
    <2>2. as \in MemberStates
        BY DEF MemberStates, Live, Unresolved
    <2> QED
        BY <2>1, <2>2 DEF MemberRows
<1>2. [d.mem EXCEPT ![a][s] = r] \in MemberTables
    BY <1>1, MemberTableType, MemberRowUpdate
<1>3. Evolves(d, e) /\ e \in Databases
    BY <1>2, MemberTableUpdate DEF Evolves
<1>4. Evolves(e, [e EXCEPT !.src[s].state = "active"])
    BY <1>3, SourceStateUpdate DEF SourceStates
<1>5. Reserve(d, a, s, as) = [e EXCEPT !.src[s].state = "active"]
    BY DEF Reserve, Databases
<1> QED
    BY <1>3, <1>4, <1>5, EvolvesTransitive

LEMMA TerminalizeEvolves ==
    ASSUME NEW d \in Databases, NEW a \in Attempts
    PROVE  Evolves(d, Terminalize(d, a))
    BY ZenonT(60) DEF Terminalize, Databases, Evolves, AttemptRows

LEMMA ConfirmStartEvolves ==
    ASSUME NEW d \in Databases, NEW a \in Attempts, NEW s \in Sources, NEW t \in Turns,
           NEW terminal \in BOOLEAN
    PROVE  Evolves(d, ConfirmStart(d, a, s, t, terminal))
<1> DEFINE b == [d EXCEPT !.att[a].turn = t,
                          !.mem[a][s].state = "submitted", !.mem[a][s].observed = TRUE]
           c == StartConfirmation(d, a, s, t, terminal)
<1>1. CASE c = "bound"
    <2>1. d.att[a].state = "active" /\ d.att[a].turn = NoTurn
        BY <1>1 DEF StartConfirmation
    <2> DEFINE f == [d.mem EXCEPT ![a][s].state = "submitted"]
               g == [f EXCEPT ![a][s].observed = TRUE]
    <2>a. f \in MemberTables
        BY MemberTableType, MemberStateUpdate DEF MemberStates, Live
    <2>b. g \in MemberTables
        BY <2>a, MemberObservedUpdate
    <2>c. [d.att EXCEPT ![a].turn = t] \in [Attempts -> AttemptRows]
        BY DEF Databases, AttemptRows
    <2>d. b = [d EXCEPT !.att = [d.att EXCEPT ![a].turn = t], !.mem = g]
        BY DEF Databases
    <2>2. b \in Databases
        BY <2>b, <2>c, <2>d DEF Databases, MemberTables
    <2> DEFINE q == [d.att EXCEPT ![a].turn = t]
    <2>e. b.att = q
        BY <2>d DEF Databases
    <2> HIDE DEF b
    <2>f. \A x \in Attempts \ {a} : q[x] = d.att[x]
        BY DEF Databases
    <2>g. q[a].state = "active"
        BY <2>1 DEF Databases, AttemptRows
    <2>3. Evolves(d, b)
        BY <2>1, <2>2, <2>e, <2>f, <2>g DEF Evolves
    <2> USE DEF b
    <2>4. Evolves(d, Terminalize(b, a))
        BY <2>2, <2>3, TerminalizeEvolves, EvolvesTransitive
    <2> QED
        BY <1>1, <2>3, <2>4 DEF ConfirmStart
<1>2. CASE c # "bound"
    BY <1>2, TerminalizeEvolves, EvolvesReflexive DEF ConfirmStart
<1> QED
    BY <1>1, <1>2

LEMMA ConfirmSteerEvolves ==
    ASSUME NEW d \in Databases, NEW a \in Attempts, NEW s \in Sources, NEW t
    PROVE  Evolves(d, ConfirmSteer(d, a, s, t))
<1> DEFINE Confirmed(x) == [[d.mem EXCEPT ![a][s].state = x] EXCEPT ![a][s].observed = TRUE]
           e == [d EXCEPT !.mem = Confirmed("completed")]
           r == [d.src EXCEPT ![s].state = "completed", ![s].released = TRUE]
<1>1. ASSUME NEW x \in MemberStates PROVE Confirmed(x) \in MemberTables
    BY MemberTableType, MemberStateUpdate, MemberObservedUpdate
<1>2. Confirmed("submitted") \in MemberTables /\ Confirmed("completed") \in MemberTables
    BY <1>1 DEF MemberStates, Live
<1>3. r \in [Sources -> SourceRows]
    BY ZenonT(60) DEF Databases, SourceRows, SourceStates
<1> HIDE DEF Confirmed, r
<1>4. /\ Evolves(d, [d EXCEPT !.mem = Confirmed("submitted")])
      /\ Evolves(d, [d EXCEPT !.mem = Confirmed("completed")])
    BY <1>2, MemberTableUpdate
<1>5. Evolves(d, [[d EXCEPT !.mem = Confirmed("completed")] EXCEPT !.src = r])
    BY <1>2, <1>3 DEF Evolves, Databases, MemberTables
<1>6. \/ ConfirmSteer(d, a, s, t) = d
      \/ ConfirmSteer(d, a, s, t) = [d EXCEPT !.mem = Confirmed("submitted")]
      \/ ConfirmSteer(d, a, s, t) = [[d EXCEPT !.mem = Confirmed("completed")] EXCEPT !.src = r]
    BY ZenonT(60) DEF ConfirmSteer, Confirmed, r, Databases
<1> QED
    BY <1>4, <1>5, <1>6, EvolvesReflexive

LEMMA MarkUncertainEvolves ==
    ASSUME NEW d \in Databases, NEW a \in Attempts, NEW s \in Sources
    PROVE  Evolves(d, MarkUncertain(d, a, s))
<1>1. [d.mem EXCEPT ![a][s].state = "uncertain"] \in MemberTables
    BY MemberTableType, MemberStateUpdate DEF MemberStates, Live, Unresolved
<1> QED
    BY <1>1, MemberTableUpdate DEF MarkUncertain

LEMMA MarkUncertainIfUnresolvedEvolves ==
    ASSUME NEW d \in Databases, NEW a \in Attempts, NEW s \in Sources
    PROVE  Evolves(d, MarkUncertainIfUnresolved(d, a, s))
    BY MarkUncertainEvolves, EvolvesReflexive DEF MarkUncertainIfUnresolved

LEMMA ObserveUnknownStartTerminalEvolves ==
    ASSUME NEW d \in Databases, NEW a \in Attempts, NEW s \in Sources
    PROVE  Evolves(d, ObserveUnknownStartTerminal(d, a, s))
    BY MarkUncertainEvolves, EvolvesReflexive DEF ObserveUnknownStartTerminal

LEMMA MarkNeedsAttentionEvolves ==
    ASSUME NEW d \in Databases, NEW a \in Attempts, NEW s \in Sources
    PROVE  Evolves(d, MarkNeedsAttention(d, a, s))
<1> DEFINE f == [d.mem EXCEPT ![a][s].state = "failed"]
           r == [d.src EXCEPT ![s] = [@ EXCEPT !.state = "completed", !.released = TRUE]]
           q == [d.att EXCEPT ![a] = IF IsStart(d, a, s)
                                     THEN [@ EXCEPT !.state = "failed", !.accepting = FALSE] ELSE @]
           o == d.out \cup {[kind |-> "needs_attention", id |-> s]}
<1>1. f \in MemberTables
    BY MemberTableType, MemberStateUpdate DEF MemberStates
<1>2. r \in [Sources -> SourceRows]
    BY ZenonT(60) DEF Databases, SourceRows, SourceStates
<1>3. /\ q \in [Attempts -> AttemptRows]
      /\ \A b \in Attempts : q[b].turn = d.att[b].turn /\ (q[b].state = "absent" => d.att[b].state = "absent")
    BY ZenonT(60) DEF Databases, AttemptRows, AttemptStates
<1>4. o \in SUBSET Notices
    BY DEF Databases, Notices
<1>5. MarkNeedsAttention(d, a, s) = [d EXCEPT !.mem = f, !.src = r, !.att = q, !.out = o]
    BY DEF MarkNeedsAttention
<1> HIDE DEF f, r, q, o
<1> QED
    BY <1>1, <1>2, <1>3, <1>4, <1>5 DEF Evolves, Databases, MemberTables

LEMMA BeginReconciliationEvolves ==
    ASSUME NEW d \in Databases, NEW a \in Attempts, NEW s \in Sources,
           NEW dec \in ReconcileDecisions(d, a, s)
    PROVE  Evolves(d, BeginReconciliation(d, a, s, dec))
<1>1. CASE dec = "ready"
    <2>1. d.mem[a][s].tries + 1 \in 0..MaxReconcile
        BY <1>1, BoundsAssumption DEF ReconcileDecisions, Databases, MemberRows
    <2>2. [d.mem EXCEPT ![a][s].tries = d.mem[a][s].tries + 1] \in MemberTables
        BY <2>1, MemberTableType, MemberTriesUpdate
    <2> QED
        BY <1>1, <2>2, MemberTableUpdate DEF BeginReconciliation
<1>2. CASE dec # "ready"
    BY <1>2, MarkNeedsAttentionEvolves, EvolvesReflexive DEF BeginReconciliation
<1> QED
    BY <1>1, <1>2

LEMMA RestorePendingEvolves ==
    ASSUME NEW d \in Databases, NEW a \in Attempts, NEW s \in Sources
    PROVE  Evolves(d, RestorePending(d, a, s))
<1> DEFINE e == [d EXCEPT !.mem = [d.mem EXCEPT ![a][s].state = "failed"]]
<1>1. [d.mem EXCEPT ![a][s].state = "failed"] \in MemberTables
    BY MemberTableType, MemberStateUpdate DEF MemberStates
<1>2. Evolves(d, e) /\ e \in Databases
    BY <1>1, MemberTableUpdate DEF Evolves
<1>3. Evolves(e, [e EXCEPT !.src[s].state = "pending"])
    BY <1>2, SourceStateUpdate DEF SourceStates
<1>4. RestorePending(d, a, s) = [e EXCEPT !.src[s].state = "pending"]
    BY DEF RestorePending, Databases
<1> QED
    BY <1>2, <1>3, <1>4, EvolvesTransitive

LEMMA FailUnstartedAttemptEvolves ==
    ASSUME NEW d \in Databases, NEW a \in Attempts
    PROVE  Evolves(d, FailUnstartedAttempt(d, a))
    BY ZenonT(60) DEF FailUnstartedAttempt, Evolves, Databases, AttemptRows, AttemptStates

LEMMA FailOrphanedUnstartedAttemptsEvolves ==
    ASSUME NEW d \in Databases
    PROVE  Evolves(d, FailOrphanedUnstartedAttempts(d))
    BY ZenonT(60) DEF FailOrphanedUnstartedAttempts, Evolves, Databases, AttemptRows, AttemptStates

LEMMA CompleteSourcesEvolves ==
    ASSUME NEW d \in Databases, NEW S
    PROVE  Evolves(d, CompleteSources(d, S))
    BY ZenonT(60) DEF CompleteSources, Evolves, Databases, SourceRows, SourceStates

LEMMA MoveMembersEvolves ==
    ASSUME NEW d \in Databases, NEW a \in Attempts, NEW from, NEW to \in MemberStates
    PROVE  Evolves(d, MoveMembers(d, a, from, to))
<1> DEFINE row == [s \in Sources |-> IF d.mem[a][s].state \in from
                                     THEN [d.mem[a][s] EXCEPT !.state = to] ELSE d.mem[a][s]]
<1>1. row \in [Sources -> MemberRows]
    BY SMTT(60) DEF Databases, MemberRows
<1>2. [d.mem EXCEPT ![a] = row] \in MemberTables
    BY <1>1, MemberTableType DEF MemberTables
<1>3. MoveMembers(d, a, from, to) = [d EXCEPT !.mem = [d.mem EXCEPT ![a] = row]]
    BY DEF MoveMembers, Databases
<1> QED
    BY <1>2, <1>3, MemberTableUpdate

LEMMA MarkTerminalNeedsAttentionEvolves ==
    ASSUME NEW d \in Databases, NEW a \in Attempts
    PROVE  Evolves(d, MarkTerminalNeedsAttention(d, a))
<1> DEFINE held == {s \in Members(d, a, {"submitted"}) : d.src[s].state = "active"}
           m    == MoveMembers(d, a, {"submitted"}, "failed")
           e    == CompleteSources(m, held)
           f    == [e EXCEPT !.att[a] = [@ EXCEPT !.state = "failed", !.accepting = FALSE],
                             !.out = @ \cup {[kind |-> "terminal_needs_attention", id |-> a]}]
<1>1. Evolves(d, m) /\ m \in Databases
    BY MoveMembersEvolves DEF MemberStates, Evolves
<1>2. Evolves(m, e) /\ e \in Databases
    BY <1>1, CompleteSourcesEvolves DEF Evolves
<1> HIDE DEF e
<1>3. Evolves(e, f)
    <2> DEFINE q == [e.att EXCEPT ![a] = [@ EXCEPT !.state = "failed", !.accepting = FALSE]]
               o == e.out \cup {[kind |-> "terminal_needs_attention", id |-> a]}
    <2> DEFINE row == [e.att[a] EXCEPT !.state = "failed", !.accepting = FALSE]
    <2>0. e.att[a] \in AttemptRows
        BY <1>2 DEF Databases
    <2>a. row \in AttemptRows /\ row.turn = e.att[a].turn /\ row.state = "failed"
        BY <2>0 DEF AttemptRows, AttemptStates
    <2>b. q = [e.att EXCEPT ![a] = row]
        OBVIOUS
    <2> HIDE DEF q, row
    <2>1. /\ q \in [Attempts -> AttemptRows]
          /\ \A b \in Attempts : q[b].turn = e.att[b].turn /\ (q[b].state = "absent" => e.att[b].state = "absent")
        BY <1>2, <2>a, <2>b DEF Databases
    <2> USE DEF q
    <2>2. o \in SUBSET Notices
        BY <1>2 DEF Databases, Notices
    <2>3. f = [e EXCEPT !.att = q, !.out = o]
        OBVIOUS
    <2> HIDE DEF q, o, f
    <2> QED
        BY <1>2, <2>1, <2>2, <2>3 DEF Evolves, Databases
<1>4. Evolves(d, f)
    BY <1>1, <1>2, <1>3, EvolvesTransitive
<1> QED
    BY <1>4 DEF MarkTerminalNeedsAttention, e

LEMMA BeginTerminalReconciliationEvolves ==
    ASSUME NEW d \in Databases, NEW a \in Attempts, NEW dec \in TerminalDecisions(d, a)
    PROVE  Evolves(d, BeginTerminalReconciliation(d, a, dec))
<1>1. CASE dec = "ready"
    <2>1. d.att[a].tries + 1 \in 0..MaxReconcile
        BY <1>1, BoundsAssumption DEF TerminalDecisions, Databases, AttemptRows
    <2> QED
        BY ZenonT(60), <1>1, <2>1 DEF BeginTerminalReconciliation, Evolves, Databases, AttemptRows
<1>2. CASE dec # "ready"
    BY <1>2, MarkTerminalNeedsAttentionEvolves, EvolvesReflexive DEF BeginTerminalReconciliation
<1> QED
    BY <1>1, <1>2

LEMMA CloseAttemptEvolves ==
    ASSUME NEW d \in Databases, NEW a \in Attempts, NEW as \in {"completed", "failed"}
    PROVE  Evolves(d, CloseAttempt(d, a, as))
    BY ZenonT(60) DEF CloseAttempt, Evolves, Databases, AttemptRows, AttemptStates

\* The three ways in which handleTerminal closes an attempt.
LEMMA CompleteAttemptEvolves ==
    ASSUME NEW d \in Databases, NEW a \in Attempts
    PROVE  Evolves(d, CompleteAttempt(d, a))
<1> DEFINE c == CloseAttempt(d, a, "completed")
           m == MoveMembers(c, a, {"submitted"}, "completed")
           e == CompleteSources(m, Carried(d, a))
           f == [e EXCEPT !.out = @ \cup {[kind |-> "final", id |-> a]}]
<1>1. Evolves(d, c) /\ c \in Databases
    BY CloseAttemptEvolves DEF Evolves
<1> HIDE DEF c
<1>2. Evolves(c, m) /\ m \in Databases
    BY <1>1, MoveMembersEvolves DEF MemberStates, Evolves
<1> HIDE DEF m
<1>3. Evolves(m, e) /\ e \in Databases
    BY <1>2, CompleteSourcesEvolves DEF Evolves
<1> HIDE DEF e
<1>4. Evolves(e, f)
    BY SMTT(60), <1>3 DEF Evolves, Databases, Notices
<1>5. Evolves(d, e) /\ Evolves(d, f)
    BY <1>1, <1>2, <1>3, <1>4, EvolvesTransitive
<1> QED
    BY <1>5 DEF CompleteAttempt, c, m, e

LEMMA RetryAttemptEvolves ==
    ASSUME NEW d \in Databases, NEW a \in Attempts
    PROVE  Evolves(d, RetryAttempt(d, a))
<1> DEFINE c == CloseAttempt(d, a, "failed")
           m == MoveMembers(c, a, MemberStates \ {"none", "completed", "superseded"}, "failed")
           e == CompleteSources(m, Spent(d, a))
           f == [e EXCEPT !.src = [s \in Sources |-> IF s \in Carried(d, a) \ Spent(d, a)
                                                     THEN [@[s] EXCEPT !.state = "pending"] ELSE @[s]],
                          !.out = @ \cup {[kind |-> "exhausted", id |-> s] : s \in Spent(d, a)}]
<1>1. Evolves(d, c) /\ c \in Databases
    BY CloseAttemptEvolves DEF Evolves
<1> HIDE DEF c
<1>2. Evolves(c, m) /\ m \in Databases
    BY <1>1, MoveMembersEvolves DEF MemberStates, Evolves
<1> HIDE DEF m
<1>3. Evolves(m, e) /\ e \in Databases
    BY <1>2, CompleteSourcesEvolves DEF Evolves
<1> HIDE DEF e
<1>4. Carried(d, a) \subseteq Sources /\ Spent(d, a) \subseteq Sources
    BY DEF Carried, Spent, Members, Databases, AttemptRows
<1>5. Evolves(e, f)
    <2> DEFINE r == [s \in Sources |-> IF s \in Carried(d, a) \ Spent(d, a)
                                       THEN [e.src[s] EXCEPT !.state = "pending"] ELSE e.src[s]]
               o == e.out \cup {[kind |-> "exhausted", id |-> s] : s \in Spent(d, a)}
    <2>1. r \in [Sources -> SourceRows]
        BY ZenonT(60), <1>3 DEF Databases, SourceRows, SourceStates
    <2>2. o \in SUBSET Notices
        BY <1>3, <1>4 DEF Databases, Notices
    <2>3. f = [e EXCEPT !.src = r, !.out = o]
        OBVIOUS
    <2> HIDE DEF r, o, f
    <2> QED
        BY <1>3, <2>1, <2>2, <2>3 DEF Evolves, Databases
<1>6. Evolves(d, f)
    BY <1>1, <1>2, <1>3, <1>5, EvolvesTransitive
<1> QED
    BY <1>6 DEF RetryAttempt, c, m, e

LEMMA SupersedeAttemptEvolves ==
    ASSUME NEW d \in Databases, NEW a \in Attempts, NEW r \in Sources
    PROVE  Evolves(d, SupersedeAttempt(d, a, r))
<1> DEFINE c == CloseAttempt(d, a, "failed")
           m == MoveMembers(c, a, {"submitted"}, "superseded")
           f == [m EXCEPT !.src = [s \in Sources |->
                    IF s = r THEN [state |-> "pending", conv |-> Internal, released |-> FALSE]
                    ELSE IF s \in Carried(d, a) THEN [@[s] EXCEPT !.state = "superseded", !.released = TRUE]
                    ELSE @[s]]]
<1>1. Evolves(d, c) /\ c \in Databases
    BY CloseAttemptEvolves DEF Evolves
<1> HIDE DEF c
<1>2. Evolves(c, m) /\ m \in Databases
    BY <1>1, MoveMembersEvolves DEF MemberStates, Evolves
<1> HIDE DEF m
<1>3. Evolves(m, f)
    <2> DEFINE x == [s \in Sources |->
                    IF s = r THEN [state |-> "pending", conv |-> Internal, released |-> FALSE]
                    ELSE IF s \in Carried(d, a) THEN [m.src[s] EXCEPT !.state = "superseded", !.released = TRUE]
                    ELSE m.src[s]]
    <2>1. [state |-> "pending", conv |-> Internal, released |-> FALSE] \in SourceRows
        BY DEF SourceRows, SourceStates
    <2>2. ASSUME NEW s \in Sources
          PROVE  [m.src[s] EXCEPT !.state = "superseded", !.released = TRUE] \in SourceRows /\ m.src[s] \in SourceRows
        <3>1. m.src[s] \in SourceRows
            BY <1>2 DEF Databases
        <3> QED
            BY <3>1 DEF SourceRows, SourceStates
    <2>3. x \in [Sources -> SourceRows]
        BY <2>1, <2>2
    <2>4. f = [m EXCEPT !.src = x]
        OBVIOUS
    <2> HIDE DEF x, f
    <2> QED
        BY <1>2, <2>3, <2>4 DEF Evolves, Databases
<1>4. Evolves(d, f)
    BY <1>1, <1>2, <1>3, EvolvesTransitive
<1> QED
    BY <1>4 DEF SupersedeAttempt, c, m

\* A new attempt takes the place of a row that has no turn.
LEMMA CreateAttemptEvolves ==
    ASSUME NEW d \in Databases, NEW a \in Attempts, NEW s \in Sources, d.att[a].turn = NoTurn
    PROVE  Evolves(d, CreateAttempt(d, a, s))
<1> DEFINE e == [d EXCEPT !.att[a] = [state |-> "active", primary |-> s, turn |-> NoTurn,
                                      accepting |-> TRUE, tries |-> 0]]
<1>1. e \in Databases
    <2>1. [state |-> "active", primary |-> s, turn |-> NoTurn, accepting |-> TRUE, tries |-> 0]
            \in AttemptRows
        BY BoundsAssumption DEF AttemptRows, AttemptStates, NoTurn
    <2> QED
        BY <2>1 DEF Databases
<1>2. Evolves(d, e)
    BY <1>1 DEF Evolves, Databases
<1> HIDE DEF e
<1>3. ASSUME NEW S \in SUBSET Sources PROVE Evolves(d, QueueNotices(e, S))
    BY <1>1, <1>2, QueueNoticesEvolves, EvolvesTransitive
<1> QED
    BY <1>3 DEF CreateAttempt, Pending, e

-----------------------------------------------------------------------------
(***************************************************************************)
(* How the three tables agree with each other and with the native thread   *)
(* th, and which operations keep it so.                                    *)
(***************************************************************************)

\* Some turn of the native thread th has the input.
Ran(th, a, s) == \E t \in 1..Len(th) : <<a, s>> \in th[t].inputs

IsActive(e, a) == e.att[a].state = "active"
LiveIn(e, a, s) == e.mem[a][s].state \in Live
\* A steer that was completed on an attempt not yet closed.
CompletedIn(e, a, s) == e.mem[a][s].state = "completed" /\ IsActive(e, a)
Working(e, a, s) == LiveIn(e, a, s) \/ CompletedIn(e, a, s)
Spoilt(e, a, s) == e.att[a].state = "failed" /\ e.mem[a][s].observed
Waiting(e, s) == e.src[s].state \in {"pending", "active"}

\* The source is done with, and no attempt still carries it.
Over(e, s) == /\ e.src[s].state \in {"completed", "superseded"}
              /\ \A a \in Attempts : ~CompletedIn(e, a, s)

\* A bound attempt that takes no more steers and has none open.
Shut(e, a) == /\ e.att[a].turn # NoTurn
              /\ IsActive(e, a) => ~e.att[a].accepting
              /\ \A s \in Sources : e.mem[a][s].state \notin Unresolved

\* The members of an attempt.
MemberFits(e, a, s) ==
    /\ e.mem[a][s].state # "none" => /\ e.att[a].state # "absent"
                                     /\ e.att[a].turn = NoTurn => IsStart(e, a, s)
    /\ IsStart(e, a, s) =>
         /\ IsActive(e, a) /\ e.att[a].turn # NoTurn => e.mem[a][s].state = "submitted"
         /\ e.mem[a][s].state \in Unresolved => IsActive(e, a) /\ e.att[a].turn = NoTurn
    /\ e.mem[a][s].state = "submitted" => IsActive(e, a)
    /\ e.mem[a][s].state = "none" => ~e.mem[a][s].observed
    /\ IsActive(e, a) => (e.mem[a][s].observed <=> e.mem[a][s].state \in {"submitted", "completed"})

MembersFit(e) == \A a \in Attempts, s \in Sources : MemberFits(e, a, s)

\* The row of a source and its submissions.
SourcesFit(e) ==
    \A s \in Sources :
      /\ e.src[s].state = "absent" => \A a \in Attempts : e.mem[a][s].state = "none"
      /\ e.src[s].state = "active" <=> \E a \in Attempts : LiveIn(e, a, s)
      /\ \A a \in Attempts : CompletedIn(e, a, s) => e.src[s].state = "completed"
      /\ \A a, b \in Attempts : Working(e, a, s) /\ Working(e, b, s) => a = b

\* A turn has the inputs of one attempt, its start among them; later turns
\* belong to later attempts, and only the last one may still run.
ThreadFits(e, th) ==
    /\ \A t \in 1..Len(th) :
         /\ \E a \in Attempts : <<a, e.att[a].primary>> \in th[t].inputs
         /\ th[t].status = "active" => t = Len(th)
         /\ \A a \in Attempts, s \in Sources : <<a, s>> \in th[t].inputs =>
              /\ e.mem[a][s].state # "none"
              /\ ~IsStart(e, a, s) => e.att[a].turn = t
         /\ \A a, b \in Attempts, s, z \in Sources :
              <<a, s>> \in th[t].inputs /\ <<b, z>> \in th[t].inputs =>
                a = b /\ (s = z \/ SameConversation(e, s, z))
    /\ \A t, u \in 1..Len(th) : \A a, b \in Attempts, s, z \in Sources :
         <<a, s>> \in th[t].inputs /\ <<b, z>> \in th[u].inputs /\ t < u => a < b
    /\ \A a \in Attempts : e.att[a].turn # NoTurn =>
         e.att[a].turn \in 1..Len(th) /\ <<a, e.att[a].primary>> \in th[e.att[a].turn].inputs

\* What ran once runs again only when it was seen to fail.
RunsFit(e, th) ==
    \A b \in Attempts, s \in Sources : Ran(th, b, s) =>
      /\ e.src[s].state = "pending" => Spoilt(e, b, s)
      /\ \A a \in Attempts \ {b} :
           /\ Working(e, a, s) => Spoilt(e, b, s)
           /\ b < a /\ Ran(th, a, s) => Spoilt(e, b, s)

BudgetFits(e) == \A s \in Sources : Waiting(e, s) => FailedAttempts(e, s) < MaxEffectFree

SourceWarned(e, s) == \E n \in e.out : n.kind \in {"needs_attention", "exhausted"} /\ n.id = s
AttemptWarned(e, a) == [kind |-> "terminal_needs_attention", id |-> a] \in e.out

WarningsFit(e) ==
    /\ \A s \in Sources : SourceWarned(e, s) => Over(e, s)
    /\ \A a \in Attempts : AttemptWarned(e, a) =>
         e.att[a].state = "failed" /\ \A s \in Sources : e.mem[a][s].observed => Over(e, s)

\* Attempts are created in order.
AttemptsFit(e) ==
    \A a, b \in Attempts : e.att[a].state = "absent" /\ a < b => e.att[b].state = "absent"

Fits(e, th) == /\ MembersFit(e) /\ SourcesFit(e) /\ ThreadFits(e, th) /\ AttemptsFit(e)
               /\ RunsFit(e, th) /\ BudgetFits(e) /\ WarningsFit(e)

-----------------------------------------------------------------------------
\* What no transaction takes back.
Later(d, e) ==
    /\ \A a \in Attempts :
         /\ d.att[a].state # "absent" => e.att[a].state # "absent" /\ e.att[a].primary = d.att[a].primary
         /\ d.att[a].turn # NoTurn => e.att[a].turn = d.att[a].turn
         /\ d.att[a].state = "failed" => e.att[a].state = "failed"
         /\ Shut(d, a) => Shut(e, a)
    /\ \A s \in Sources : d.src[s].state # "absent" =>
         e.src[s].state # "absent" /\ e.src[s].conv = d.src[s].conv
    /\ \A a \in Attempts, s \in Sources :
         /\ d.mem[a][s].state # "none" => e.mem[a][s].state # "none"
         /\ d.mem[a][s].observed => e.mem[a][s].observed

\* A turn newly bound has the start of its attempt.
BindsTruly(d, e, th) ==
    \A a \in Attempts : e.att[a].turn # d.att[a].turn =>
      e.att[a].turn \in 1..Len(th) /\ <<a, e.att[a].primary>> \in th[e.att[a].turn].inputs

\* An attempt newly created is the first that was missing.
InOrder(d, e) ==
    \A b \in Attempts : d.att[b].state = "absent" /\ e.att[b].state # "absent" =>
      \A c \in Attempts : c < b => e.att[c].state # "absent"

LEMMA LaterReflexive == ASSUME NEW d PROVE Later(d, d)
    BY DEF Later

LEMMA LaterTransitive ==
    ASSUME NEW d, NEW e, NEW f, Later(d, e), Later(e, f) PROVE Later(d, f)
    BY DEF Later

\* What ran has a member, a primary and a conversation.
LEMMA RanIsMember ==
    ASSUME NEW e, NEW th, MembersFit(e), SourcesFit(e), ThreadFits(e, th),
           NEW t \in 1..Len(th), NEW a \in Attempts, NEW s \in Sources, <<a, s>> \in th[t].inputs
    PROVE  /\ e.mem[a][s].state # "none" /\ e.att[a].state # "absent" /\ e.src[s].state # "absent"
           /\ ~IsStart(e, a, s) => e.att[a].turn = t
<1>1. /\ e.mem[a][s].state # "none"
      /\ ~IsStart(e, a, s) => e.att[a].turn = t
    BY DEF ThreadFits
<1> QED
    BY <1>1 DEF MembersFit, MemberFits, SourcesFit

LEMMA ThreadKept ==
    ASSUME NEW d \in Databases, NEW e \in Databases, NEW th, Len(th) \in Nat,
           MembersFit(d), SourcesFit(d), ThreadFits(d, th),
           Later(d, e), BindsTruly(d, e, th)
    PROVE  ThreadFits(e, th)
<1>1. \A a \in Attempts : d.att[a].primary \in Sources /\ e.att[a].primary \in Sources
    BY DEF Databases, AttemptRows
<1>2. \A t \in 1..Len(th), a \in Attempts, s \in Sources : <<a, s>> \in th[t].inputs =>
         /\ d.mem[a][s].state # "none" /\ d.att[a].state # "absent" /\ d.src[s].state # "absent"
         /\ ~IsStart(d, a, s) => d.att[a].turn = t
    BY RanIsMember
<1>3. \A t \in 1..Len(th), a \in Attempts, s \in Sources : <<a, s>> \in th[t].inputs =>
         /\ e.mem[a][s].state # "none" /\ e.att[a].primary = d.att[a].primary
         /\ e.src[s].conv = d.src[s].conv
         /\ ~IsStart(e, a, s) => e.att[a].turn = t
    <2>1. TAKE t \in 1..Len(th), a \in Attempts, s \in Sources
    <2>2. HAVE <<a, s>> \in th[t].inputs
    <2>3. t # NoTurn
        BY DEF NoTurn
    <2> QED
        BY <1>2, <2>2, <2>3 DEF Later, IsStart
<1>4. ASSUME NEW t \in 1..Len(th) PROVE \E a \in Attempts : <<a, e.att[a].primary>> \in th[t].inputs
    <2>1. PICK a \in Attempts : <<a, d.att[a].primary>> \in th[t].inputs
        BY DEF ThreadFits
    <2> QED
        BY <1>1, <1>3, <2>1
<1>5. ASSUME NEW t \in 1..Len(th), NEW a \in Attempts, NEW b \in Attempts, NEW s \in Sources, NEW z \in Sources,
             <<a, s>> \in th[t].inputs, <<b, z>> \in th[t].inputs
      PROVE  a = b /\ (s = z \/ SameConversation(e, s, z))
    <2>1. a = b /\ (s = z \/ SameConversation(d, s, z))
        BY <1>5 DEF ThreadFits
    <2> QED
        BY <1>3, <1>5, <2>1 DEF SameConversation, Chat
<1>6. ASSUME NEW a \in Attempts, e.att[a].turn # NoTurn
      PROVE  e.att[a].turn \in 1..Len(th) /\ <<a, e.att[a].primary>> \in th[e.att[a].turn].inputs
    <2>1. CASE e.att[a].turn # d.att[a].turn
        BY <2>1 DEF BindsTruly
    <2>2. CASE e.att[a].turn = d.att[a].turn
        <3>1. d.att[a].turn \in 1..Len(th) /\ <<a, d.att[a].primary>> \in th[d.att[a].turn].inputs
            BY <1>6, <2>2 DEF ThreadFits
        <3> QED
            BY <1>1, <1>3, <2>2, <3>1
    <2> QED
        BY <2>1, <2>2
<1>7. \A t \in 1..Len(th) : th[t].status = "active" => t = Len(th)
    BY DEF ThreadFits
<1>8. \A t, u \in 1..Len(th) : \A a, b \in Attempts, s, z \in Sources :
         <<a, s>> \in th[t].inputs /\ <<b, z>> \in th[u].inputs /\ t < u => a < b
    BY DEF ThreadFits
<1> HIDE DEF Attempts, Sources
<1> QED
    BY <1>3, <1>4, <1>5, <1>6, <1>7, <1>8 DEF ThreadFits

LEMMA RunsKept ==
    ASSUME NEW d, NEW e, NEW th, RunsFit(d, th), Later(d, e),
           \A s \in Sources : e.src[s].state = "pending" =>
             d.src[s].state = "pending" \/ \A b \in Attempts : Ran(th, b, s) => Spoilt(e, b, s),
           \A a \in Attempts, s \in Sources : Working(e, a, s) => Working(d, a, s) \/ d.src[s].state = "pending"
    PROVE  RunsFit(e, th)
<1>1. \A b \in Attempts, s \in Sources : Spoilt(d, b, s) => Spoilt(e, b, s)
    BY DEF Later, Spoilt
<1> QED
    BY <1>1 DEF RunsFit

Counted(e, a, s) == e.att[a].state = "failed" /\ e.att[a].turn # NoTurn /\ e.mem[a][s].observed

LEMMA AttemptsFinite == IsFiniteSet(Attempts) /\ Cardinality(Attempts) = MaxAttempts
    BY BoundsAssumption, FS_Interval DEF Attempts

LEMMA CountedSet ==
    ASSUME NEW e, NEW s
    PROVE  LET C == {a \in Attempts : Counted(e, a, s)}
           IN  IsFiniteSet(C) /\ FailedAttempts(e, s) = Cardinality(C) /\ Cardinality(C) \in Nat
<1> DEFINE C == {a \in Attempts : Counted(e, a, s)}
<1>1. IsFiniteSet(C)
    BY AttemptsFinite, FS_Subset
<1>2. C = {a \in Attempts : /\ e.att[a].state = "failed" /\ e.att[a].turn # NoTurn
                            /\ e.mem[a][s].observed}
    BY DEF Counted
<1>3. FailedAttempts(e, s) = Cardinality(C)
    BY <1>2 DEF FailedAttempts
<1> QED
    BY <1>1, <1>3, FS_CardinalityType

LEMMA FailedNoMore ==
    ASSUME NEW d, NEW e, NEW s, \A a \in Attempts : Counted(e, a, s) => Counted(d, a, s)
    PROVE  FailedAttempts(e, s) <= FailedAttempts(d, s)
<1> DEFINE C == {a \in Attempts : Counted(d, a, s)}
           E == {a \in Attempts : Counted(e, a, s)}
<1>1. IsFiniteSet(C) /\ FailedAttempts(d, s) = Cardinality(C)
    BY CountedSet
<1>2. FailedAttempts(e, s) = Cardinality(E)
    BY CountedSet
<1>3. E \subseteq C
    OBVIOUS
<1> HIDE DEF C, E
<1> QED
    BY <1>1, <1>2, <1>3, FS_Subset

LEMMA FailedOnceMore ==
    ASSUME NEW d, NEW e, NEW s, NEW b \in Attempts,
           \A a \in Attempts : Counted(e, a, s) => Counted(d, a, s) \/ a = b
    PROVE  FailedAttempts(e, s) <= FailedAttempts(d, s) + 1
<1> DEFINE C == {a \in Attempts : Counted(d, a, s)}
           E == {a \in Attempts : Counted(e, a, s)}
<1>1. IsFiniteSet(C) /\ FailedAttempts(d, s) = Cardinality(C) /\ Cardinality(C) \in Nat
    BY CountedSet
<1>2. FailedAttempts(e, s) = Cardinality(E) /\ Cardinality(E) \in Nat
    BY CountedSet
<1>3. E \subseteq C \cup {b}
    OBVIOUS
<1> HIDE DEF C, E
<1>4. /\ IsFiniteSet(C \cup {b})
      /\ Cardinality(C \cup {b}) = IF b \in C THEN Cardinality(C) ELSE Cardinality(C) + 1
    BY <1>1, FS_AddElement
<1>5. Cardinality(E) <= Cardinality(C \cup {b})
    BY <1>3, <1>4, FS_Subset
<1> QED
    BY <1>1, <1>2, <1>4, <1>5

LEMMA BudgetKept ==
    ASSUME NEW d, NEW e, BudgetFits(d),
           \A s \in Sources : Waiting(e, s) =>
             \/ Waiting(d, s) /\ \A a \in Attempts : Counted(e, a, s) => Counted(d, a, s)
             \/ FailedAttempts(e, s) < MaxEffectFree
    PROVE  BudgetFits(e)
<1> SUFFICES ASSUME NEW s \in Sources, Waiting(d, s), \A a \in Attempts : Counted(e, a, s) => Counted(d, a, s)
             PROVE  FailedAttempts(e, s) < MaxEffectFree
    BY DEF BudgetFits
<1>1. FailedAttempts(d, s) < MaxEffectFree
    BY DEF BudgetFits
<1>2. FailedAttempts(e, s) <= FailedAttempts(d, s)
    BY FailedNoMore
<1>3. FailedAttempts(e, s) \in Nat /\ FailedAttempts(d, s) \in Nat
    BY CountedSet
<1> QED
    BY <1>1, <1>2, <1>3, BoundsAssumption

LEMMA WarningsKept ==
    ASSUME NEW d, NEW e, WarningsFit(d), Later(d, e),
           \A s \in Sources : SourceWarned(e, s) => SourceWarned(d, s) \/ Over(e, s),
           \A a \in Attempts : AttemptWarned(e, a) => AttemptWarned(d, a) \/
             (e.att[a].state = "failed" /\ \A s \in Sources : e.mem[a][s].observed => Over(e, s)),
           \A a \in Attempts, s \in Sources :
             d.att[a].state = "failed" /\ e.mem[a][s].observed => d.mem[a][s].observed,
           \A s \in Sources : Over(d, s) => Over(e, s)
    PROVE  WarningsFit(e)
<1>1. \A s \in Sources : SourceWarned(e, s) => Over(e, s)
    BY DEF WarningsFit
<1>2. ASSUME NEW a \in Attempts, AttemptWarned(d, a), NEW s \in Sources, e.mem[a][s].observed
      PROVE  Over(e, s)
    <2>1. d.att[a].state = "failed" /\ (d.mem[a][s].observed => Over(d, s))
        BY <1>2 DEF WarningsFit
    <2> QED
        BY <1>2, <2>1
<1>3. \A a \in Attempts : AttemptWarned(d, a) => e.att[a].state = "failed"
    BY DEF WarningsFit, Later
<1> QED
    BY <1>1, <1>2, <1>3 DEF WarningsFit

\* What a transaction has to show.
LEMMA FitsKept ==
    ASSUME NEW d \in Databases, NEW e \in Databases, NEW th, Len(th) \in Nat, Fits(d, th),
           Later(d, e), BindsTruly(d, e, th), InOrder(d, e), MembersFit(e), SourcesFit(e),
           \A s \in Sources : e.src[s].state = "pending" =>
             d.src[s].state = "pending" \/ \A b \in Attempts : Ran(th, b, s) => Spoilt(e, b, s),
           \A a \in Attempts, s \in Sources : Working(e, a, s) => Working(d, a, s) \/ d.src[s].state = "pending",
           \A s \in Sources : Waiting(e, s) =>
             \/ Waiting(d, s) /\ \A a \in Attempts : Counted(e, a, s) => Counted(d, a, s)
             \/ FailedAttempts(e, s) < MaxEffectFree,
           \A s \in Sources : SourceWarned(e, s) => SourceWarned(d, s) \/ Over(e, s),
           \A a \in Attempts : AttemptWarned(e, a) => AttemptWarned(d, a) \/
             (e.att[a].state = "failed" /\ \A s \in Sources : e.mem[a][s].observed => Over(e, s)),
           \A a \in Attempts, s \in Sources :
             d.att[a].state = "failed" /\ e.mem[a][s].observed => d.mem[a][s].observed,
           \A s \in Sources : Over(d, s) => Over(e, s)
    PROVE  Fits(e, th)
<1>1. ThreadFits(e, th)
    BY ThreadKept DEF Fits
<1>2. RunsFit(e, th)
    <2>1. RunsFit(d, th)
        BY DEF Fits
    <2> QED
        BY <2>1, RunsKept
<1>3. BudgetFits(e)
    BY BudgetKept, Zenon DEF Fits
<1>4. WarningsFit(e)
    BY WarningsKept, Zenon DEF Fits
<1>5. AttemptsFit(e)
    BY DEF Fits, AttemptsFit, InOrder, Later
<1> QED
    BY <1>1, <1>2, <1>3, <1>4, <1>5 DEF Fits

-----------------------------------------------------------------------------
(* Transactions that move no source from one stage to another *)

\* The deliveries that tell the owner how a message ended.
OutcomeKinds == {"final", "needs_attention", "exhausted", "terminal_needs_attention"}

Alike(d, e) ==
    /\ \A s \in Sources : e.src[s].state = d.src[s].state /\ e.src[s].conv = d.src[s].conv
    /\ \A a \in Attempts : /\ e.att[a].state = d.att[a].state /\ e.att[a].primary = d.att[a].primary
                           /\ e.att[a].turn = d.att[a].turn
                           /\ e.att[a].accepting => d.att[a].accepting
    /\ \A a \in Attempts, s \in Sources :
         /\ e.mem[a][s].observed = d.mem[a][s].observed
         /\ e.mem[a][s].state = d.mem[a][s].state
              \/ (e.mem[a][s].state \in Unresolved /\ d.mem[a][s].state \in Unresolved)
    /\ \A n : n.kind \in OutcomeKinds => (n \in e.out <=> n \in d.out)

\* No attempt is created, and what never ran stays open.
Stays(d, e, th) ==
    /\ \A a \in Attempts : d.att[a].state = "absent" => e.att[a].state = "absent"
    /\ \A a \in Attempts, s \in Sources :
         d.mem[a][s].state \in Unresolved /\ ~Ran(th, a, s) => e.mem[a][s].state \in Unresolved

LEMMA AlikeReflexive == ASSUME NEW d PROVE Alike(d, d)
    BY DEF Alike

LEMMA AlikeTransitive == ASSUME NEW d, NEW e, NEW f, Alike(d, e), Alike(e, f) PROVE Alike(d, f)
    BY DEF Alike

LEMMA AlikeKeeps ==
    ASSUME NEW d \in Databases, NEW e \in Databases, NEW th, Len(th) \in Nat, Fits(d, th), Alike(d, e)
    PROVE  Fits(e, th) /\ Later(d, e) /\ Stays(d, e, th)
<1>1. \A a \in Attempts, s \in Sources :
         /\ e.mem[a][s].state \in Unresolved <=> d.mem[a][s].state \in Unresolved
         /\ \A x \in MemberStates \ Unresolved : e.mem[a][s].state = x <=> d.mem[a][s].state = x
         /\ e.mem[a][s].observed = d.mem[a][s].observed
    BY DEF Alike
<1>2. /\ "none" \in MemberStates \ Unresolved /\ "submitted" \in MemberStates \ Unresolved
      /\ "completed" \in MemberStates \ Unresolved
    BY DEF MemberStates, Live, Unresolved
<1>3. \A a \in Attempts, s \in Sources :
         /\ LiveIn(e, a, s) <=> LiveIn(d, a, s)
         /\ CompletedIn(e, a, s) <=> CompletedIn(d, a, s)
         /\ Working(e, a, s) <=> Working(d, a, s)
         /\ Counted(e, a, s) <=> Counted(d, a, s)
    BY <1>1, <1>2 DEF Alike, LiveIn, CompletedIn, Live, IsActive, Working, Counted
<1>4. \A s \in Sources : e.src[s].state = d.src[s].state /\ (Over(e, s) <=> Over(d, s))
    BY <1>3 DEF Alike, Over
<1>5. \A a \in Attempts : d.att[a].primary \in Sources
    BY DEF Databases, AttemptRows
<1>6. Later(d, e)
    BY <1>1, <1>2 DEF Later, Alike, Shut, IsActive
<1>7. MembersFit(e)
    <2>1. SUFFICES ASSUME NEW a \in Attempts, NEW s \in Sources PROVE MemberFits(e, a, s)
        BY DEF MembersFit
    <2>2. MemberFits(d, a, s)
        BY DEF Fits, MembersFit
    <2>3. /\ e.att[a].state = d.att[a].state /\ e.att[a].turn = d.att[a].turn
          /\ e.att[a].primary = d.att[a].primary
        BY DEF Alike
    <2> QED
        BY <1>1, <1>2, <2>2, <2>3 DEF MemberFits, IsActive, IsStart
<1>8. SourcesFit(e)
    BY <1>1, <1>2, <1>3, <1>4 DEF Fits, SourcesFit
<1>9. BindsTruly(d, e, th) /\ InOrder(d, e)
    BY DEF BindsTruly, InOrder, Alike
<1>10. /\ \A s \in Sources : SourceWarned(e, s) => SourceWarned(d, s)
       /\ \A a \in Attempts : AttemptWarned(e, a) => AttemptWarned(d, a)
    <2>1. \A n : n.kind \in OutcomeKinds => (n \in e.out <=> n \in d.out)
        BY DEF Alike
    <2> QED
        BY <2>1 DEF SourceWarned, AttemptWarned, OutcomeKinds
<1>11. Fits(e, th)
    <2>1. \A s \in Sources : Waiting(e, s) => Waiting(d, s)
        BY <1>4 DEF Waiting
    <2>2. \A s \in Sources : e.src[s].state = "pending" => d.src[s].state = "pending"
        BY <1>4
    <2>3. \A a \in Attempts, s \in Sources : e.mem[a][s].observed => d.mem[a][s].observed
        BY <1>1
    <2>4. \A a \in Attempts, s \in Sources :
            /\ Working(e, a, s) => Working(d, a, s)
            /\ Counted(e, a, s) => Counted(d, a, s)
        BY <1>3
    <2>5. \A s \in Sources : Over(d, s) => Over(e, s)
        BY <1>4
    <2> QED
        BY <1>6, <1>7, <1>8, <1>9, <1>10, <2>1, <2>2, <2>3, <2>4, <2>5, FitsKept
<1>12. Stays(d, e, th)
    BY <1>1 DEF Alike, Stays
<1> QED
    BY <1>6, <1>11, <1>12

LEMMA QueueNoticesAlike == ASSUME NEW d \in Databases, NEW S PROVE Alike(d, QueueNotices(d, S))
    BY DEF Alike, QueueNotices, Databases, OutcomeKinds

LEMMA TerminalizeAlike ==
    ASSUME NEW d \in Databases, NEW a \in Attempts PROVE Alike(d, Terminalize(d, a))
    BY DEF Alike, Terminalize, Databases, AttemptRows

LEMMA MarkUncertainAlike ==
    ASSUME NEW d \in Databases, NEW a \in Attempts, NEW s \in Sources, d.mem[a][s].state \in Unresolved
    PROVE  Alike(d, MarkUncertain(d, a, s))
<1> DEFINE e == MarkUncertain(d, a, s)
<1>1. /\ e.src = d.src /\ e.att = d.att /\ e.out = d.out
      /\ \A b \in Attempts, z \in Sources :
           /\ e.mem[b][z].observed = d.mem[b][z].observed
           /\ e.mem[b][z].state = IF b = a /\ z = s THEN "uncertain" ELSE d.mem[b][z].state
    BY DEF MarkUncertain, Databases, MemberRows
<1> HIDE DEF e
<1>2. Alike(d, e)
    BY <1>1 DEF Alike, Unresolved
<1> QED
    BY <1>2 DEF e

LEMMA MarkUncertainIfUnresolvedAlike ==
    ASSUME NEW d \in Databases, NEW a \in Attempts, NEW s \in Sources
    PROVE  Alike(d, MarkUncertainIfUnresolved(d, a, s))
    BY MarkUncertainAlike, AlikeReflexive DEF MarkUncertainIfUnresolved, CanMarkUncertain, Unresolved

LEMMA ObserveUnknownStartTerminalAlike ==
    ASSUME NEW d \in Databases, NEW a \in Attempts, NEW s \in Sources
    PROVE  Alike(d, ObserveUnknownStartTerminal(d, a, s))
    BY MarkUncertainAlike, AlikeReflexive
    DEF ObserveUnknownStartTerminal, CanObserveUnknownTerminal, Unresolved

\* A round of the reconciliation that is counted but decides nothing.
LEMMA TryAlike ==
    ASSUME NEW d \in Databases, NEW a \in Attempts, NEW s \in Sources
    PROVE  /\ Alike(d, [d EXCEPT !.mem[a][s].tries = @ + 1])
           /\ Alike(d, [d EXCEPT !.att[a].tries = @ + 1])
<1> DEFINE e == [d EXCEPT !.mem[a][s].tries = @ + 1]
           f == [d EXCEPT !.att[a].tries = @ + 1]
<1>1. /\ e.src = d.src /\ e.att = d.att /\ e.out = d.out
      /\ \A b \in Attempts, z \in Sources :
           /\ e.mem[b][z].observed = d.mem[b][z].observed
           /\ e.mem[b][z].state = d.mem[b][z].state
    BY DEF Databases, MemberRows
<1>2. /\ f.src = d.src /\ f.mem = d.mem /\ f.out = d.out
      /\ \A b \in Attempts :
           /\ f.att[b].state = d.att[b].state /\ f.att[b].primary = d.att[b].primary
           /\ f.att[b].turn = d.att[b].turn /\ f.att[b].accepting = d.att[b].accepting
    BY DEF Databases, AttemptRows
<1> HIDE DEF e, f
<1>3. Alike(d, e) /\ Alike(d, f)
    BY <1>1, <1>2 DEF Alike
<1> QED
    BY <1>3 DEF e, f

-----------------------------------------------------------------------------
(* Acceptance and reservation *)

LEMMA NeverFailed ==
    ASSUME NEW e, NEW s, \A a \in Attempts : ~Counted(e, a, s)
    PROVE  FailedAttempts(e, s) < MaxEffectFree
<1> DEFINE C == {a \in Attempts : Counted(e, a, s)}
<1>1. FailedAttempts(e, s) = Cardinality(C)
    BY CountedSet
<1>2. C = {}
    OBVIOUS
<1> HIDE DEF C
<1> QED
    BY <1>1, <1>2, FS_EmptySet, BoundsAssumption

\* A source that was not there has no members, no runs and no failures.
LEMMA AbsentIsNew ==
    ASSUME NEW d, NEW th, Fits(d, th), NEW s \in Sources, d.src[s].state = "absent"
    PROVE  /\ \A a \in Attempts : /\ d.mem[a][s].state = "none" /\ ~d.mem[a][s].observed
                                  /\ ~Ran(th, a, s)
<1>1. \A a \in Attempts : d.mem[a][s].state = "none"
    BY DEF Fits, SourcesFit
<1>2. \A a \in Attempts : ~d.mem[a][s].observed
    BY <1>1 DEF Fits, MembersFit, MemberFits
<1>3. \A a \in Attempts : ~Ran(th, a, s)
    BY <1>1, RanIsMember DEF Ran, Fits
<1> QED
    BY <1>1, <1>2, <1>3

LEMMA InsertSourceKeeps ==
    ASSUME NEW d \in Databases, NEW th, Len(th) \in Nat, Fits(d, th),
           NEW s \in Sources, d.src[s].state = "absent", NEW c \in Conversations \cup {Internal}
    PROVE  LET e == InsertSource(d, s, c) IN Fits(e, th) /\ Later(d, e) /\ Stays(d, e, th)
<1> DEFINE e == InsertSource(d, s, c)
<1>1. e \in Databases
    BY InsertSourceEvolves DEF Evolves
<1>2. /\ e.att = d.att /\ e.mem = d.mem /\ e.out = d.out
      /\ e.src[s].state = "pending" /\ \A z \in Sources \ {s} : e.src[z] = d.src[z]
    BY DEF InsertSource, Databases
<1> HIDE DEF e
<1>3. \A a \in Attempts : d.mem[a][s].state = "none" /\ ~d.mem[a][s].observed /\ ~Ran(th, a, s)
    BY AbsentIsNew
<1>4. Later(d, e) /\ Stays(d, e, th) /\ BindsTruly(d, e, th) /\ InOrder(d, e)
    BY <1>2 DEF Later, Stays, BindsTruly, InOrder, Shut, IsActive
<1>5. \A a \in Attempts, z \in Sources :
        /\ LiveIn(e, a, z) <=> LiveIn(d, a, z)
        /\ CompletedIn(e, a, z) <=> CompletedIn(d, a, z)
        /\ Working(e, a, z) <=> Working(d, a, z)
        /\ Counted(e, a, z) <=> Counted(d, a, z)
        /\ ~LiveIn(d, a, s) /\ ~CompletedIn(d, a, s) /\ ~Counted(d, a, s)
    BY <1>2, <1>3 DEF LiveIn, CompletedIn, Working, Counted, IsActive, Live, Unresolved
<1>6. MembersFit(e)
    BY <1>2 DEF Fits, MembersFit, MemberFits, IsActive, IsStart
<1>7. SourcesFit(e)
    BY <1>2, <1>3, <1>5 DEF Fits, SourcesFit
<1>8. \A z \in Sources : /\ Over(d, z) => Over(e, z)
                         /\ SourceWarned(e, z) => SourceWarned(d, z)
    BY <1>2, <1>5 DEF Over, SourceWarned
<1>9. \A a \in Attempts : AttemptWarned(e, a) => AttemptWarned(d, a)
    BY <1>2 DEF AttemptWarned
<1>10. \A z \in Sources : Waiting(e, z) =>
         \/ Waiting(d, z) /\ \A a \in Attempts : Counted(e, a, z) => Counted(d, a, z)
         \/ FailedAttempts(e, z) < MaxEffectFree
    BY <1>2, <1>5, NeverFailed DEF Waiting
<1>11. Fits(e, th)
    BY <1>1, <1>2, <1>3, <1>4, <1>5, <1>6, <1>7, <1>8, <1>9, <1>10, FitsKept
<1> QED
    BY <1>4, <1>11 DEF e

Launch(d, a, s) == Reserve(CreateAttempt(d, a, s), a, s, "start_submitting")

LEMMA LaunchEvolves ==
    ASSUME NEW d \in Databases, NEW a \in Attempts, NEW s \in Sources, d.att[a].turn = NoTurn
    PROVE  Evolves(d, Launch(d, a, s))
<1>1. Evolves(d, CreateAttempt(d, a, s)) /\ CreateAttempt(d, a, s) \in Databases
    BY CreateAttemptEvolves DEF Evolves
<1> QED
    BY <1>1, ReserveEvolves, EvolvesTransitive DEF Launch

LEMMA LaunchKeeps ==
    ASSUME NEW d \in Databases, NEW th, Len(th) \in Nat, Fits(d, th),
           NEW a \in Attempts, d.att[a].state = "absent", d.att[a].turn = NoTurn,
           \A c \in Attempts : c < a => d.att[c].state # "absent",
           NEW s \in Sources, d.src[s].state = "pending"
    PROVE  LET e == Launch(d, a, s)
           IN  /\ Fits(e, th) /\ Later(d, e)
               /\ IsStart(e, a, s) /\ e.att[a].state = "active" /\ ~Ran(th, a, s)
               /\ \A c \in Attempts : a < c => e.att[c].state = "absent"
               /\ e.mem[a][s].state \in Unresolved
               /\ \A b \in Attempts \ {a} : e.att[b] = d.att[b]
<1> DEFINE e == Launch(d, a, s)
<1>1. e \in Databases
    BY LaunchEvolves DEF Evolves
<1>2. /\ e.src[s].state = "active" /\ e.src[s].conv = d.src[s].conv
      /\ \A z \in Sources \ {s} : e.src[z] = d.src[z]
      /\ e.att[a].state = "active" /\ e.att[a].primary = s /\ e.att[a].turn = NoTurn
      /\ \A b \in Attempts \ {a} : e.att[b] = d.att[b]
      /\ e.mem[a][s].state = "start_submitting" /\ ~e.mem[a][s].observed
      /\ \A z \in Sources \ {s} : e.mem[a][z] = d.mem[a][z]
      /\ \A b \in Attempts \ {a} : e.mem[b] = d.mem[b]
      /\ \A n : n.kind \in OutcomeKinds => (n \in e.out <=> n \in d.out)
    BY DEF Launch, Reserve, CreateAttempt, QueueNotices, Databases, NoMember, SourceRows, OutcomeKinds
<1> HIDE DEF e
<1>3. \A z \in Sources : /\ d.mem[a][z].state = "none" /\ ~d.mem[a][z].observed
    BY DEF Fits, MembersFit, MemberFits
<1>4. ~Ran(th, a, s)
    BY <1>3, RanIsMember DEF Ran, Fits
<1>5. /\ "start_submitting" \in Unresolved /\ "start_submitting" \in Live
      /\ "none" \notin Live /\ "none" \notin Unresolved /\ "submitted" \notin Unresolved
      /\ "start_submitting" # "none" /\ "completed" \notin Live
    BY DEF Live, Unresolved
<1>6. Later(d, e) /\ BindsTruly(d, e, th) /\ InOrder(d, e)
    BY <1>2, <1>3, <1>5 DEF Later, BindsTruly, InOrder, Shut, IsActive
<1>7. \A b \in Attempts, z \in Sources :
        /\ LiveIn(e, b, z) <=> (LiveIn(d, b, z) \/ (b = a /\ z = s))
        /\ CompletedIn(e, b, z) <=> CompletedIn(d, b, z)
        /\ Working(e, b, z) <=> (Working(d, b, z) \/ (b = a /\ z = s))
        /\ Counted(e, b, z) <=> Counted(d, b, z)
    BY <1>2, <1>3, <1>5 DEF LiveIn, CompletedIn, Working, Counted, IsActive
<1>8. \A b \in Attempts : ~LiveIn(d, b, s) /\ ~CompletedIn(d, b, s) /\ ~Working(d, b, s)
    BY DEF Fits, SourcesFit, Working
<1>9. MembersFit(e)
    <2>1. SUFFICES ASSUME NEW b \in Attempts, NEW z \in Sources PROVE MemberFits(e, b, z)
        BY DEF MembersFit
    <2>2. MemberFits(d, b, z)
        BY DEF Fits, MembersFit
    <2> QED
        BY <1>2, <1>3, <1>5, <2>2 DEF MemberFits, IsActive, IsStart
<1>10. SourcesFit(e)
    <2>1. SUFFICES ASSUME NEW z \in Sources
                   PROVE /\ e.src[z].state = "absent" => \A b \in Attempts : e.mem[b][z].state = "none"
                         /\ e.src[z].state = "active" <=> \E b \in Attempts : LiveIn(e, b, z)
                         /\ \A b \in Attempts : CompletedIn(e, b, z) => e.src[z].state = "completed"
                         /\ \A b, c \in Attempts : Working(e, b, z) /\ Working(e, c, z) => b = c
        BY DEF SourcesFit
    <2>2. CASE z = s
        BY <1>2, <1>7, <1>8, <2>2
    <2>3. CASE z # s
        <3>1. e.src[z] = d.src[z] /\ \A b \in Attempts : e.mem[b][z] = d.mem[b][z]
            BY <1>2, <2>3
        <3> QED
            BY <1>7, <2>3, <3>1 DEF Fits, SourcesFit
    <2> QED
        BY <2>2, <2>3
<1>11. /\ \A z \in Sources : Over(d, z) => Over(e, z)
       /\ \A z \in Sources : SourceWarned(e, z) => SourceWarned(d, z)
       /\ \A b \in Attempts : AttemptWarned(e, b) => AttemptWarned(d, b)
    BY <1>2, <1>7 DEF Over, SourceWarned, AttemptWarned, OutcomeKinds
<1>12. /\ \A z \in Sources : e.src[z].state = "pending" => d.src[z].state = "pending"
       /\ \A z \in Sources : Waiting(e, z) => Waiting(d, z)
    BY <1>2 DEF Waiting
<1>13. \A b \in Attempts, z \in Sources : d.att[b].state = "failed" /\ e.mem[b][z].observed => d.mem[b][z].observed
    BY <1>2
<1>14. Fits(e, th)
    BY <1>1, <1>6, <1>7, <1>9, <1>10, <1>11, <1>12, <1>13, FitsKept
<1>15. IsStart(e, a, s) /\ e.mem[a][s].state \in Unresolved
    BY <1>2, <1>5 DEF IsStart
<1>16. \A c \in Attempts : a < c => e.att[c].state = "absent"
    BY <1>2 DEF Fits, AttemptsFit
<1> QED
    BY <1>2, <1>4, <1>6, <1>14, <1>15, <1>16 DEF e

\* What the steer of source s in attempt a needs, when reserveNextSteer takes it.
LEMMA SteerKeeps ==
    ASSUME NEW d \in Databases, NEW th, Len(th) \in Nat, Fits(d, th),
           NEW a \in Attempts, NEW s \in Sources,
           IsActive(d, a), d.att[a].accepting, d.att[a].turn # NoTurn,
           d.mem[a][s].state = "none", d.src[s].state = "pending"
    PROVE  LET e == Reserve(d, a, s, "steer_submitting")
           IN  /\ Fits(e, th) /\ Later(d, e)
               /\ ~IsStart(e, a, s) /\ e.att = d.att /\ ~Ran(th, a, s)
               /\ e.mem[a][s].state \in Unresolved
<1> DEFINE e == Reserve(d, a, s, "steer_submitting")
<1>1. e \in Databases
    BY ReserveEvolves DEF Evolves
<1>2. /\ e.src[s].state = "active" /\ e.src[s].conv = d.src[s].conv
      /\ \A z \in Sources \ {s} : e.src[z] = d.src[z]
      /\ e.att = d.att /\ e.out = d.out
      /\ e.mem[a][s].state = "steer_submitting" /\ ~e.mem[a][s].observed
      /\ \A z \in Sources \ {s} : e.mem[a][z] = d.mem[a][z]
      /\ \A b \in Attempts \ {a} : e.mem[b] = d.mem[b]
    BY DEF Reserve, Databases, NoMember, SourceRows
<1> HIDE DEF e
<1>3. ~Ran(th, a, s) /\ ~d.mem[a][s].observed
    BY RanIsMember DEF Ran, Fits, MembersFit, MemberFits
<1>4. /\ "steer_submitting" \in Unresolved /\ "steer_submitting" \in Live
      /\ "none" \notin Live /\ "none" \notin Unresolved /\ "submitted" \notin Unresolved
      /\ "steer_submitting" # "none" /\ "completed" \notin Live
    BY DEF Live, Unresolved
<1>5. ~IsStart(e, a, s)
    BY <1>2 DEF Fits, MembersFit, MemberFits, IsStart
<1>6. Later(d, e) /\ BindsTruly(d, e, th) /\ InOrder(d, e)
    BY <1>2, <1>3, <1>4 DEF Later, BindsTruly, InOrder, Shut, IsActive
<1>7. \A b \in Attempts, z \in Sources :
        /\ LiveIn(e, b, z) <=> (LiveIn(d, b, z) \/ (b = a /\ z = s))
        /\ CompletedIn(e, b, z) <=> CompletedIn(d, b, z)
        /\ Working(e, b, z) <=> (Working(d, b, z) \/ (b = a /\ z = s))
        /\ Counted(e, b, z) <=> Counted(d, b, z)
    BY <1>2, <1>3, <1>4 DEF LiveIn, CompletedIn, Working, Counted, IsActive
<1>8. \A b \in Attempts : ~LiveIn(d, b, s) /\ ~CompletedIn(d, b, s) /\ ~Working(d, b, s)
    BY DEF Fits, SourcesFit, Working
<1>9. MembersFit(e)
    <2>1. SUFFICES ASSUME NEW b \in Attempts, NEW z \in Sources PROVE MemberFits(e, b, z)
        BY DEF MembersFit
    <2>2. MemberFits(d, b, z)
        BY DEF Fits, MembersFit
    <2> QED
        BY <1>2, <1>3, <1>4, <1>5, <2>2 DEF MemberFits, IsActive, IsStart
<1>10. SourcesFit(e)
    <2>1. SUFFICES ASSUME NEW z \in Sources
                   PROVE /\ e.src[z].state = "absent" => \A b \in Attempts : e.mem[b][z].state = "none"
                         /\ e.src[z].state = "active" <=> \E b \in Attempts : LiveIn(e, b, z)
                         /\ \A b \in Attempts : CompletedIn(e, b, z) => e.src[z].state = "completed"
                         /\ \A b, c \in Attempts : Working(e, b, z) /\ Working(e, c, z) => b = c
        BY DEF SourcesFit
    <2>2. CASE z = s
        BY <1>2, <1>7, <1>8, <2>2
    <2>3. CASE z # s
        <3>1. e.src[z] = d.src[z] /\ \A b \in Attempts : e.mem[b][z] = d.mem[b][z]
            BY <1>2, <2>3
        <3> QED
            BY <1>7, <2>3, <3>1 DEF Fits, SourcesFit
    <2> QED
        BY <2>2, <2>3
<1>11. /\ \A z \in Sources : Over(d, z) => Over(e, z)
       /\ \A z \in Sources : SourceWarned(e, z) => SourceWarned(d, z)
       /\ \A b \in Attempts : AttemptWarned(e, b) => AttemptWarned(d, b)
    BY <1>2, <1>7 DEF Over, SourceWarned, AttemptWarned
<1>12. /\ \A z \in Sources : e.src[z].state = "pending" => d.src[z].state = "pending"
       /\ \A z \in Sources : Waiting(e, z) => Waiting(d, z)
    BY <1>2 DEF Waiting
<1>13. \A b \in Attempts, z \in Sources : d.att[b].state = "failed" /\ e.mem[b][z].observed => d.mem[b][z].observed
    BY <1>2
<1>14. Fits(e, th)
    BY <1>1, <1>6, <1>7, <1>9, <1>10, <1>11, <1>12, <1>13, FitsKept
<1>15. e.mem[a][s].state \in Unresolved
    BY <1>2, <1>4
<1> QED
    BY <1>2, <1>3, <1>5, <1>6, <1>14, <1>15 DEF e

-----------------------------------------------------------------------------
(* Confirmation *)

Bind(d, a, s, t) == [d EXCEPT !.att[a].turn = t,
                              !.mem[a][s].state = "submitted", !.mem[a][s].observed = TRUE]

LEMMA BindKeeps ==
    ASSUME NEW d \in Databases, NEW th, Len(th) \in Nat, Fits(d, th),
           NEW a \in Attempts, NEW s \in Sources, IsStart(d, a, s), d.mem[a][s].state \in Unresolved,
           NEW t \in 1..Len(th), <<a, s>> \in th[t].inputs, Bind(d, a, s, t) \in Databases
    PROVE  LET e == Bind(d, a, s, t) IN Fits(e, th) /\ Later(d, e) /\ Stays(d, e, th)
<1> DEFINE e == Bind(d, a, s, t)
<1>1. /\ e.src = d.src /\ e.out = d.out
      /\ \A b \in Attempts \ {a} : e.att[b] = d.att[b] /\ e.mem[b] = d.mem[b]
      /\ e.att[a].state = d.att[a].state /\ e.att[a].primary = d.att[a].primary /\ e.att[a].turn = t
      /\ e.mem[a][s].state = "submitted" /\ e.mem[a][s].observed
      /\ \A z \in Sources \ {s} : e.mem[a][z] = d.mem[a][z]
    <2>1. /\ d.att \in [Attempts -> AttemptRows] /\ d.mem \in [Attempts -> [Sources -> MemberRows]]
          /\ d.att[a] \in AttemptRows /\ d.mem[a] \in [Sources -> MemberRows] /\ d.mem[a][s] \in MemberRows
        BY DEF Databases
    <2>2. /\ e.src = d.src /\ e.out = d.out /\ e.att = [d.att EXCEPT ![a].turn = t]
          /\ e.mem = [d.mem EXCEPT ![a][s].state = "submitted", ![a][s].observed = TRUE]
        BY DEF Bind, Databases
    <2> HIDE DEF e
    <2>3. /\ \A b \in Attempts \ {a} : e.att[b] = d.att[b]
          /\ e.att[a].state = d.att[a].state /\ e.att[a].primary = d.att[a].primary /\ e.att[a].turn = t
        BY <2>1, <2>2 DEF AttemptRows
    <2>4. /\ \A b \in Attempts \ {a} : e.mem[b] = d.mem[b]
          /\ e.mem[a][s].state = "submitted" /\ e.mem[a][s].observed
          /\ \A z \in Sources \ {s} : e.mem[a][z] = d.mem[a][z]
        BY <2>1, <2>2 DEF MemberRows
    <2> QED
        BY <2>2, <2>3, <2>4
<1>2. e \in Databases
    OBVIOUS
<1> HIDE DEF e
<1>3. IsActive(d, a) /\ d.att[a].turn = NoTurn /\ t # NoTurn
    BY DEF Fits, MembersFit, MemberFits, NoTurn
<1>4. \A z \in Sources \ {s} : d.mem[a][z].state = "none" /\ ~d.mem[a][z].observed
    BY <1>3 DEF Fits, MembersFit, MemberFits, IsStart
<1>5. /\ \A x \in Unresolved : x \in Live /\ x # "completed" /\ x # "none" /\ x # "submitted"
      /\ "submitted" \in Live /\ "none" \notin Live /\ "completed" \notin Live
    BY DEF Live, Unresolved
<1>6. Later(d, e) /\ BindsTruly(d, e, th) /\ InOrder(d, e)
    BY <1>1, <1>3, <1>4, <1>5 DEF Later, BindsTruly, InOrder, Shut, IsActive, IsStart
<1>7. Stays(d, e, th)
    BY <1>1 DEF Stays, Ran
<1>8. \A b \in Attempts, z \in Sources :
        /\ LiveIn(e, b, z) <=> LiveIn(d, b, z)
        /\ CompletedIn(e, b, z) <=> CompletedIn(d, b, z)
        /\ Working(e, b, z) <=> Working(d, b, z)
        /\ Counted(e, b, z) <=> Counted(d, b, z)
    BY <1>1, <1>3, <1>5 DEF LiveIn, CompletedIn, Working, Counted, IsActive
<1>9. MembersFit(e)
    <2>1. SUFFICES ASSUME NEW b \in Attempts, NEW z \in Sources PROVE MemberFits(e, b, z)
        BY DEF MembersFit
    <2>2. MemberFits(d, b, z)
        BY DEF Fits, MembersFit
    <2> QED
        BY <1>1, <1>3, <1>4, <1>5, <2>2 DEF MemberFits, IsActive, IsStart
<1>10. SourcesFit(e)
    BY <1>1, <1>5, <1>8 DEF Fits, SourcesFit
<1>11. /\ \A z \in Sources : Over(d, z) => Over(e, z)
       /\ \A z \in Sources : SourceWarned(e, z) => SourceWarned(d, z)
       /\ \A b \in Attempts : AttemptWarned(e, b) => AttemptWarned(d, b)
    BY <1>1, <1>8 DEF Over, SourceWarned, AttemptWarned
<1>12. /\ \A z \in Sources : e.src[z].state = "pending" => d.src[z].state = "pending"
       /\ \A z \in Sources : Waiting(e, z) => Waiting(d, z)
    BY <1>1 DEF Waiting
<1>13. \A b \in Attempts, z \in Sources : d.att[b].state = "failed" /\ e.mem[b][z].observed => d.mem[b][z].observed
    BY <1>1, <1>3 DEF IsActive
<1>14. Fits(e, th)
    BY <1>2, <1>6, <1>8, <1>9, <1>10, <1>11, <1>12, <1>13, FitsKept
<1> QED
    BY <1>6, <1>7, <1>14 DEF e

LEMMA ConfirmStartKeeps ==
    ASSUME NEW d \in Databases, NEW th, Len(th) \in Nat, Len(th) <= MaxAttempts, Fits(d, th),
           NEW a \in Attempts, NEW s \in Sources,
           NEW t \in 1..Len(th), <<a, s>> \in th[t].inputs, NEW terminal \in BOOLEAN
    PROVE  LET e == ConfirmStart(d, a, s, t, terminal)
           IN  Fits(e, th) /\ Later(d, e) /\ Stays(d, e, th)
<1> DEFINE e == ConfirmStart(d, a, s, t, terminal)
           b == Bind(d, a, s, t)
           c == StartConfirmation(d, a, s, t, terminal)
<1>1. t \in Turns
    BY BoundsAssumption DEF Turns, Attempts
<1>2. CASE c = "bound"
    <2>1. IsStart(d, a, s) /\ d.mem[a][s].state \in Unresolved
        BY <1>2 DEF StartConfirmation
    <2>2. b \in Databases
        <3>1. [d.mem EXCEPT ![a][s].state = "submitted"] \in MemberTables
            BY MemberTableType, MemberStateUpdate DEF MemberStates, Live
        <3>2. [[d.mem EXCEPT ![a][s].state = "submitted"] EXCEPT ![a][s].observed = TRUE] \in MemberTables
            BY <3>1, MemberObservedUpdate
        <3>3. [d.att EXCEPT ![a].turn = t] \in [Attempts -> AttemptRows]
            BY <1>1 DEF Databases, AttemptRows
        <3> QED
            BY <3>2, <3>3 DEF Bind, Databases, MemberTables
    <2>3. Fits(b, th) /\ Later(d, b) /\ Stays(d, b, th)
        BY <2>1, <2>2, BindKeeps
    <2>4. e = IF terminal THEN Terminalize(b, a) ELSE b
        BY <1>2 DEF ConfirmStart, Bind
    <2> HIDE DEF b, e
    <2>5. CASE terminal
        <3>1. Terminalize(b, a) \in Databases /\ Alike(b, Terminalize(b, a))
            BY <2>2, TerminalizeEvolves, TerminalizeAlike DEF Evolves
        <3>2. Fits(e, th) /\ Later(b, e) /\ Stays(b, e, th)
            BY <2>2, <2>3, <2>4, <2>5, <3>1, AlikeKeeps
        <3>3. Stays(d, e, th)
            BY <2>3, <3>2 DEF Stays
        <3>4. Later(d, e)
            BY <2>3, <3>2, LaterTransitive
        <3> QED
            BY <3>2, <3>3, <3>4 DEF e
    <2>6. CASE ~terminal
        BY <2>3, <2>4, <2>6 DEF e
    <2> QED
        BY <2>5, <2>6
<1>3. CASE c # "bound"
    <2>1. e = d \/ e = Terminalize(d, a)
        BY <1>3 DEF ConfirmStart
    <2>2. Terminalize(d, a) \in Databases /\ Alike(d, Terminalize(d, a)) /\ Alike(d, d)
        BY TerminalizeEvolves, TerminalizeAlike, AlikeReflexive DEF Evolves
    <2> HIDE DEF e, c
    <2>3. Fits(e, th) /\ Later(d, e) /\ Stays(d, e, th)
        BY <2>1, <2>2, AlikeKeeps
    <2> QED
        BY <2>3 DEF e
<1> QED
    BY <1>2, <1>3

LEMMA ConfirmSteerKeeps ==
    ASSUME NEW d \in Databases, NEW th, Len(th) \in Nat, Fits(d, th),
           NEW a \in Attempts, NEW s \in Sources, NEW t
    PROVE  LET e == ConfirmSteer(d, a, s, t) IN Fits(e, th) /\ Later(d, e)
<1> DEFINE e == ConfirmSteer(d, a, s, t)
<1>0. e \in Databases
    BY ConfirmSteerEvolves DEF Evolves
<1>1. CASE SteerConfirmation(d, a, s, t) = "conflict" \/ d.mem[a][s].state = "submitted"
    <2>1. e = d
        BY <1>1 DEF ConfirmSteer
    <2> QED
        BY <2>1, LaterReflexive
<1>2. CASE ~(SteerConfirmation(d, a, s, t) = "conflict" \/ d.mem[a][s].state = "submitted")
    <2>1. /\ IsActive(d, a) /\ ~IsStart(d, a, s) /\ d.att[a].turn # NoTurn
          /\ d.mem[a][s].state \in Unresolved
        BY <1>2 DEF SteerConfirmation, IsActive, Live
    <2>2. /\ e.att = d.att /\ e.out = d.out
          /\ \A b \in Attempts \ {a} : e.mem[b] = d.mem[b]
          /\ \A z \in Sources \ {s} : e.mem[a][z] = d.mem[a][z] /\ e.src[z] = d.src[z]
          /\ e.src[s].conv = d.src[s].conv
          /\ e.mem[a][s].observed
          /\ \/ e.mem[a][s].state = "submitted" /\ e.src[s] = d.src[s]
             \/ e.mem[a][s].state = "completed" /\ e.src[s].state = "completed"
        <3>1. CASE d.att[a].accepting
            <4>1. e = [d EXCEPT !.mem[a][s].state = "submitted", !.mem[a][s].observed = TRUE]
                BY <1>2, <3>1 DEF ConfirmSteer
            <4> QED
                BY <4>1 DEF Databases, MemberRows
        <3>2. CASE ~d.att[a].accepting
            <4>1. e = [d EXCEPT !.mem[a][s].state = "completed", !.mem[a][s].observed = TRUE,
                                !.src[s].state = "completed", !.src[s].released = TRUE]
                BY <1>2, <3>2 DEF ConfirmSteer
            <4> QED
                BY <4>1 DEF Databases, MemberRows, SourceRows
        <3> QED
            BY <3>1, <3>2
    <2> HIDE DEF e
    <2>3. /\ \A x \in Unresolved : x \in Live /\ x # "completed" /\ x # "none" /\ x # "submitted"
          /\ "submitted" \in Live /\ "none" \notin Live /\ "completed" \notin Live
        BY DEF Live, Unresolved
    <2>4. d.src[s].state = "active"
        BY <2>1, <2>3 DEF Fits, SourcesFit, LiveIn
    <2>5. Later(d, e) /\ BindsTruly(d, e, th) /\ InOrder(d, e)
        BY <2>1, <2>2, <2>3, <2>4 DEF Later, BindsTruly, InOrder, Shut, IsActive
    <2>6. \A b \in Attempts, z \in Sources :
            /\ LiveIn(e, b, z) <=> IF b = a /\ z = s THEN e.mem[a][s].state = "submitted" ELSE LiveIn(d, b, z)
            /\ CompletedIn(e, b, z) <=> IF b = a /\ z = s THEN e.mem[a][s].state = "completed" ELSE CompletedIn(d, b, z)
            /\ Working(e, b, z) <=> Working(d, b, z)
            /\ Counted(e, b, z) <=> Counted(d, b, z)
        BY <2>1, <2>2, <2>3 DEF LiveIn, CompletedIn, Working, Counted, IsActive
    <2>7. MembersFit(e)
        <3>1. SUFFICES ASSUME NEW b \in Attempts, NEW z \in Sources PROVE MemberFits(e, b, z)
            BY DEF MembersFit
        <3>2. MemberFits(d, b, z)
            BY DEF Fits, MembersFit
        <3> QED
            BY <2>1, <2>2, <2>3, <3>2 DEF MemberFits, IsActive, IsStart
    <2>8. \A b \in Attempts : Working(d, b, s) => b = a
        BY <2>1, <2>3 DEF Fits, SourcesFit, Working, LiveIn
    <2>9. SourcesFit(e)
        <3>1. SUFFICES ASSUME NEW z \in Sources
                       PROVE /\ e.src[z].state = "absent" => \A b \in Attempts : e.mem[b][z].state = "none"
                             /\ e.src[z].state = "active" <=> \E b \in Attempts : LiveIn(e, b, z)
                             /\ \A b \in Attempts : CompletedIn(e, b, z) => e.src[z].state = "completed"
                             /\ \A b, c \in Attempts : Working(e, b, z) /\ Working(e, c, z) => b = c
            BY DEF SourcesFit
        <3>2. CASE z = s
            BY <2>2, <2>4, <2>6, <2>8, <3>2 DEF Working
        <3>3. CASE z # s
            <4>1. e.src[z] = d.src[z] /\ \A b \in Attempts : e.mem[b][z] = d.mem[b][z]
                BY <2>2, <3>3
            <4> QED
                BY <2>6, <3>3, <4>1 DEF Fits, SourcesFit
        <3> QED
            BY <3>2, <3>3
    <2>10. /\ \A z \in Sources : Over(d, z) => Over(e, z)
           /\ \A z \in Sources : SourceWarned(e, z) => SourceWarned(d, z)
           /\ \A b \in Attempts : AttemptWarned(e, b) => AttemptWarned(d, b)
        BY <2>2, <2>4, <2>6 DEF Over, SourceWarned, AttemptWarned
    <2>11. /\ \A z \in Sources : e.src[z].state = "pending" => d.src[z].state = "pending"
           /\ \A z \in Sources : Waiting(e, z) => Waiting(d, z)
        BY <2>2 DEF Waiting
    <2>12. \A b \in Attempts, z \in Sources : d.att[b].state = "failed" /\ e.mem[b][z].observed => d.mem[b][z].observed
        BY <2>1, <2>2 DEF IsActive
    <2>13. Fits(e, th)
        BY <1>0, <2>5, <2>6, <2>7, <2>9, <2>10, <2>11, <2>12, FitsKept
    <2> QED
        BY <2>5, <2>13 DEF e
<1> QED
    BY <1>1, <1>2

-----------------------------------------------------------------------------
(* A submission is given up or put back *)

\* Transaction e ends the open submission of s in attempt a, and with a start
\* the attempt; the source is completed with a warning, or goes back.
Withdraws(d, e, a, s) ==
    /\ e.src[s].state \in {"completed", "pending"} /\ e.src[s].conv = d.src[s].conv
    /\ \A z \in Sources \ {s} : e.src[z].state = d.src[z].state /\ e.src[z].conv = d.src[z].conv
    /\ \A b \in Attempts : e.att[b].primary = d.att[b].primary /\ e.att[b].turn = d.att[b].turn
    /\ \A b \in Attempts \ {a} : e.att[b] = d.att[b] /\ e.mem[b] = d.mem[b]
    /\ IF IsStart(d, a, s) THEN e.att[a].state = "failed" ELSE e.att[a] = d.att[a]
    /\ e.mem[a][s].state = "failed" /\ e.mem[a][s].observed = d.mem[a][s].observed
    /\ \A z \in Sources \ {s} : e.mem[a][z] = d.mem[a][z]
    /\ \A n \in e.out : n.kind \in OutcomeKinds =>
         n \in d.out \/ (n = [kind |-> "needs_attention", id |-> s] /\ e.src[s].state = "completed")
    /\ d.out \subseteq e.out
    /\ e.src[s].state = "completed" => [kind |-> "needs_attention", id |-> s] \in e.out

LEMMA WithdrawKeeps ==
    ASSUME NEW d \in Databases, NEW e \in Databases, NEW th, Len(th) \in Nat, Fits(d, th),
           NEW a \in Attempts, NEW s \in Sources,
           d.mem[a][s].state \in Unresolved, Withdraws(d, e, a, s),
           e.src[s].state = "pending" => ~Ran(th, a, s)
    PROVE  Fits(e, th) /\ Later(d, e)
<1>1. /\ e.src[s].state \in {"completed", "pending"} /\ e.src[s].conv = d.src[s].conv
      /\ \A z \in Sources \ {s} : e.src[z].state = d.src[z].state /\ e.src[z].conv = d.src[z].conv
      /\ \A b \in Attempts : e.att[b].primary = d.att[b].primary /\ e.att[b].turn = d.att[b].turn
      /\ \A b \in Attempts \ {a} : e.att[b] = d.att[b] /\ e.mem[b] = d.mem[b]
      /\ IF IsStart(d, a, s) THEN e.att[a].state = "failed" ELSE e.att[a] = d.att[a]
      /\ e.mem[a][s].state = "failed" /\ e.mem[a][s].observed = d.mem[a][s].observed
      /\ \A z \in Sources \ {s} : e.mem[a][z] = d.mem[a][z]
    BY DEF Withdraws
<1>2. /\ \A x \in Unresolved : x \in Live /\ x # "completed" /\ x # "none" /\ x # "submitted"
      /\ "submitted" \in Live /\ "none" \notin Live /\ "completed" \notin Live
      /\ "failed" \notin Live /\ "failed" # "none"
    BY DEF Live, Unresolved
<1>3. MemberFits(d, a, s) /\ \A b \in Attempts, z \in Sources : MemberFits(d, b, z)
    BY DEF Fits, MembersFit
<1>4. IsStart(d, a, s) => /\ IsActive(d, a) /\ d.att[a].turn = NoTurn
                          /\ \A z \in Sources \ {s} : d.mem[a][z].state = "none" /\ ~d.mem[a][z].observed
    BY <1>3 DEF MemberFits, IsStart
<1>5. d.att[a].state # "absent" /\ (IsActive(d, a) => ~d.mem[a][s].observed)
    BY <1>2, <1>3 DEF MemberFits, IsActive
<1>6. d.src[s].state = "active" /\ \A b \in Attempts : Working(d, b, s) <=> b = a
    BY <1>2 DEF Fits, SourcesFit, LiveIn, Working
<1>7. Later(d, e) /\ BindsTruly(d, e, th) /\ InOrder(d, e)
    <2>1. \A b \in Attempts : Shut(d, b) => Shut(e, b)
        <3>1. TAKE b \in Attempts
        <3>2. HAVE Shut(d, b)
        <3>3. b # a
            BY <3>2 DEF Shut
        <3> QED
            BY <1>1, <3>2, <3>3 DEF Shut, IsActive
    <2>2. BindsTruly(d, e, th) /\ InOrder(d, e)
        BY <1>1, <1>5 DEF BindsTruly, InOrder
    <2>3. \A b \in Attempts, z \in Sources :
             /\ d.mem[b][z].state # "none" => e.mem[b][z].state # "none"
             /\ d.mem[b][z].observed => e.mem[b][z].observed
        BY <1>1
    <2>4. \A b \in Attempts :
             /\ d.att[b].state # "absent" => e.att[b].state # "absent"
             /\ d.att[b].state = "failed" => e.att[b].state = "failed"
        BY <1>1, <1>5
    <2>5. \A z \in Sources : d.src[z].state # "absent" => e.src[z].state # "absent" /\ e.src[z].conv = d.src[z].conv
        BY <1>1
    <2> QED
        BY <1>1, <2>1, <2>2, <2>3, <2>4, <2>5 DEF Later
<1>8. \A b \in Attempts, z \in Sources :
        /\ LiveIn(e, b, z) <=> (LiveIn(d, b, z) /\ ~(b = a /\ z = s))
        /\ CompletedIn(e, b, z) <=> CompletedIn(d, b, z)
        /\ Working(e, b, z) <=> (Working(d, b, z) /\ ~(b = a /\ z = s))
        /\ Counted(e, b, z) <=> Counted(d, b, z)
    <2>1. \A b \in Attempts, z \in Sources :
            /\ LiveIn(e, b, z) <=> (LiveIn(d, b, z) /\ ~(b = a /\ z = s))
            /\ CompletedIn(e, b, z) <=> CompletedIn(d, b, z)
        BY <1>1, <1>2, <1>4 DEF LiveIn, CompletedIn, IsActive
    <2>2. ~CompletedIn(d, a, s)
        BY <1>2 DEF CompletedIn
    <2>3. \A b \in Attempts, z \in Sources : Counted(e, b, z) <=> Counted(d, b, z)
        BY <1>1, <1>4 DEF Counted
    <2> QED
        BY <2>1, <2>2, <2>3 DEF Working
<1>9. MembersFit(e)
    <2>1. SUFFICES ASSUME NEW b \in Attempts, NEW z \in Sources PROVE MemberFits(e, b, z)
        BY DEF MembersFit
    <2>2. MemberFits(d, b, z)
        BY <1>3
    <2>3. CASE b # a
        BY <1>1, <2>2, <2>3 DEF MemberFits, IsActive, IsStart
    <2>4. CASE b = a /\ z = s
        BY <1>1, <1>2, <1>3, <1>4, <1>5, <2>4 DEF MemberFits, IsActive, IsStart
    <2>5. CASE b = a /\ z # s
        BY <1>1, <1>2, <1>4, <2>2, <2>5 DEF MemberFits, IsActive, IsStart
    <2> QED
        BY <2>3, <2>4, <2>5
<1>10. SourcesFit(e)
    <2>1. SUFFICES ASSUME NEW z \in Sources
                   PROVE /\ e.src[z].state = "absent" => \A b \in Attempts : e.mem[b][z].state = "none"
                         /\ e.src[z].state = "active" <=> \E b \in Attempts : LiveIn(e, b, z)
                         /\ \A b \in Attempts : CompletedIn(e, b, z) => e.src[z].state = "completed"
                         /\ \A b, c \in Attempts : Working(e, b, z) /\ Working(e, c, z) => b = c
        BY DEF SourcesFit
    <2>2. CASE z = s
        BY <1>1, <1>6, <1>8, <2>2 DEF Working
    <2>3. CASE z # s
        <3>1. e.src[z].state = d.src[z].state /\ \A b \in Attempts : e.mem[b][z] = d.mem[b][z]
            BY <1>1, <2>3
        <3> QED
            BY <1>8, <2>3, <3>1 DEF Fits, SourcesFit
    <2> QED
        BY <2>2, <2>3
<1>11. /\ \A z \in Sources : Over(d, z) => Over(e, z)
       /\ e.src[s].state = "completed" => Over(e, s)
    BY <1>1, <1>6, <1>8 DEF Over, Working
<1>12. /\ \A z \in Sources : SourceWarned(e, z) => SourceWarned(d, z) \/ Over(e, z)
       /\ \A b \in Attempts : AttemptWarned(e, b) => AttemptWarned(d, b)
    <2>1. \A n \in e.out : n.kind \in OutcomeKinds =>
             n \in d.out \/ (n = [kind |-> "needs_attention", id |-> s] /\ e.src[s].state = "completed")
        BY DEF Withdraws
    <2>2. \A z \in Sources : SourceWarned(e, z) => SourceWarned(d, z) \/ Over(e, z)
        <3>1. TAKE z \in Sources
        <3>2. HAVE SourceWarned(e, z)
        <3>3. PICK n \in e.out : n.kind \in {"needs_attention", "exhausted"} /\ n.id = z
            BY <3>2 DEF SourceWarned
        <3>4. n \in d.out \/ (n = [kind |-> "needs_attention", id |-> s] /\ e.src[s].state = "completed")
            BY <2>1, <3>3 DEF OutcomeKinds
        <3>5. CASE n \in d.out
            BY <3>3, <3>5 DEF SourceWarned
        <3>6. CASE n = [kind |-> "needs_attention", id |-> s] /\ e.src[s].state = "completed"
            BY <1>11, <3>3, <3>6
        <3> QED
            BY <3>4, <3>5, <3>6
    <2>3. \A b \in Attempts : AttemptWarned(e, b) => AttemptWarned(d, b)
        BY <2>1 DEF AttemptWarned, OutcomeKinds
    <2> QED
        BY <2>2, <2>3
<1>13. \A z \in Sources : e.src[z].state = "pending" =>
         d.src[z].state = "pending" \/ \A b \in Attempts : Ran(th, b, z) => Spoilt(e, b, z)
    <2>1. SUFFICES ASSUME e.src[s].state = "pending", NEW b \in Attempts, Ran(th, b, s)
                   PROVE  Spoilt(e, b, s)
        BY <1>1
    <2>2. b # a
        BY <2>1
    <2>3. Spoilt(d, b, s)
        BY <1>6, <2>1, <2>2 DEF Fits, RunsFit
    <2> QED
        BY <1>1, <2>2, <2>3 DEF Spoilt
<1>14. \A z \in Sources : Waiting(e, z) => Waiting(d, z)
    BY <1>1, <1>6 DEF Waiting
<1>15. \A b \in Attempts, z \in Sources : d.att[b].state = "failed" /\ e.mem[b][z].observed => d.mem[b][z].observed
    BY <1>1
<1>16. Fits(e, th)
    BY <1>7, <1>8, <1>9, <1>10, <1>11, <1>12, <1>13, <1>14, <1>15, FitsKept
<1> QED
    BY <1>7, <1>16

LEMMA MarkNeedsAttentionKeeps ==
    ASSUME NEW d \in Databases, NEW th, Len(th) \in Nat, Fits(d, th),
           NEW a \in Attempts, NEW s \in Sources, d.mem[a][s].state \in Unresolved
    PROVE  LET e == MarkNeedsAttention(d, a, s)
           IN  Fits(e, th) /\ Later(d, e) /\ Withdraws(d, e, a, s)
<1> DEFINE e == MarkNeedsAttention(d, a, s)
<1>1. e \in Databases
    BY MarkNeedsAttentionEvolves DEF Evolves
<1>2. Withdraws(d, e, a, s) /\ e.src[s].state = "completed"
    BY DEF Withdraws, MarkNeedsAttention, IsStart, Databases, SourceRows, AttemptRows, MemberRows
<1> HIDE DEF e
<1>3. Fits(e, th) /\ Later(d, e)
    BY <1>1, <1>2, WithdrawKeeps
<1> QED
    BY <1>2, <1>3 DEF e

LEMMA BeginReconciliationKeeps ==
    ASSUME NEW d \in Databases, NEW th, Len(th) \in Nat, Fits(d, th),
           NEW a \in Attempts, NEW s \in Sources, d.mem[a][s].state \in Unresolved,
           NEW decision \in ReconcileDecisions(d, a, s)
    PROVE  LET e == BeginReconciliation(d, a, s, decision) IN Fits(e, th) /\ Later(d, e)
<1> DEFINE e == BeginReconciliation(d, a, s, decision)
<1>1. CASE decision = "needs_attention"
    BY <1>1, MarkNeedsAttentionKeeps DEF BeginReconciliation
<1>2. CASE decision # "needs_attention"
    <2>1. e \in Databases
        BY BeginReconciliationEvolves DEF Evolves
    <2>2. Alike(d, e)
        BY <1>2, TryAlike, AlikeReflexive DEF BeginReconciliation
    <2> HIDE DEF e
    <2>3. Fits(e, th) /\ Later(d, e)
        BY <2>1, <2>2, AlikeKeeps
    <2> QED
        BY <2>3 DEF e
<1> QED
    BY <1>1, <1>2

\* A steer that never ran goes back to the queue.
LEMMA SteerBackKeeps ==
    ASSUME NEW d \in Databases, NEW th, Len(th) \in Nat, Fits(d, th),
           NEW a \in Attempts, NEW s \in Sources, d.mem[a][s].state \in Unresolved,
           ~IsStart(d, a, s), ~Ran(th, a, s)
    PROVE  LET e == RestorePending(d, a, s)
           IN  Fits(e, th) /\ Later(d, e) /\ Withdraws(d, e, a, s)
<1> DEFINE e == RestorePending(d, a, s)
<1>1. e \in Databases
    BY RestorePendingEvolves DEF Evolves
<1>2. Withdraws(d, e, a, s)
    BY DEF Withdraws, RestorePending, IsStart, Databases, SourceRows, AttemptRows, MemberRows
<1> HIDE DEF e
<1>3. Fits(e, th) /\ Later(d, e)
    BY <1>1, <1>2, WithdrawKeeps
<1> QED
    BY <1>2, <1>3 DEF e

\* A start that never ran goes back, and its attempt with it.
LEMMA StartBackKeeps ==
    ASSUME NEW d \in Databases, NEW th, Len(th) \in Nat, Fits(d, th),
           NEW a \in Attempts, NEW s \in Sources, d.mem[a][s].state \in Unresolved,
           IsStart(d, a, s), ~Ran(th, a, s)
    PROVE  LET e == FailUnstartedAttempt(RestorePending(d, a, s), a)
           IN  Fits(e, th) /\ Later(d, e) /\ Withdraws(d, e, a, s)
<1> DEFINE r == RestorePending(d, a, s)
           e == FailUnstartedAttempt(r, a)
<1>1. Evolves(d, r) /\ r \in Databases
    BY RestorePendingEvolves DEF Evolves
<1>2. e \in Databases
    BY <1>1, FailUnstartedAttemptEvolves DEF Evolves
<1>3. IsActive(d, a) /\ \A z \in Sources \ {s} : d.mem[a][z].state = "none"
    BY DEF Fits, MembersFit, MemberFits, IsStart
<1>4. /\ r.att = d.att /\ r.out = d.out
      /\ \A b \in Attempts \ {a} : r.mem[b] = d.mem[b]
      /\ \A z \in Sources \ {s} : r.src[z] = d.src[z] /\ r.mem[a][z] = d.mem[a][z]
      /\ r.src[s].state = "pending" /\ r.src[s].conv = d.src[s].conv
      /\ r.mem[a][s].state = "failed" /\ r.mem[a][s].observed = d.mem[a][s].observed
    BY DEF RestorePending, Databases, SourceRows, MemberRows
<1> HIDE DEF r
<1>5. Members(r, a, {"submitted"}) = {}
    BY <1>3, <1>4 DEF Members
<1>6. e = [r EXCEPT !.att[a].state = "failed"]
    BY <1>3, <1>4, <1>5 DEF FailUnstartedAttempt, IsActive
<1>7. /\ e.src = r.src /\ e.mem = r.mem /\ e.out = r.out
      /\ e.att[a].state = "failed" /\ e.att[a].primary = r.att[a].primary /\ e.att[a].turn = r.att[a].turn
      /\ \A b \in Attempts \ {a} : e.att[b] = r.att[b]
    BY <1>1, <1>6 DEF Databases, AttemptRows
<1> HIDE DEF e
<1>8. Withdraws(d, e, a, s)
    BY <1>4, <1>7 DEF Withdraws
<1>9. Fits(e, th) /\ Later(d, e)
    BY <1>2, <1>8, WithdrawKeeps
<1> QED
    BY <1>8, <1>9 DEF e, r

\* An attempt without a member, were there one, fails without effect.
LEMMA FailOrphanedKeeps ==
    ASSUME NEW d \in Databases, NEW th, Len(th) \in Nat, Fits(d, th)
    PROVE  LET e == FailOrphanedUnstartedAttempts(d) IN Fits(e, th) /\ Later(d, e)
<1> DEFINE e == FailOrphanedUnstartedAttempts(d)
<1>1. e \in Databases
    BY FailOrphanedUnstartedAttemptsEvolves DEF Evolves
<1>2. /\ e.src = d.src /\ e.mem = d.mem /\ e.out = d.out
      /\ \A b \in Attempts :
           \/ e.att[b] = d.att[b]
           \/ /\ e.att[b].state = "failed" /\ d.att[b].state = "active"
              /\ e.att[b].primary = d.att[b].primary
              /\ e.att[b].turn = d.att[b].turn /\ d.att[b].turn = NoTurn
              /\ Members(d, b, MemberStates \ {"none"}) = {}
    BY DEF FailOrphanedUnstartedAttempts, Databases, AttemptRows
<1> HIDE DEF e
<1>3. \A b \in Attempts : e.att[b] # d.att[b] =>
         \A z \in Sources : d.mem[b][z].state = "none" /\ ~d.mem[b][z].observed
    <2>1. \A b \in Attempts, z \in Sources : d.mem[b][z].state \in MemberStates
        BY DEF Databases, MemberRows
    <2> QED
        BY <1>2, <2>1 DEF Members, Fits, MembersFit, MemberFits
<1>4. /\ "none" \notin Live /\ "none" \notin Unresolved /\ "none" # "completed"
    BY DEF Live, Unresolved
<1>5. \A b \in Attempts, z \in Sources :
        /\ LiveIn(e, b, z) <=> LiveIn(d, b, z)
        /\ CompletedIn(e, b, z) <=> CompletedIn(d, b, z)
        /\ Working(e, b, z) <=> Working(d, b, z)
        /\ Counted(e, b, z) <=> Counted(d, b, z)
    <2>1. \A b \in Attempts, z \in Sources :
            /\ LiveIn(e, b, z) <=> LiveIn(d, b, z)
            /\ CompletedIn(e, b, z) <=> CompletedIn(d, b, z)
        BY <1>2, <1>3, <1>4 DEF LiveIn, CompletedIn, IsActive
    <2>2. \A b \in Attempts, z \in Sources : Counted(e, b, z) <=> Counted(d, b, z)
        BY <1>2, <1>3 DEF Counted
    <2> QED
        BY <2>1, <2>2 DEF Working
<1>6. Later(d, e) /\ BindsTruly(d, e, th) /\ InOrder(d, e)
    BY <1>2 DEF Later, BindsTruly, InOrder, Shut, IsActive
<1>7. MembersFit(e)
    <2>1. SUFFICES ASSUME NEW b \in Attempts, NEW z \in Sources PROVE MemberFits(e, b, z)
        BY DEF MembersFit
    <2>2. MemberFits(d, b, z)
        BY DEF Fits, MembersFit
    <2>3. CASE e.att[b] = d.att[b]
        BY <1>2, <2>2, <2>3 DEF MemberFits, IsActive, IsStart
    <2>4. CASE e.att[b] # d.att[b]
        <3>1. e.mem[b][z].state = "none" /\ ~e.mem[b][z].observed /\ e.att[b].state = "failed"
            BY <1>2, <1>3, <2>4
        <3> QED
            BY <1>4, <3>1 DEF MemberFits, IsActive, IsStart
    <2> QED
        BY <2>3, <2>4
<1>8. SourcesFit(e)
    BY <1>2, <1>5 DEF Fits, SourcesFit
<1>9. /\ \A z \in Sources : Over(d, z) => Over(e, z)
      /\ \A z \in Sources : SourceWarned(e, z) => SourceWarned(d, z)
      /\ \A b \in Attempts : AttemptWarned(e, b) => AttemptWarned(d, b)
      /\ \A z \in Sources : e.src[z].state = "pending" => d.src[z].state = "pending"
      /\ \A z \in Sources : Waiting(e, z) => Waiting(d, z)
      /\ \A b \in Attempts, z \in Sources : d.att[b].state = "failed" /\ e.mem[b][z].observed => d.mem[b][z].observed
    BY <1>2, <1>5 DEF Over, SourceWarned, AttemptWarned, Waiting
<1>10. Fits(e, th)
    BY <1>1, <1>5, <1>6, <1>7, <1>8, <1>9, FitsKept
<1> QED
    BY <1>6, <1>10 DEF e

-----------------------------------------------------------------------------
(* The end of an attempt *)

\* The sources that the turn of attempt a carried.
CarriedIn(d, a, s) == d.mem[a][s].state \in {"submitted", "completed"}

\* The owner learns how a source that attempt a carried has ended: by a warning,
\* or by the final text of the turn when that is a chat's.
Tells(d, e, a, s) ==
    CarriedIn(d, a, s) /\ e.src[s].state = "completed" =>
      \/ SourceWarned(e, s) \/ AttemptWarned(e, a)
      \/ /\ e.mem[a][s].state = "completed"
         /\ Chat(d, d.att[a].primary) => [kind |-> "final", id |-> a] \in e.out

\* Transaction e closes the bound attempt a with its submitted members; each
\* source it carried is done with, or goes back if it may be tried again.
Closes(d, e, a) ==
    /\ e.att[a].state \in {"completed", "failed"} /\ e.att[a].primary = d.att[a].primary
    /\ e.att[a].turn = d.att[a].turn
    /\ \A b \in Attempts \ {a} : e.att[b] = d.att[b] /\ e.mem[b] = d.mem[b]
    /\ \A s \in Sources :
         /\ e.src[s].conv = d.src[s].conv
         /\ e.mem[a][s].observed = d.mem[a][s].observed
         /\ IF d.mem[a][s].state = "submitted"
            THEN e.mem[a][s].state \in {"completed", "failed", "superseded"}
            ELSE e.mem[a][s].state = d.mem[a][s].state
         /\ IF CarriedIn(d, a, s)
            THEN \/ e.src[s].state \in {"completed", "superseded"}
                 \/ /\ e.src[s].state = "pending" /\ e.att[a].state = "failed"
                    /\ FailedAttempts(d, s) + 1 < MaxEffectFree
            ELSE e.src[s].state = d.src[s].state
    /\ \A n \in e.out : n.kind \in {"needs_attention", "exhausted"} =>
         n \in d.out \/ \E s \in Sources : /\ n.id = s /\ CarriedIn(d, a, s)
                                           /\ e.src[s].state \in {"completed", "superseded"}
    /\ \A b \in Attempts : AttemptWarned(e, b) =>
         \/ AttemptWarned(d, b)
         \/ /\ b = a /\ e.att[a].state = "failed"
            /\ \A s \in Sources : CarriedIn(d, a, s) => e.src[s].state # "pending"
    /\ d.out \subseteq e.out
    /\ \A s \in Sources : Tells(d, e, a, s)

LEMMA CloseKeeps ==
    ASSUME NEW d \in Databases, NEW e \in Databases, NEW th, Len(th) \in Nat, Fits(d, th),
           NEW a \in Attempts, IsActive(d, a), d.att[a].turn # NoTurn, Closes(d, e, a)
    PROVE  Fits(e, th) /\ Later(d, e) /\ Stays(d, e, th)
<1>1. /\ e.att[a].state \in {"completed", "failed"} /\ e.att[a].primary = d.att[a].primary
      /\ e.att[a].turn = d.att[a].turn
      /\ \A b \in Attempts \ {a} : e.att[b] = d.att[b] /\ e.mem[b] = d.mem[b]
    BY DEF Closes
<1>2. \A s \in Sources :
         /\ e.src[s].conv = d.src[s].conv
         /\ e.mem[a][s].observed = d.mem[a][s].observed
         /\ IF d.mem[a][s].state = "submitted"
            THEN e.mem[a][s].state \in {"completed", "failed", "superseded"}
            ELSE e.mem[a][s].state = d.mem[a][s].state
    BY DEF Closes
<1>3. \A s \in Sources :
         IF CarriedIn(d, a, s)
         THEN \/ e.src[s].state \in {"completed", "superseded"}
              \/ /\ e.src[s].state = "pending" /\ e.att[a].state = "failed"
                 /\ FailedAttempts(d, s) + 1 < MaxEffectFree
         ELSE e.src[s].state = d.src[s].state
    BY DEF Closes
<1>4. /\ \A x \in Unresolved : x \in Live /\ x \notin {"completed", "none", "submitted", "failed", "superseded"}
      /\ \A x \in Live : x \in Unresolved \/ x = "submitted"
      /\ "submitted" \in Live
      /\ "none" \notin Live /\ "completed" \notin Live /\ "failed" \notin Live /\ "superseded" \notin Live
    BY DEF Live, Unresolved
<1>5. \A b \in Attempts, z \in Sources : MemberFits(d, b, z)
    BY DEF Fits, MembersFit
<1>6. \A z \in Sources : /\ d.mem[a][z].observed <=> CarriedIn(d, a, z)
                         /\ IsStart(d, a, z) => CarriedIn(d, a, z) /\ d.mem[a][z].state = "submitted"
    BY <1>5 DEF MemberFits, CarriedIn
<1>7. \A z \in Sources : CarriedIn(d, a, z) =>
         /\ d.src[z].state \in {"active", "completed"} /\ ~Over(d, z)
         /\ \A b \in Attempts : Working(d, b, z) <=> b = a
    <2>1. SUFFICES ASSUME NEW z \in Sources, CarriedIn(d, a, z)
                   PROVE  /\ d.src[z].state \in {"active", "completed"} /\ ~Over(d, z)
                          /\ \A b \in Attempts : Working(d, b, z) <=> b = a
        OBVIOUS
    <2>2. Working(d, a, z) /\ (LiveIn(d, a, z) \/ CompletedIn(d, a, z))
        BY <1>4, <2>1 DEF CarriedIn, Working, LiveIn, CompletedIn
    <2>3. \A b \in Attempts : Working(d, b, z) => b = a
        BY <2>2 DEF Fits, SourcesFit
    <2>4. (LiveIn(d, a, z) => d.src[z].state = "active") /\ (CompletedIn(d, a, z) => d.src[z].state = "completed")
        BY DEF Fits, SourcesFit
    <2>5. ~Over(d, z)
        BY <2>2, <2>4 DEF Over
    <2> QED
        BY <2>2, <2>3, <2>4, <2>5
<1>8. \A b \in Attempts, z \in Sources :
        /\ LiveIn(e, b, z) <=> (LiveIn(d, b, z) /\ ~(b = a /\ CarriedIn(d, a, z)))
        /\ CompletedIn(e, b, z) <=> (CompletedIn(d, b, z) /\ b # a)
        /\ Working(e, b, z) => Working(d, b, z) /\ ~(b = a /\ CarriedIn(d, a, z))
    <2>1. ASSUME NEW b \in Attempts, NEW z \in Sources, b # a
          PROVE  /\ LiveIn(e, b, z) <=> LiveIn(d, b, z)
                 /\ CompletedIn(e, b, z) <=> CompletedIn(d, b, z)
        BY <1>1, <2>1 DEF LiveIn, CompletedIn, IsActive
    <2>2. ASSUME NEW z \in Sources
          PROVE  /\ LiveIn(e, a, z) <=> (LiveIn(d, a, z) /\ ~CarriedIn(d, a, z))
                 /\ ~CompletedIn(e, a, z)
        BY <1>1, <1>2, <1>4 DEF LiveIn, CompletedIn, IsActive, CarriedIn
    <2> QED
        BY <2>1, <2>2 DEF Working
<1>9. \A b \in Attempts, z \in Sources :
        /\ d.mem[b][z].state # "none" => e.mem[b][z].state # "none"
        /\ d.mem[b][z].state \in Unresolved <=> e.mem[b][z].state \in Unresolved
        /\ d.mem[b][z].observed = e.mem[b][z].observed
    <2>1. ASSUME NEW b \in Attempts, NEW z \in Sources
          PROVE  /\ d.mem[b][z].state # "none" => e.mem[b][z].state # "none"
                 /\ d.mem[b][z].state \in Unresolved <=> e.mem[b][z].state \in Unresolved
                 /\ d.mem[b][z].observed = e.mem[b][z].observed
        <3>1. CASE b = a
            BY <1>2, <1>4, <3>1
        <3>2. CASE b # a
            BY <1>1, <3>2
        <3> QED
            BY <3>1, <3>2
    <2> QED
        BY <2>1
<1>10. \A z \in Sources : d.src[z].state # "absent" => e.src[z].state # "absent"
    BY <1>3
<1>11. Later(d, e) /\ BindsTruly(d, e, th) /\ InOrder(d, e) /\ Stays(d, e, th)
    <2>1. \A b \in Attempts :
            /\ d.att[b].state # "absent" => e.att[b].state # "absent"
            /\ d.att[b].state = "absent" => e.att[b].state = "absent"
            /\ e.att[b].primary = d.att[b].primary /\ e.att[b].turn = d.att[b].turn
            /\ d.att[b].state = "failed" => e.att[b].state = "failed"
        BY <1>1 DEF IsActive
    <2>2. \A b \in Attempts : Shut(d, b) => Shut(e, b)
        BY <1>1, <1>9 DEF Shut, IsActive
    <2> QED
        BY <1>2, <1>9, <1>10, <2>1, <2>2 DEF Later, BindsTruly, InOrder, Stays
<1>12. MembersFit(e)
    <2>1. SUFFICES ASSUME NEW b \in Attempts, NEW z \in Sources PROVE MemberFits(e, b, z)
        BY DEF MembersFit
    <2>2. MemberFits(d, b, z)
        BY <1>5
    <2>3. CASE b # a
        BY <1>1, <2>2, <2>3 DEF MemberFits, IsActive, IsStart
    <2>4. CASE b = a
        <3>1. /\ IsStart(e, a, z) <=> IsStart(d, a, z)
              /\ e.att[a].state # "absent" /\ e.att[a].turn # NoTurn /\ ~IsActive(e, a)
            BY <1>1 DEF IsStart, IsActive
        <3>2. e.mem[a][z].state # "submitted" /\ (IsStart(e, a, z) => e.mem[a][z].state \notin Unresolved)
            BY <1>2, <1>4, <1>6, <3>1
        <3>3. e.mem[a][z].state = "none" => ~e.mem[a][z].observed
            BY <1>2, <1>6 DEF CarriedIn
        <3> QED
            BY <2>4, <3>1, <3>2, <3>3 DEF MemberFits
    <2> QED
        BY <2>3, <2>4
<1>13. SourcesFit(e)
    <2>1. SUFFICES ASSUME NEW z \in Sources
                   PROVE /\ e.src[z].state = "absent" => \A b \in Attempts : e.mem[b][z].state = "none"
                         /\ e.src[z].state = "active" <=> \E b \in Attempts : LiveIn(e, b, z)
                         /\ \A b \in Attempts : CompletedIn(e, b, z) => e.src[z].state = "completed"
                         /\ \A b, c \in Attempts : Working(e, b, z) /\ Working(e, c, z) => b = c
        BY DEF SourcesFit
    <2>2. CASE CarriedIn(d, a, z)
        <3>1. \A b \in Attempts : ~Working(e, b, z)
            BY <1>7, <1>8, <2>2
        <3> QED
            BY <1>3, <2>2, <3>1 DEF Working
    <2>3. CASE ~CarriedIn(d, a, z)
        <3>1. e.src[z].state = d.src[z].state
            BY <1>3, <2>3
        <3>2. \A b \in Attempts : d.mem[b][z].state = "none" => e.mem[b][z].state = "none"
            <4>1. e.mem[a][z].state = d.mem[a][z].state
                BY <1>2, <2>3 DEF CarriedIn
            <4> QED
                BY <1>1, <4>1
        <3> QED
            BY <1>8, <2>3, <3>1, <3>2 DEF Fits, SourcesFit
    <2> QED
        BY <2>2, <2>3
<1>14. \A z \in Sources : CarriedIn(d, a, z) /\ e.src[z].state # "pending" => Over(e, z)
    <2>1. SUFFICES ASSUME NEW z \in Sources, CarriedIn(d, a, z), e.src[z].state # "pending" PROVE Over(e, z)
        OBVIOUS
    <2>2. e.src[z].state \in {"completed", "superseded"}
        BY <1>3, <2>1
    <2>3. \A b \in Attempts : ~CompletedIn(e, b, z)
        BY <1>7, <1>8, <2>1 DEF Working
    <2> QED
        BY <2>2, <2>3 DEF Over
<1>15. \A z \in Sources : Over(d, z) => Over(e, z)
    <2>1. SUFFICES ASSUME NEW z \in Sources, Over(d, z) PROVE Over(e, z)
        OBVIOUS
    <2>2. ~CarriedIn(d, a, z)
        BY <1>7, <2>1
    <2>3. e.src[z].state = d.src[z].state
        BY <1>3, <2>2
    <2> QED
        BY <1>8, <2>1, <2>3 DEF Over
<1>16. \A z \in Sources : SourceWarned(e, z) => SourceWarned(d, z) \/ Over(e, z)
    <2>1. SUFFICES ASSUME NEW z \in Sources, NEW n \in e.out, n.kind \in {"needs_attention", "exhausted"}, n.id = z
                   PROVE  SourceWarned(d, z) \/ Over(e, z)
        BY DEF SourceWarned
    <2>2. n \in d.out \/ (CarriedIn(d, a, z) /\ e.src[z].state \in {"completed", "superseded"})
        BY <2>1 DEF Closes
    <2> QED
        BY <1>14, <2>1, <2>2 DEF SourceWarned
<1>17. \A b \in Attempts : AttemptWarned(e, b) => AttemptWarned(d, b) \/
          (e.att[b].state = "failed" /\ \A z \in Sources : e.mem[b][z].observed => Over(e, z))
    <2>1. SUFFICES ASSUME AttemptWarned(e, a), ~AttemptWarned(d, a)
                   PROVE  e.att[a].state = "failed" /\ \A z \in Sources : e.mem[a][z].observed => Over(e, z)
        BY DEF Closes
    <2>2. /\ e.att[a].state = "failed"
          /\ \A s \in Sources : CarriedIn(d, a, s) => e.src[s].state # "pending"
        BY <2>1 DEF Closes
    <2> QED
        BY <1>2, <1>6, <1>14, <2>2
<1>18. \A b \in Attempts, z \in Sources : d.att[b].state = "failed" /\ e.mem[b][z].observed => d.mem[b][z].observed
    BY <1>9
<1>19. \A z \in Sources : e.src[z].state = "pending" =>
          d.src[z].state = "pending" \/ \A b \in Attempts : Ran(th, b, z) => Spoilt(e, b, z)
    <2>1. SUFFICES ASSUME NEW z \in Sources, e.src[z].state = "pending", CarriedIn(d, a, z),
                          NEW b \in Attempts, Ran(th, b, z)
                   PROVE  Spoilt(e, b, z)
        BY <1>3
    <2>2. CASE b = a
        BY <1>2, <1>3, <1>6, <2>1, <2>2 DEF Spoilt
    <2>3. CASE b # a
        <3>1. Working(d, a, z)
            BY <1>7, <2>1
        <3>2. Spoilt(d, b, z)
            BY <2>1, <2>3, <3>1 DEF Fits, RunsFit
        <3> QED
            BY <1>1, <2>3, <3>2 DEF Spoilt
    <2> QED
        BY <2>2, <2>3
<1>20. \A z \in Sources : Waiting(e, z) =>
          \/ Waiting(d, z) /\ \A b \in Attempts : Counted(e, b, z) => Counted(d, b, z)
          \/ FailedAttempts(e, z) < MaxEffectFree
    <2>1. SUFFICES ASSUME NEW z \in Sources, Waiting(e, z)
                   PROVE  \/ Waiting(d, z) /\ \A b \in Attempts : Counted(e, b, z) => Counted(d, b, z)
                          \/ FailedAttempts(e, z) < MaxEffectFree
        OBVIOUS
    <2>2. \A b \in Attempts : Counted(e, b, z) => Counted(d, b, z) \/ (b = a /\ CarriedIn(d, a, z))
        BY <1>1, <1>2, <1>6 DEF Counted
    <2>3. CASE CarriedIn(d, a, z)
        <3>1. FailedAttempts(d, z) + 1 < MaxEffectFree
            BY <1>3, <2>1, <2>3 DEF Waiting
        <3>2. FailedAttempts(e, z) <= FailedAttempts(d, z) + 1
            BY <2>2, FailedOnceMore
        <3>3. FailedAttempts(d, z) \in Nat /\ FailedAttempts(e, z) \in Nat
            BY CountedSet
        <3> QED
            BY <3>1, <3>2, <3>3, BoundsAssumption
    <2>4. CASE ~CarriedIn(d, a, z)
        BY <1>3, <2>1, <2>2, <2>4 DEF Waiting
    <2> QED
        BY <2>3, <2>4
<1>21. \A b \in Attempts, z \in Sources : Working(e, b, z) => Working(d, b, z)
    BY <1>8
<1>22. Fits(e, th)
    BY <1>11, <1>12, <1>13, <1>15, <1>16, <1>17, <1>18, <1>19, <1>20, <1>21, FitsKept
<1> QED
    BY <1>11, <1>22

\* The source of the start is among those an attempt carries.
LEMMA CarriedSet ==
    ASSUME NEW d \in Databases, NEW th, Fits(d, th),
           NEW a \in Attempts, IsActive(d, a), d.att[a].turn # NoTurn
    PROVE  Carried(d, a) = {s \in Sources : CarriedIn(d, a, s)}
<1>1. d.att[a].primary \in Sources
    BY DEF Databases, AttemptRows
<1>2. d.mem[a][d.att[a].primary].state = "submitted"
    BY <1>1 DEF Fits, MembersFit, MemberFits, IsStart
<1>3. Members(d, a, {"submitted", "completed"}) = {s \in Sources : CarriedIn(d, a, s)}
    BY DEF Members, CarriedIn
<1>4. Members(d, a, {"submitted", "completed"}) # {}
    BY <1>1, <1>2 DEF Members
<1> QED
    BY <1>3, <1>4 DEF Carried

LEMMA MarkTerminalNeedsAttentionKeeps ==
    ASSUME NEW d \in Databases, NEW th, Len(th) \in Nat, Fits(d, th),
           NEW a \in Attempts, IsActive(d, a), d.att[a].turn # NoTurn
    PROVE  LET e == MarkTerminalNeedsAttention(d, a)
           IN  Fits(e, th) /\ Later(d, e) /\ Stays(d, e, th) /\ Closes(d, e, a)
<1> DEFINE e == MarkTerminalNeedsAttention(d, a)
           held == {s \in Members(d, a, {"submitted"}) : d.src[s].state = "active"}
<1>1. e \in Databases
    BY MarkTerminalNeedsAttentionEvolves DEF Evolves
<1>2. \A s \in Sources : /\ s \in held <=> d.mem[a][s].state = "submitted" /\ d.src[s].state = "active"
                         /\ d.mem[a][s].state = "submitted" => d.src[s].state = "active"
                         /\ d.mem[a][s].state = "completed" => d.src[s].state = "completed"
    <2>1. "submitted" \in Live
        BY DEF Live
    <2>2. \A s \in Sources : /\ d.mem[a][s].state = "submitted" => d.src[s].state = "active"
                             /\ d.mem[a][s].state = "completed" => d.src[s].state = "completed"
        BY <2>1 DEF Fits, SourcesFit, LiveIn, CompletedIn
    <2>3. \A s \in Sources : s \in held <=> d.mem[a][s].state = "submitted" /\ d.src[s].state = "active"
        BY DEF Members
    <2> QED
        BY <2>2, <2>3
<1> HIDE DEF held
<1>3. /\ e.att[a].state = "failed" /\ e.att[a].primary = d.att[a].primary /\ e.att[a].turn = d.att[a].turn
      /\ \A b \in Attempts \ {a} : e.att[b] = d.att[b] /\ e.mem[b] = d.mem[b]
      /\ e.out = d.out \cup {[kind |-> "terminal_needs_attention", id |-> a]}
      /\ \A s \in Sources :
           /\ e.src[s].conv = d.src[s].conv
           /\ e.src[s].state = IF s \in held THEN "completed" ELSE d.src[s].state
           /\ e.mem[a][s].observed = d.mem[a][s].observed
           /\ e.mem[a][s].state = IF d.mem[a][s].state = "submitted" THEN "failed" ELSE d.mem[a][s].state
    BY DEF MarkTerminalNeedsAttention, held, CompleteSources, MoveMembers, Databases, SourceRows, AttemptRows, MemberRows
<1> HIDE DEF e
<1>4. \A s \in Sources :
         IF CarriedIn(d, a, s) THEN e.src[s].state = "completed" ELSE e.src[s].state = d.src[s].state
    BY <1>2, <1>3 DEF CarriedIn
<1>5. \A n \in e.out : n.kind \in {"needs_attention", "exhausted"} => n \in d.out
    BY <1>3
<1>6. \A b \in Attempts : AttemptWarned(e, b) => AttemptWarned(d, b) \/ b = a
    BY <1>3 DEF AttemptWarned
<1>7. Closes(d, e, a)
    <2>1. AttemptWarned(e, a) /\ d.out \subseteq e.out
        BY <1>3 DEF AttemptWarned
    <2>2. \A s \in Sources : Tells(d, e, a, s)
        BY <2>1 DEF Tells
    <2> QED
        BY <1>3, <1>4, <1>5, <1>6, <2>1, <2>2 DEF Closes
<1>8. Fits(e, th) /\ Later(d, e) /\ Stays(d, e, th)
    BY <1>1, <1>7, CloseKeeps
<1> QED
    BY <1>7, <1>8 DEF e

LEMMA BeginTerminalReconciliationKeeps ==
    ASSUME NEW d \in Databases, NEW th, Len(th) \in Nat, Fits(d, th),
           NEW a \in Attempts, IsActive(d, a), d.att[a].turn # NoTurn,
           NEW decision \in TerminalDecisions(d, a)
    PROVE  LET e == BeginTerminalReconciliation(d, a, decision) IN Fits(e, th) /\ Later(d, e)
<1> DEFINE e == BeginTerminalReconciliation(d, a, decision)
<1>1. CASE decision = "needs_attention"
    BY <1>1, MarkTerminalNeedsAttentionKeeps DEF BeginTerminalReconciliation
<1>2. CASE decision # "needs_attention"
    <2>1. e \in Databases
        BY BeginTerminalReconciliationEvolves DEF Evolves
    <2>2. PICK s \in Sources : TRUE
        BY BoundsAssumption DEF Sources
    <2>3. Alike(d, e)
        BY <1>2, <2>2, TryAlike, AlikeReflexive DEF BeginTerminalReconciliation
    <2> HIDE DEF e
    <2>4. Fits(e, th) /\ Later(d, e)
        BY <2>1, <2>3, AlikeKeeps
    <2> QED
        BY <2>4 DEF e
<1> QED
    BY <1>1, <1>2

LEMMA CompleteAttemptKeeps ==
    ASSUME NEW d \in Databases, NEW th, Len(th) \in Nat, Fits(d, th),
           NEW a \in Attempts, IsActive(d, a), d.att[a].turn # NoTurn
    PROVE  LET e == CompleteAttempt(d, a)
           IN  Fits(e, th) /\ Later(d, e) /\ Stays(d, e, th) /\ Closes(d, e, a)
<1> DEFINE e == CompleteAttempt(d, a)
           S == Carried(d, a)
<1>1. e \in Databases
    BY CompleteAttemptEvolves DEF Evolves
<1>2. S = {s \in Sources : CarriedIn(d, a, s)}
    BY CarriedSet
<1> HIDE DEF S
<1>3. /\ e.att[a].state = "completed" /\ e.att[a].primary = d.att[a].primary /\ e.att[a].turn = d.att[a].turn
      /\ \A b \in Attempts \ {a} : e.att[b] = d.att[b] /\ e.mem[b] = d.mem[b]
      /\ \A n \in e.out : n.kind # "final" => n \in d.out
      /\ d.out \subseteq e.out
      /\ Chat(d, d.att[a].primary) => [kind |-> "final", id |-> a] \in e.out
      /\ \A s \in Sources :
           /\ e.src[s].conv = d.src[s].conv
           /\ e.src[s].state = IF s \in S THEN "completed" ELSE d.src[s].state
           /\ e.mem[a][s].observed = d.mem[a][s].observed
           /\ e.mem[a][s].state = IF d.mem[a][s].state = "submitted" THEN "completed" ELSE d.mem[a][s].state
    BY DEF CompleteAttempt, S, CloseAttempt, CompleteSources, MoveMembers, Chat, Databases, SourceRows, AttemptRows, MemberRows
<1> HIDE DEF e
<1>4. \A s \in Sources :
         IF CarriedIn(d, a, s) THEN e.src[s].state = "completed" ELSE e.src[s].state = d.src[s].state
    BY <1>2, <1>3
<1>5. \A n \in e.out : n.kind \in {"needs_attention", "exhausted"} => n \in d.out
    BY <1>3
<1>6. \A b \in Attempts : AttemptWarned(e, b) => AttemptWarned(d, b)
    BY <1>3 DEF AttemptWarned
<1>7. Closes(d, e, a)
    <2>1. \A s \in Sources : CarriedIn(d, a, s) => e.mem[a][s].state = "completed"
        BY <1>3 DEF CarriedIn
    <2>2. \A s \in Sources : Tells(d, e, a, s)
        BY <1>3, <2>1 DEF Tells
    <2> QED
        BY <1>3, <1>4, <1>5, <1>6, <2>2 DEF Closes
<1>8. Fits(e, th) /\ Later(d, e) /\ Stays(d, e, th)
    BY <1>1, <1>7, CloseKeeps
<1> QED
    BY <1>7, <1>8 DEF e

LEMMA RetryAttemptKeeps ==
    ASSUME NEW d \in Databases, NEW th, Len(th) \in Nat, Fits(d, th),
           NEW a \in Attempts, IsActive(d, a), d.att[a].turn # NoTurn, ~HasUnresolved(d, a)
    PROVE  LET e == RetryAttempt(d, a)
           IN  Fits(e, th) /\ Later(d, e) /\ Stays(d, e, th) /\ Closes(d, e, a)
<1> DEFINE e == RetryAttempt(d, a)
           S == Carried(d, a)
           P == Spent(d, a)
           from == MemberStates \ {"none", "completed", "superseded"}
<1>1. e \in Databases
    BY RetryAttemptEvolves DEF Evolves
<1>2. /\ S = {s \in Sources : CarriedIn(d, a, s)}
      /\ P = {s \in S : FailedAttempts(d, s) + 1 >= MaxEffectFree}
    BY CarriedSet DEF Spent
<1> HIDE DEF S, P
<1>3. \A s \in Sources : /\ d.mem[a][s].state \in from => d.mem[a][s].state \in {"submitted", "failed"}
                         /\ "submitted" \in from
    BY DEF HasUnresolved, Members, MemberStates, Live
<1> HIDE DEF from
<1>4. /\ e.att[a].state = "failed" /\ e.att[a].primary = d.att[a].primary /\ e.att[a].turn = d.att[a].turn
      /\ \A b \in Attempts \ {a} : e.att[b] = d.att[b] /\ e.mem[b] = d.mem[b]
      /\ e.out = d.out \cup {[kind |-> "exhausted", id |-> s] : s \in P}
      /\ \A s \in Sources :
           /\ e.src[s].conv = d.src[s].conv
           /\ e.src[s].state = IF s \in S \ P THEN "pending"
                               ELSE IF s \in P THEN "completed" ELSE d.src[s].state
           /\ e.mem[a][s].observed = d.mem[a][s].observed
           /\ e.mem[a][s].state = IF d.mem[a][s].state \in from THEN "failed" ELSE d.mem[a][s].state
    BY DEF RetryAttempt, S, P, from, CloseAttempt, CompleteSources, MoveMembers, Databases, SourceRows, AttemptRows, MemberRows
<1> HIDE DEF e
<1>5. \A s \in Sources :
         IF CarriedIn(d, a, s)
         THEN \/ e.src[s].state = "completed"
              \/ /\ e.src[s].state = "pending" /\ e.att[a].state = "failed"
                 /\ FailedAttempts(d, s) + 1 < MaxEffectFree
         ELSE e.src[s].state = d.src[s].state
    <2>1. \A s \in Sources : FailedAttempts(d, s) \in Nat
        BY CountedSet
    <2> QED
        BY <1>2, <1>4, <2>1, BoundsAssumption
<1>6. \A n \in e.out : n.kind \in {"needs_attention", "exhausted"} =>
         n \in d.out \/ \E s \in Sources : /\ n.id = s /\ CarriedIn(d, a, s)
                                           /\ e.src[s].state \in {"completed", "superseded"}
    BY <1>2, <1>4
<1>7. \A b \in Attempts : AttemptWarned(e, b) => AttemptWarned(d, b)
    BY <1>4 DEF AttemptWarned
<1>8. \A s \in Sources : IF d.mem[a][s].state = "submitted"
                         THEN e.mem[a][s].state = "failed" ELSE e.mem[a][s].state = d.mem[a][s].state
    BY <1>3, <1>4
<1>9. Closes(d, e, a)
    <2>1. ASSUME NEW s \in P PROVE SourceWarned(e, s)
        <3>1. [kind |-> "exhausted", id |-> s] \in e.out
            BY <1>4
        <3> QED
            BY <3>1 DEF SourceWarned
    <2>2. \A s \in Sources : CarriedIn(d, a, s) /\ e.src[s].state = "completed" => s \in P
        BY <1>2, <1>4
    <2>3. \A s \in Sources : Tells(d, e, a, s)
        BY <2>1, <2>2 DEF Tells
    <2>4. d.out \subseteq e.out
        BY <1>4
    <2> QED
        BY <1>4, <1>5, <1>6, <1>7, <1>8, <2>3, <2>4 DEF Closes
<1>10. Fits(e, th) /\ Later(d, e) /\ Stays(d, e, th)
    BY <1>1, <1>9, CloseKeeps
<1> QED
    BY <1>9, <1>10 DEF e

LEMMA SupersedeAttemptKeeps ==
    ASSUME NEW d \in Databases, NEW th, Len(th) \in Nat, Fits(d, th),
           NEW a \in Attempts, IsActive(d, a), d.att[a].turn # NoTurn,
           NEW r \in Sources, d.src[r].state = "absent"
    PROVE  LET e == SupersedeAttempt(d, a, r)
               i == InsertSource(d, r, Internal)
           IN  Fits(e, th) /\ Later(d, e) /\ Stays(d, e, th) /\ Closes(i, e, a)
<1> DEFINE e == SupersedeAttempt(d, a, r)
           i == InsertSource(d, r, Internal)
           S == Carried(d, a)
<1>1. e \in Databases
    BY SupersedeAttemptEvolves DEF Evolves
<1>2. i \in Databases
    BY InsertSourceEvolves DEF Evolves
<1>3. Fits(i, th) /\ Later(d, i) /\ Stays(d, i, th)
    BY InsertSourceKeeps
<1>4. S = {s \in Sources : CarriedIn(d, a, s)}
    BY CarriedSet
<1>5. d.mem[a][r].state = "none"
    BY AbsentIsNew
<1>6. /\ i.att = d.att /\ i.mem = d.mem /\ i.out = d.out
      /\ i.src[r].state = "pending" /\ i.src[r].conv = Internal
      /\ \A s \in Sources \ {r} : i.src[s] = d.src[s]
    BY DEF InsertSource, Databases
<1> HIDE DEF S
<1>7. /\ e.att[a].state = "failed" /\ e.att[a].primary = d.att[a].primary /\ e.att[a].turn = d.att[a].turn
      /\ \A b \in Attempts \ {a} : e.att[b] = d.att[b] /\ e.mem[b] = d.mem[b]
      /\ e.out = d.out
      /\ e.src[r].state = "pending" /\ e.src[r].conv = Internal
      /\ \A s \in Sources \ {r} :
           /\ e.src[s].conv = d.src[s].conv
           /\ e.src[s].state = IF s \in S THEN "superseded" ELSE d.src[s].state
      /\ \A s \in Sources :
           /\ e.mem[a][s].observed = d.mem[a][s].observed
           /\ e.mem[a][s].state = IF d.mem[a][s].state = "submitted" THEN "superseded" ELSE d.mem[a][s].state
    BY DEF SupersedeAttempt, S, CloseAttempt, MoveMembers, Databases, SourceRows, AttemptRows, MemberRows
<1> HIDE DEF e, i
<1>8. \A s \in Sources : CarriedIn(i, a, s) <=> (s \in S /\ s # r)
    BY <1>4, <1>5, <1>6 DEF CarriedIn
<1>9. \A s \in Sources :
         /\ e.src[s].conv = i.src[s].conv
         /\ IF CarriedIn(i, a, s) THEN e.src[s].state = "superseded" ELSE e.src[s].state = i.src[s].state
    BY <1>6, <1>7, <1>8
<1>10. /\ \A n \in e.out : n \in i.out
       /\ \A b \in Attempts : AttemptWarned(e, b) => AttemptWarned(i, b)
    BY <1>6, <1>7 DEF AttemptWarned
<1>11. Closes(i, e, a)
    <2>1. \A s \in Sources : Tells(i, e, a, s)
        BY <1>9 DEF Tells
    <2>2. i.out \subseteq e.out
        BY <1>6, <1>7
    <2> QED
        BY <1>6, <1>7, <1>9, <1>10, <2>1, <2>2 DEF Closes
<1>12. Fits(e, th) /\ Later(i, e) /\ Stays(i, e, th)
    BY <1>1, <1>2, <1>3, <1>6, <1>11, CloseKeeps DEF IsActive
<1>13. Later(d, e)
    BY <1>3, <1>12, LaterTransitive
<1>14. Stays(d, e, th)
    BY <1>3, <1>12 DEF Stays
<1> QED
    BY <1>11, <1>12, <1>13, <1>14 DEF e, i

-----------------------------------------------------------------------------
(* The native thread moves on *)

\* Turns end; their inputs stay.
LEMMA TurnsEndKeeps ==
    ASSUME NEW d, NEW th, NEW th2, Fits(d, th), Len(th2) = Len(th),
           \A t \in 1..Len(th) : /\ th2[t].inputs = th[t].inputs
                                 /\ th2[t].status = "active" => th[t].status = "active"
    PROVE  Fits(d, th2) /\ \A a \in Attempts, s \in Sources : Ran(th2, a, s) <=> Ran(th, a, s)
<1>1. \A a, s : Ran(th2, a, s) <=> Ran(th, a, s)
    BY DEF Ran
<1>2. ThreadFits(d, th2)
    <2>1. ThreadFits(d, th)
        BY DEF Fits
    <2> QED
        BY <2>1 DEF ThreadFits
<1>3. RunsFit(d, th2)
    BY <1>1 DEF Fits, RunsFit
<1> QED
    BY <1>1, <1>2, <1>3 DEF Fits

\* The inputs of a turn are those of one attempt, and its start is among them.
LEMMA TurnHasStart ==
    ASSUME NEW d \in Databases, NEW th, ThreadFits(d, th), NEW t \in 1..Len(th),
           NEW a \in Attempts, NEW s \in Sources, <<a, s>> \in th[t].inputs
    PROVE  <<a, d.att[a].primary>> \in th[t].inputs
<1>1. PICK b \in Attempts : <<b, d.att[b].primary>> \in th[t].inputs
    BY DEF ThreadFits
<1>2. d.att[b].primary \in Sources
    BY DEF Databases, AttemptRows
<1>3. a = b
    BY <1>1, <1>2 DEF ThreadFits
<1> QED
    BY <1>1, <1>3

LEMMA StartAppliedKeeps ==
    ASSUME NEW d \in Databases, NEW th, NEW th2, Len(th) \in Nat, Fits(d, th),
           NEW a \in Attempts, NEW s \in Sources, IsStart(d, a, s), d.mem[a][s].state \in Unresolved,
           ~Ran(th, a, s), \A b \in Attempts : a < b => d.att[b].state = "absent",
           Len(th2) = Len(th) + 1, th2[Len(th) + 1].inputs = {<<a, s>>},
           \A t \in 1..Len(th) : th2[t].inputs = th[t].inputs /\ th2[t].status # "active"
    PROVE  /\ Fits(d, th2) /\ <<a, s>> \in th2[Len(th) + 1].inputs
           /\ \A b \in Attempts, z \in Sources : Ran(th2, b, z) <=> (Ran(th, b, z) \/ (b = a /\ z = s))
<1> DEFINE n == Len(th) + 1
<1>1. /\ n \in Nat /\ n > Len(th) /\ Len(th2) = n /\ 1..n = (1..Len(th)) \cup {n} /\ n \notin 1..Len(th)
      /\ th2[n].inputs = {<<a, s>>}
    OBVIOUS
<1> HIDE DEF n
<1>2. \A b \in Attempts, z \in Sources : Ran(th2, b, z) <=> (Ran(th, b, z) \/ (b = a /\ z = s))
    BY <1>1 DEF Ran
<1>3. \A t \in 1..Len(th), b \in Attempts, z \in Sources : <<b, z>> \in th[t].inputs =>
         /\ d.mem[b][z].state # "none" /\ d.att[b].state # "absent"
         /\ ~IsStart(d, b, z) => d.att[b].turn = t
         /\ b < a
    <2>1. SUFFICES ASSUME NEW t \in 1..Len(th), NEW b \in Attempts, NEW z \in Sources, <<b, z>> \in th[t].inputs
                   PROVE  /\ d.mem[b][z].state # "none" /\ d.att[b].state # "absent"
                          /\ ~IsStart(d, b, z) => d.att[b].turn = t
                          /\ b < a
        OBVIOUS
    <2>2. /\ d.mem[b][z].state # "none" /\ d.att[b].state # "absent"
          /\ ~IsStart(d, b, z) => d.att[b].turn = t
        BY <2>1, RanIsMember DEF Fits
    <2>3. ~(a < b)
        BY <2>2
    <2>4. b # a
        <3>1. <<b, d.att[b].primary>> \in th[t].inputs
            BY <2>1, TurnHasStart DEF Fits
        <3> QED
            BY <3>1 DEF Ran, IsStart
    <2> QED
        BY <2>2, <2>3, <2>4 DEF Attempts
<1>4. ThreadFits(d, th)
    BY DEF Fits
<1>5. ThreadFits(d, th2)
    <2>1. ASSUME NEW t \in 1..Len(th2)
          PROVE  /\ \E b \in Attempts : <<b, d.att[b].primary>> \in th2[t].inputs
                 /\ th2[t].status = "active" => t = Len(th2)
                 /\ \A b \in Attempts, z \in Sources : <<b, z>> \in th2[t].inputs =>
                      /\ d.mem[b][z].state # "none"
                      /\ ~IsStart(d, b, z) => d.att[b].turn = t
                 /\ \A b, c \in Attempts, z, y \in Sources :
                      <<b, z>> \in th2[t].inputs /\ <<c, y>> \in th2[t].inputs =>
                        b = c /\ (z = y \/ SameConversation(d, z, y))
        <3>1. CASE t = n
            BY <1>1, <3>1 DEF IsStart, Unresolved
        <3>2. CASE t # n
            <4>1. t \in 1..Len(th) /\ th2[t].inputs = th[t].inputs /\ th2[t].status # "active"
                BY <1>1, <3>2
            <4> QED
                BY <1>3, <1>4, <4>1 DEF ThreadFits
        <3> QED
            BY <3>1, <3>2
    <2>2. ASSUME NEW t \in 1..Len(th2), NEW u \in 1..Len(th2), NEW b \in Attempts, NEW c \in Attempts,
                 NEW z \in Sources, NEW y \in Sources, <<b, z>> \in th2[t].inputs, <<c, y>> \in th2[u].inputs, t < u
          PROVE  b < c
        <3>1. t \in 1..Len(th)
            BY <1>1, <2>2
        <3>2. CASE u = n
            BY <1>1, <1>3, <2>2, <3>1, <3>2
        <3>3. CASE u # n
            <4>1. u \in 1..Len(th)
                BY <1>1, <3>3
            <4> QED
                BY <1>4, <2>2, <3>1, <4>1 DEF ThreadFits
        <3> QED
            BY <3>2, <3>3
    <2>3. ASSUME NEW b \in Attempts, d.att[b].turn # NoTurn
          PROVE  d.att[b].turn \in 1..Len(th2) /\ <<b, d.att[b].primary>> \in th2[d.att[b].turn].inputs
        BY <1>1, <1>4, <2>3 DEF ThreadFits
    <2> QED
        BY <2>1, <2>2, <2>3 DEF ThreadFits
<1>6. d.src[s].state = "active" /\ \A b \in Attempts : Working(d, b, s) <=> b = a
    <2>1. LiveIn(d, a, s)
        BY DEF LiveIn, Live
    <2> QED
        BY <2>1 DEF Fits, SourcesFit, Working
<1>7. RunsFit(d, th2)
    <2>1. SUFFICES ASSUME NEW b \in Attempts, NEW z \in Sources, Ran(th2, b, z)
                   PROVE  /\ d.src[z].state = "pending" => Spoilt(d, b, z)
                          /\ \A c \in Attempts \ {b} :
                               /\ Working(d, c, z) => Spoilt(d, b, z)
                               /\ b < c /\ Ran(th2, c, z) => Spoilt(d, b, z)
        BY DEF RunsFit
    <2>2. RunsFit(d, th)
        BY DEF Fits
    <2>3. CASE b = a /\ z = s
        <3>1. \A c \in Attempts : a < c => ~Ran(th2, c, s)
            <4>1. \A c \in Attempts : a < c => ~Ran(th, c, s) /\ c # a
                BY <1>3 DEF Ran, Attempts
            <4> QED
                BY <1>2, <4>1
        <3> QED
            BY <1>6, <2>3, <3>1
    <2>4. CASE ~(b = a /\ z = s)
        <3>1. Ran(th, b, z)
            BY <1>2, <2>1, <2>4
        <3>2. /\ d.src[z].state = "pending" => Spoilt(d, b, z)
              /\ \A c \in Attempts \ {b} :
                   /\ Working(d, c, z) => Spoilt(d, b, z)
                   /\ b < c /\ Ran(th, c, z) => Spoilt(d, b, z)
            BY <2>2, <3>1 DEF RunsFit
        <3> QED
            BY <1>2, <1>6, <2>4, <3>2
    <2> QED
        BY <2>3, <2>4
<1>8. Fits(d, th2)
    BY <1>5, <1>7 DEF Fits
<1> QED
    BY <1>1, <1>2, <1>8 DEF n

LEMMA SteerAppliedKeeps ==
    ASSUME NEW d \in Databases, NEW th, NEW th2, Len(th) \in Nat, Fits(d, th),
           NEW a \in Attempts, NEW s \in Sources, ~IsStart(d, a, s), d.mem[a][s].state \in Unresolved,
           SameConversation(d, d.att[a].primary, s),
           d.att[a].turn # NoTurn, th[d.att[a].turn].status = "active",
           Len(th2) = Len(th), th2[d.att[a].turn].inputs = th[d.att[a].turn].inputs \cup {<<a, s>>},
           \A t \in 1..Len(th) : th2[t].status = th[t].status
                                 /\ (t # d.att[a].turn => th2[t].inputs = th[t].inputs)
    PROVE  /\ Fits(d, th2) /\ <<a, s>> \in th2[d.att[a].turn].inputs
           /\ \A b \in Attempts, z \in Sources : Ran(th2, b, z) <=> (Ran(th, b, z) \/ (b = a /\ z = s))
<1> DEFINE n == d.att[a].turn
           p == d.att[a].primary
<1>1. ThreadFits(d, th)
    BY DEF Fits
<1>2. n \in 1..Len(th) /\ n = Len(th) /\ <<a, p>> \in th[n].inputs
    BY <1>1 DEF ThreadFits
<1>3. /\ th2[n].inputs = th[n].inputs \cup {<<a, s>>}
      /\ \A t \in 1..Len(th) : t # n => th2[t].inputs = th[t].inputs
      /\ p \in Sources /\ p = d.att[a].primary /\ n = d.att[a].turn
    BY DEF Databases, AttemptRows
<1> HIDE DEF n, p
<1>4. \A b \in Attempts, z \in Sources : Ran(th2, b, z) <=> (Ran(th, b, z) \/ (b = a /\ z = s))
    BY <1>2, <1>3 DEF Ran
<1>5. \A t \in 1..Len(th), b \in Attempts, z \in Sources :
         <<b, z>> \in th2[t].inputs <=> (<<b, z>> \in th[t].inputs \/ (t = n /\ b = a /\ z = s))
    BY <1>3
<1>6. \A b \in Attempts, z \in Sources : <<b, z>> \in th[n].inputs => b = a /\ (z = p \/ SameConversation(d, z, p))
    BY <1>1, <1>2, <1>3 DEF ThreadFits
<1>7. \A z \in Sources : z = p \/ SameConversation(d, z, p) => SameConversation(d, z, s) /\ SameConversation(d, s, z)
    BY <1>3 DEF SameConversation, Chat
<1>8. ThreadFits(d, th2)
    <2>1. ASSUME NEW t \in 1..Len(th2)
          PROVE  /\ \E b \in Attempts : <<b, d.att[b].primary>> \in th2[t].inputs
                 /\ th2[t].status = "active" => t = Len(th2)
                 /\ \A b \in Attempts, z \in Sources : <<b, z>> \in th2[t].inputs =>
                      /\ d.mem[b][z].state # "none"
                      /\ ~IsStart(d, b, z) => d.att[b].turn = t
        <3>1. \E b \in Attempts : <<b, d.att[b].primary>> \in th2[t].inputs
            <4>1. PICK b \in Attempts : <<b, d.att[b].primary>> \in th[t].inputs
                BY <1>1 DEF ThreadFits
            <4>2. d.att[b].primary \in Sources
                BY DEF Databases, AttemptRows
            <4> QED
                BY <1>5, <4>1, <4>2
        <3>2. th2[t].status = "active" => t = Len(th2)
            BY <1>1 DEF ThreadFits
        <3>3. \A b \in Attempts, z \in Sources : <<b, z>> \in th2[t].inputs =>
                 /\ d.mem[b][z].state # "none"
                 /\ ~IsStart(d, b, z) => d.att[b].turn = t
            BY <1>1, <1>3, <1>5 DEF ThreadFits, Unresolved
        <3> QED
            BY <3>1, <3>2, <3>3
    <2>2. ASSUME NEW t \in 1..Len(th2), NEW b \in Attempts, NEW c \in Attempts, NEW z \in Sources, NEW y \in Sources,
                 <<b, z>> \in th2[t].inputs, <<c, y>> \in th2[t].inputs
          PROVE  b = c /\ (z = y \/ SameConversation(d, z, y))
        <3>1. CASE <<b, z>> \in th[t].inputs /\ <<c, y>> \in th[t].inputs
            BY <1>1, <3>1 DEF ThreadFits
        <3>2. CASE t = n
            BY <1>5, <1>6, <1>7, <2>2, <3>1, <3>2
        <3>3. CASE t # n
            BY <1>5, <2>2, <3>1, <3>3
        <3> QED
            BY <3>2, <3>3
    <2>3. ASSUME NEW t \in 1..Len(th2), NEW u \in 1..Len(th2), NEW b \in Attempts, NEW c \in Attempts,
                 NEW z \in Sources, NEW y \in Sources, <<b, z>> \in th2[t].inputs, <<c, y>> \in th2[u].inputs, t < u
          PROVE  b < c
        <3>1. t # n /\ <<b, z>> \in th[t].inputs
            BY <1>2, <1>5, <2>3
        <3>2. \E x \in Sources : <<c, x>> \in th[u].inputs
            BY <1>2, <1>3, <1>5, <2>3
        <3> QED
            BY <1>1, <2>3, <3>1, <3>2 DEF ThreadFits
    <2>4. ASSUME NEW b \in Attempts, d.att[b].turn # NoTurn
          PROVE  d.att[b].turn \in 1..Len(th2) /\ <<b, d.att[b].primary>> \in th2[d.att[b].turn].inputs
        <3>1. d.att[b].turn \in 1..Len(th) /\ <<b, d.att[b].primary>> \in th[d.att[b].turn].inputs
            BY <1>1, <2>4 DEF ThreadFits
        <3>2. d.att[b].primary \in Sources
            BY DEF Databases, AttemptRows
        <3> QED
            BY <1>5, <3>1, <3>2
    <2> QED
        BY <2>1, <2>2, <2>3, <2>4 DEF ThreadFits
<1>9. d.src[s].state = "active" /\ \A b \in Attempts : Working(d, b, s) <=> b = a
    <2>1. LiveIn(d, a, s)
        BY DEF LiveIn, Live
    <2> QED
        BY <2>1 DEF Fits, SourcesFit, Working
<1>10. \A c \in Attempts, z \in Sources : Ran(th, c, z) => ~(a < c)
    <2>1. SUFFICES ASSUME NEW c \in Attempts, NEW z \in Sources, NEW t \in 1..Len(th), <<c, z>> \in th[t].inputs
                   PROVE  ~(a < c)
        BY DEF Ran
    <2>2. CASE t = n
        BY <1>6, <2>1, <2>2 DEF Attempts
    <2>3. CASE t # n
        <3>1. t < n
            BY <1>2, <2>3
        <3>2. c < a
            BY <1>1, <1>2, <1>3, <2>1, <3>1 DEF ThreadFits
        <3> QED
            BY <3>2 DEF Attempts
    <2> QED
        BY <2>2, <2>3
<1>11. RunsFit(d, th2)
    <2>1. SUFFICES ASSUME NEW b \in Attempts, NEW z \in Sources, Ran(th2, b, z)
                   PROVE  /\ d.src[z].state = "pending" => Spoilt(d, b, z)
                          /\ \A c \in Attempts \ {b} :
                               /\ Working(d, c, z) => Spoilt(d, b, z)
                               /\ b < c /\ Ran(th2, c, z) => Spoilt(d, b, z)
        BY DEF RunsFit
    <2>2. RunsFit(d, th)
        BY DEF Fits
    <2>3. CASE b = a /\ z = s
        <3>1. \A c \in Attempts \ {a} : ~(a < c /\ Ran(th2, c, s))
            BY <1>4, <1>10
        <3> QED
            BY <1>9, <2>3, <3>1
    <2>4. CASE ~(b = a /\ z = s)
        <3>1. Ran(th, b, z)
            BY <1>4, <2>1, <2>4
        <3>2. /\ d.src[z].state = "pending" => Spoilt(d, b, z)
              /\ \A c \in Attempts \ {b} :
                   /\ Working(d, c, z) => Spoilt(d, b, z)
                   /\ b < c /\ Ran(th, c, z) => Spoilt(d, b, z)
            BY <2>2, <3>1 DEF RunsFit
        <3> QED
            BY <1>4, <1>9, <2>4, <3>2
    <2> QED
        BY <2>3, <2>4
<1>12. Fits(d, th2)
    BY <1>8, <1>11 DEF Fits
<1>13. <<a, s>> \in th2[n].inputs
    BY <1>3
<1> QED
    BY <1>3, <1>4, <1>12, <1>13

-----------------------------------------------------------------------------
(***************************************************************************)
(* What the owner of a source sees of it, and how the transactions move it. *)
(***************************************************************************)

WarnedIn(e, s) == \/ SourceWarned(e, s)
                  \/ \E a \in Attempts : AttemptWarned(e, a) /\ e.mem[a][s].observed
CarriedOn(e, s) == \E a \in Attempts : CompletedIn(e, a, s)
Explained(e, s) == \E a \in Attempts : /\ e.mem[a][s].state = "completed"
                                       /\ Chat(e, s) => [kind |-> "final", id |-> a] \in e.out

\* The stage of SourceQueue that source s of database e is in.
StageIn(e, s) ==
    CASE e.src[s].state = "absent"     -> "new"
      [] e.src[s].state = "pending"    -> "waiting"
      [] e.src[s].state = "active"     -> "running"
      [] e.src[s].state = "superseded" -> "replaced"
      [] OTHER -> IF CarriedOn(e, s) THEN "running"
                  ELSE IF WarnedIn(e, s) THEN "excused"
                  ELSE IF Explained(e, s) THEN "answered" ELSE "dropped"

\* The members of an attempt are of the conversation of its start.
MembersTalk(e) ==
    \A a \in Attempts, s \in Sources :
      e.mem[a][s].state # "none" /\ ~IsStart(e, a, s) => SameConversation(e, e.att[a].primary, s)

\* No message ends without its answer or a warning.
Told(e) == MembersTalk(e) /\ \A s \in Sources : StageIn(e, s) # "dropped"

\* Sources arrive, go back to the queue or end; none starts.
Calms(d, e) ==
    \A s \in Sources :
      /\ \/ StageIn(e, s) = StageIn(d, s)
         \/ StageIn(d, s) = "new" /\ StageIn(e, s) = "waiting"
         \/ StageIn(d, s) = "running" /\ StageIn(e, s) \in {"waiting", "answered", "excused", "replaced"}
      /\ d.src[s].state # "absent" => e.src[s].state # "absent" /\ e.src[s].conv = d.src[s].conv

\* One source starts, and none of its conversation waited longer.
Starts(d, e) ==
    \E x \in Sources :
      /\ StageIn(d, x) = "waiting" /\ StageIn(e, x) = "running"
      /\ \A z \in Pending(d) : z < x => ~SameConversation(d, x, z)
      /\ \A s \in Sources : /\ s # x => StageIn(e, s) = StageIn(d, s)
                            /\ d.src[s].state # "absent" => e.src[s].conv = d.src[s].conv

\* What a handler does to the queue.
Advances(d, e) == /\ Told(e)
                  /\ \/ Calms(d, e)
                     \/ \E m \in Databases : Told(m) /\ Calms(d, m) /\ Starts(m, e)

LEMMA CalmsReflexive == ASSUME NEW d PROVE Calms(d, d)
    BY DEF Calms

LEMMA StageValues ==
    ASSUME NEW e \in Databases, NEW s \in Sources
    PROVE  /\ StageIn(e, s) = "new" <=> e.src[s].state = "absent"
           /\ StageIn(e, s) = "waiting" <=> e.src[s].state = "pending"
           /\ StageIn(e, s) \in {"new", "waiting", "running", "answered", "excused", "replaced", "dropped"}
    BY DEF StageIn, Databases, SourceRows, SourceStates

LEMMA CalmsTransitive ==
    ASSUME NEW d, NEW e, NEW f, Calms(d, e), Calms(e, f) PROVE Calms(d, f)
<1>1. SUFFICES ASSUME NEW s \in Sources
               PROVE  /\ \/ StageIn(f, s) = StageIn(d, s)
                         \/ StageIn(d, s) = "new" /\ StageIn(f, s) = "waiting"
                         \/ StageIn(d, s) = "running" /\ StageIn(f, s) \in {"waiting", "answered", "excused", "replaced"}
                      /\ d.src[s].state # "absent" => f.src[s].state # "absent" /\ f.src[s].conv = d.src[s].conv
    BY DEF Calms
<1>2. /\ \/ StageIn(e, s) = StageIn(d, s)
         \/ StageIn(d, s) = "new" /\ StageIn(e, s) = "waiting"
         \/ StageIn(d, s) = "running" /\ StageIn(e, s) \in {"waiting", "answered", "excused", "replaced"}
      /\ d.src[s].state # "absent" => e.src[s].state # "absent" /\ e.src[s].conv = d.src[s].conv
    BY DEF Calms
<1>3. /\ \/ StageIn(f, s) = StageIn(e, s)
         \/ StageIn(e, s) = "new" /\ StageIn(f, s) = "waiting"
         \/ StageIn(e, s) = "running" /\ StageIn(f, s) \in {"waiting", "answered", "excused", "replaced"}
      /\ e.src[s].state # "absent" => f.src[s].state # "absent" /\ f.src[s].conv = e.src[s].conv
    BY DEF Calms
<1> QED
    BY <1>2, <1>3

LEMMA AdvancesAfter ==
    ASSUME NEW d, NEW e, NEW f, Calms(d, e), Advances(e, f) PROVE Advances(d, f)
<1>1. CASE Calms(e, f)
    BY <1>1, CalmsTransitive DEF Advances
<1>2. CASE \E m \in Databases : Told(m) /\ Calms(e, m) /\ Starts(m, f)
    <2>1. PICK m \in Databases : Told(m) /\ Calms(e, m) /\ Starts(m, f)
        BY <1>2
    <2>2. Calms(d, m)
        BY <2>1, CalmsTransitive
    <2> QED
        BY <2>1, <2>2 DEF Advances
<1> QED
    BY <1>1, <1>2 DEF Advances

\* A transaction that leaves the row of s and what was said of it.
Unmoved(d, e, s) ==
    /\ e.src[s].state = d.src[s].state
    /\ d.src[s].state = "completed" =>
         /\ \A a \in Attempts : /\ CompletedIn(e, a, s) <=> CompletedIn(d, a, s)
                                /\ d.mem[a][s].state = "completed" => e.mem[a][s].state = "completed"
         /\ WarnedIn(e, s) => WarnedIn(d, s)

\* A transaction that sends s to the queue, or on from its turn.
Moved(d, e, s) ==
    \/ d.src[s].state = "absent" /\ e.src[s].state = "pending"
    \/ /\ d.src[s].state = "active" \/ CarriedOn(d, s)
       /\ \/ e.src[s].state \in {"active", "pending", "superseded"}
          \/ e.src[s].state = "completed" /\ (CarriedOn(e, s) \/ WarnedIn(e, s) \/ Explained(e, s))

\* What was said to the owner stays said.
Keeps(d, e) == \A n \in d.out : n.kind \in OutcomeKinds => n \in e.out

LEMMA WarningStays ==
    ASSUME NEW d, NEW e, Later(d, e), Keeps(d, e), NEW s \in Sources, WarnedIn(d, s)
    PROVE  WarnedIn(e, s)
    BY DEF Later, WarnedIn, SourceWarned, AttemptWarned, Keeps, OutcomeKinds

LEMMA UnmovedStage ==
    ASSUME NEW d \in Databases, NEW e \in Databases, Later(d, e), Keeps(d, e),
           NEW s \in Sources, Unmoved(d, e, s), StageIn(d, s) # "dropped"
    PROVE  StageIn(e, s) = StageIn(d, s)
<1>1. CASE d.src[s].state # "completed"
    <2>1. e.src[s].state = d.src[s].state /\ d.src[s].state \in SourceStates
        BY DEF Unmoved, Databases, SourceRows
    <2> QED
        BY <1>1, <2>1 DEF StageIn, SourceStates
<1>2. CASE d.src[s].state = "completed"
    <2>1. e.src[s].state = "completed" /\ (CarriedOn(e, s) <=> CarriedOn(d, s))
        BY <1>2 DEF Unmoved, CarriedOn
    <2>2. WarnedIn(e, s) <=> WarnedIn(d, s)
        BY <1>2, WarningStays DEF Unmoved
    <2>3. Explained(d, s) => Explained(e, s)
        BY <1>2 DEF Unmoved, Explained, Chat, Later, Keeps, OutcomeKinds
    <2> HIDE DEF WarnedIn, CarriedOn, Explained
    <2> QED
        BY <1>2, <2>1, <2>2, <2>3 DEF StageIn
<1> QED
    BY <1>1, <1>2

LEMMA MovedStage ==
    ASSUME NEW d \in Databases, NEW e \in Databases, NEW s \in Sources, Moved(d, e, s),
           CarriedOn(d, s) => d.src[s].state = "completed"
    PROVE  \/ StageIn(d, s) = "new" /\ StageIn(e, s) = "waiting"
           \/ /\ StageIn(d, s) = "running"
              /\ StageIn(e, s) \in {"running", "waiting", "answered", "excused", "replaced"}
<1>1. CASE d.src[s].state = "absent" /\ e.src[s].state = "pending"
    BY <1>1 DEF StageIn
<1>2. CASE d.src[s].state = "active" \/ CarriedOn(d, s)
    <2>1. StageIn(d, s) = "running"
        BY <1>2 DEF StageIn
    <2>2. CASE e.src[s].state \in {"active", "pending", "superseded"}
        BY <2>1, <2>2 DEF StageIn
    <2>3. CASE e.src[s].state = "completed" /\ (CarriedOn(e, s) \/ WarnedIn(e, s) \/ Explained(e, s))
        BY <2>1, <2>3 DEF StageIn
    <2> QED
        BY <1>2, <2>2, <2>3, <1>1 DEF Moved, CarriedOn, StageIn
<1> QED
    BY <1>1, <1>2 DEF Moved

\* The start of an attempt that has members has arrived.
LEMMA StartHasArrived ==
    ASSUME NEW d \in Databases, NEW th, Fits(d, th), NEW a \in Attempts, NEW s \in Sources,
           d.mem[a][s].state # "none"
    PROVE  d.att[a].state # "absent" /\ d.src[d.att[a].primary].state # "absent" /\ d.src[s].state # "absent"
<1>1. d.att[a].primary \in Sources
    BY DEF Databases, AttemptRows
<1>2. MemberFits(d, a, s) /\ d.src[s].state # "absent"
    BY DEF Fits, MembersFit, SourcesFit
<1>3. CASE d.att[a].turn = NoTurn
    BY <1>2, <1>3 DEF MemberFits, IsStart
<1>4. CASE d.att[a].turn # NoTurn
    <2>1. /\ d.att[a].turn \in 1..Len(th)
          /\ <<a, d.att[a].primary>> \in th[d.att[a].turn].inputs
        BY <1>4 DEF Fits, ThreadFits
    <2>2. d.mem[a][d.att[a].primary].state # "none"
        BY <1>1, <2>1 DEF Fits, ThreadFits
    <2> QED
        BY <1>1, <1>2, <2>2 DEF MemberFits, Fits, SourcesFit
<1> QED
    BY <1>3, <1>4

LEMMA TalkKept ==
    ASSUME NEW d \in Databases, NEW e, NEW th, Fits(d, th), MembersTalk(d), Later(d, e),
           \A a \in Attempts, s \in Sources : e.mem[a][s].state # "none" =>
             d.mem[a][s].state # "none" \/ IsStart(e, a, s) \/ SameConversation(e, e.att[a].primary, s)
    PROVE  MembersTalk(e)
<1>1. SUFFICES ASSUME NEW a \in Attempts, NEW s \in Sources, d.mem[a][s].state # "none", ~IsStart(e, a, s)
               PROVE  SameConversation(e, e.att[a].primary, s)
    BY DEF MembersTalk
<1>2. d.att[a].state # "absent" /\ d.src[d.att[a].primary].state # "absent" /\ d.src[s].state # "absent"
    BY <1>1, StartHasArrived
<1>3. d.att[a].primary \in Sources
    BY DEF Databases, AttemptRows
<1>4. /\ e.att[a].primary = d.att[a].primary
      /\ e.src[s].conv = d.src[s].conv /\ e.src[d.att[a].primary].conv = d.src[d.att[a].primary].conv
    BY <1>2, <1>3 DEF Later
<1>5. SameConversation(d, d.att[a].primary, s)
    BY <1>1, <1>4 DEF MembersTalk, IsStart
<1> QED
    BY <1>4, <1>5 DEF SameConversation, Chat

\* A transaction that adds no member of another conversation and moves the
\* sources as it may is a calm one.
LEMMA CalmStep ==
    ASSUME NEW d \in Databases, NEW e \in Databases, NEW th, Fits(d, th), Told(d),
           Later(d, e), Keeps(d, e),
           \A a \in Attempts, s \in Sources : e.mem[a][s].state # "none" =>
             d.mem[a][s].state # "none" \/ IsStart(e, a, s) \/ SameConversation(e, e.att[a].primary, s),
           \A s \in Sources : Unmoved(d, e, s) \/ Moved(d, e, s)
    PROVE  Told(e) /\ Calms(d, e)
<1>1. MembersTalk(e)
    BY TalkKept DEF Told
<1>2. ASSUME NEW s \in Sources
      PROVE  \/ StageIn(e, s) = StageIn(d, s) /\ StageIn(d, s) # "dropped"
             \/ StageIn(d, s) = "new" /\ StageIn(e, s) = "waiting"
             \/ /\ StageIn(d, s) = "running"
                /\ StageIn(e, s) \in {"running", "waiting", "answered", "excused", "replaced"}
    <2>1. StageIn(d, s) # "dropped"
        BY DEF Told
    <2>2. CarriedOn(d, s) => d.src[s].state = "completed"
        BY DEF CarriedOn, Fits, SourcesFit
    <2>3. CASE Unmoved(d, e, s)
        BY <2>1, <2>3, UnmovedStage
    <2>4. CASE Moved(d, e, s)
        BY <2>2, <2>4, MovedStage
    <2> QED
        BY <2>3, <2>4
<1>3. \A s \in Sources : StageIn(e, s) # "dropped"
    BY <1>2
<1>4. \A s \in Sources : d.src[s].state # "absent" => e.src[s].state # "absent" /\ e.src[s].conv = d.src[s].conv
    BY DEF Later
<1> QED
    BY <1>1, <1>2, <1>3, <1>4 DEF Told, Calms

\* A transaction that reserves the oldest source of its conversation starts it.
LEMMA StartStep ==
    ASSUME NEW d \in Databases, NEW e \in Databases, NEW th, Fits(d, th), Told(d),
           Later(d, e), Keeps(d, e),
           \A a \in Attempts, s \in Sources : e.mem[a][s].state # "none" =>
             d.mem[a][s].state # "none" \/ IsStart(e, a, s) \/ SameConversation(e, e.att[a].primary, s),
           NEW x \in Sources, d.src[x].state = "pending", e.src[x].state = "active",
           \A s \in Sources \ {x} : Unmoved(d, e, s),
           \A z \in Pending(d) : z < x => ~SameConversation(d, x, z)
    PROVE  Told(e) /\ Starts(d, e) /\ Advances(d, e)
<1>1. MembersTalk(e)
    BY TalkKept DEF Told
<1>2. StageIn(d, x) = "waiting" /\ StageIn(e, x) = "running"
    BY DEF StageIn
<1>3. \A s \in Sources \ {x} : StageIn(e, s) = StageIn(d, s) /\ StageIn(d, s) # "dropped"
    BY UnmovedStage DEF Told
<1>4. Told(e)
    BY <1>1, <1>2, <1>3 DEF Told
<1>5. \A s \in Sources : d.src[s].state # "absent" => e.src[s].conv = d.src[s].conv
    BY DEF Later
<1>6. Starts(d, e)
    BY <1>2, <1>3, <1>5 DEF Starts
<1> QED
    BY <1>4, <1>6, CalmsReflexive DEF Advances

-----------------------------------------------------------------------------
(* Every transaction of the store is calm, or starts one source *)

LEMMA AlikeMoves ==
    ASSUME NEW d \in Databases, NEW e \in Databases, NEW th, Len(th) \in Nat, Fits(d, th), Told(d), Alike(d, e)
    PROVE  Told(e) /\ Calms(d, e)
<1>1. Later(d, e)
    BY AlikeKeeps
<1>2. /\ "none" \notin Unresolved /\ "completed" \notin Unresolved
    BY DEF Unresolved
<1>3. Keeps(d, e) /\ \A n : n.kind \in OutcomeKinds => (n \in e.out <=> n \in d.out)
    BY DEF Alike, Keeps
<1>4. \A a \in Attempts, s \in Sources :
        /\ e.mem[a][s].observed = d.mem[a][s].observed
        /\ e.mem[a][s].state = "completed" <=> d.mem[a][s].state = "completed"
        /\ e.mem[a][s].state # "none" => d.mem[a][s].state # "none"
        /\ CompletedIn(e, a, s) <=> CompletedIn(d, a, s)
    BY <1>2 DEF Alike, CompletedIn, IsActive
<1>5. /\ \A s \in Sources : SourceWarned(e, s) => SourceWarned(d, s)
      /\ \A a \in Attempts : AttemptWarned(e, a) => AttemptWarned(d, a)
    BY <1>3 DEF SourceWarned, AttemptWarned, OutcomeKinds
<1>6. ASSUME NEW s \in Sources PROVE Unmoved(d, e, s)
    <2>1. WarnedIn(e, s) => WarnedIn(d, s)
        BY <1>4, <1>5 DEF WarnedIn
    <2>2. e.src[s].state = d.src[s].state
        BY DEF Alike
    <2> QED
        BY <1>4, <2>1, <2>2 DEF Unmoved
<1> QED
    BY <1>1, <1>3, <1>4, <1>6, CalmStep

LEMMA InsertSourceMoves ==
    ASSUME NEW d \in Databases, NEW th, Len(th) \in Nat, Fits(d, th), Told(d),
           NEW s \in Sources, d.src[s].state = "absent", NEW c \in Conversations \cup {Internal}
    PROVE  LET e == InsertSource(d, s, c) IN Told(e) /\ Calms(d, e)
<1> DEFINE e == InsertSource(d, s, c)
<1>1. e \in Databases /\ Later(d, e)
    BY InsertSourceEvolves, InsertSourceKeeps DEF Evolves
<1>2. /\ e.att = d.att /\ e.mem = d.mem /\ e.out = d.out /\ e.src[s].state = "pending"
      /\ \A z \in Sources \ {s} : e.src[z] = d.src[z]
    BY DEF InsertSource, Databases
<1> HIDE DEF e
<1>3. Keeps(d, e)
    BY <1>2 DEF Keeps
<1>4. Moved(d, e, s)
    BY <1>2 DEF Moved
<1>5. \A z \in Sources \ {s} : Unmoved(d, e, z)
    BY <1>2 DEF Unmoved, WarnedIn, SourceWarned, AttemptWarned, CompletedIn, IsActive
<1>6. \A z \in Sources : Unmoved(d, e, z) \/ Moved(d, e, z)
    BY <1>4, <1>5
<1>7. Told(e) /\ Calms(d, e)
    BY <1>1, <1>2, <1>3, <1>6, CalmStep
<1> QED
    BY <1>7 DEF e

LEMMA LaunchMoves ==
    ASSUME NEW d \in Databases, NEW th, Len(th) \in Nat, Fits(d, th), Told(d),
           NEW a \in Attempts, d.att[a].state = "absent", d.att[a].turn = NoTurn,
           \A c \in Attempts : c < a => d.att[c].state # "absent",
           NEW s \in Sources, d.src[s].state = "pending",
           \A z \in Pending(d) : z < s => ~SameConversation(d, s, z)
    PROVE  Advances(d, Launch(d, a, s))
<1> DEFINE e == Launch(d, a, s)
<1>1. e \in Databases /\ Later(d, e)
    BY LaunchEvolves, LaunchKeeps DEF Evolves
<1>2. /\ e.src[s].state = "active"
      /\ \A z \in Sources \ {s} : e.src[z] = d.src[z]
      /\ e.att[a].primary = s
      /\ \A b \in Attempts \ {a} : e.att[b] = d.att[b]
      /\ \A z \in Sources \ {s} : e.mem[a][z] = d.mem[a][z]
      /\ \A b \in Attempts \ {a} : e.mem[b] = d.mem[b]
      /\ \A n : n.kind \in OutcomeKinds => (n \in e.out <=> n \in d.out)
    BY DEF Launch, Reserve, CreateAttempt, QueueNotices, Databases, NoMember, SourceRows, OutcomeKinds
<1> HIDE DEF e
<1>3. Keeps(d, e)
    BY <1>2 DEF Keeps
<1>4. \A z \in Sources : d.mem[a][z].state = "none" /\ ~d.mem[a][z].observed
    BY DEF Fits, MembersFit, MemberFits
<1>5. /\ \A z \in Sources : SourceWarned(e, z) => SourceWarned(d, z)
      /\ \A b \in Attempts : AttemptWarned(e, b) => AttemptWarned(d, b)
    BY <1>2 DEF SourceWarned, AttemptWarned, OutcomeKinds
<1>6. ASSUME NEW z \in Sources \ {s} PROVE Unmoved(d, e, z)
    <2>1. \A b \in Attempts : /\ e.mem[b][z] = d.mem[b][z]
                              /\ CompletedIn(e, b, z) <=> CompletedIn(d, b, z)
        BY <1>2, <1>4 DEF CompletedIn, IsActive
    <2>2. WarnedIn(e, z) => WarnedIn(d, z)
        BY <1>5, <2>1 DEF WarnedIn
    <2> QED
        BY <1>2, <2>1, <2>2 DEF Unmoved
<1>7. \A b \in Attempts, z \in Sources : e.mem[b][z].state # "none" =>
        d.mem[b][z].state # "none" \/ IsStart(e, b, z) \/ SameConversation(e, e.att[b].primary, z)
    BY <1>2 DEF IsStart
<1>8. Advances(d, e)
    BY <1>1, <1>2, <1>3, <1>6, <1>7, StartStep
<1> QED
    BY <1>8 DEF e

LEMMA SteerMoves ==
    ASSUME NEW d \in Databases, NEW th, Len(th) \in Nat, Fits(d, th), Told(d),
           NEW a \in Attempts, NEW s \in Sources,
           IsActive(d, a), d.att[a].accepting, d.att[a].turn # NoTurn,
           d.mem[a][s].state = "none", d.src[s].state = "pending",
           SameConversation(d, d.att[a].primary, s),
           \A z \in Pending(d) : z < s => ~SameConversation(d, s, z)
    PROVE  Advances(d, Reserve(d, a, s, "steer_submitting"))
<1> DEFINE e == Reserve(d, a, s, "steer_submitting")
<1>1. e \in Databases /\ Later(d, e)
    BY ReserveEvolves, SteerKeeps DEF Evolves
<1>2. /\ e.src[s].state = "active" /\ e.src[s].conv = d.src[s].conv
      /\ \A z \in Sources \ {s} : e.src[z] = d.src[z]
      /\ e.att = d.att /\ e.out = d.out
      /\ \A z \in Sources \ {s} : e.mem[a][z] = d.mem[a][z]
      /\ \A b \in Attempts \ {a} : e.mem[b] = d.mem[b]
    BY DEF Reserve, Databases, NoMember, SourceRows
<1> HIDE DEF e
<1>3. Keeps(d, e)
    BY <1>2 DEF Keeps
<1>4. ASSUME NEW z \in Sources \ {s} PROVE Unmoved(d, e, z)
    <2>1. \A b \in Attempts : /\ e.mem[b][z] = d.mem[b][z]
                              /\ CompletedIn(e, b, z) <=> CompletedIn(d, b, z)
        BY <1>2 DEF CompletedIn, IsActive
    <2>2. WarnedIn(e, z) => WarnedIn(d, z)
        BY <1>2, <2>1 DEF WarnedIn, SourceWarned, AttemptWarned
    <2> QED
        BY <1>2, <2>1, <2>2 DEF Unmoved
<1>5. SameConversation(e, e.att[a].primary, s)
    <2>1. d.att[a].primary \in Sources
        BY DEF Databases, AttemptRows
    <2>2. \A z \in Sources : e.src[z].conv = d.src[z].conv
        BY <1>2
    <2> QED
        BY <1>2, <2>1, <2>2 DEF SameConversation, Chat
<1>6. \A b \in Attempts, z \in Sources : e.mem[b][z].state # "none" =>
        d.mem[b][z].state # "none" \/ IsStart(e, b, z) \/ SameConversation(e, e.att[b].primary, z)
    BY <1>2, <1>5
<1>7. Advances(d, e)
    BY <1>1, <1>2, <1>3, <1>4, <1>6, StartStep
<1> QED
    BY <1>7 DEF e

LEMMA OpenIsActive ==
    ASSUME NEW d, NEW th, Fits(d, th), NEW a \in Attempts, NEW s \in Sources, d.mem[a][s].state \in Unresolved
    PROVE  /\ d.src[s].state = "active" /\ d.mem[a][s].state # "none" /\ d.mem[a][s].state # "completed"
           /\ \A b \in Attempts : ~CompletedIn(d, b, s)
    BY DEF Fits, SourcesFit, LiveIn, Live, Unresolved

LEMMA BindMoves ==
    ASSUME NEW d \in Databases, NEW th, Len(th) \in Nat, Fits(d, th), Told(d),
           NEW a \in Attempts, NEW s \in Sources, IsStart(d, a, s), d.mem[a][s].state \in Unresolved,
           NEW t \in 1..Len(th), <<a, s>> \in th[t].inputs, Bind(d, a, s, t) \in Databases
    PROVE  Told(Bind(d, a, s, t)) /\ Calms(d, Bind(d, a, s, t))
<1> DEFINE e == Bind(d, a, s, t)
<1>1. e \in Databases /\ Later(d, e)
    BY BindKeeps
<1>2. /\ e.src = d.src /\ e.out = d.out
      /\ \A b \in Attempts : e.att[b].state = d.att[b].state
      /\ \A b \in Attempts, z \in Sources : ~(b = a /\ z = s) => e.mem[b][z] = d.mem[b][z]
    BY DEF Bind, Databases, AttemptRows
<1> HIDE DEF e
<1>3. d.src[s].state = "active" /\ d.mem[a][s].state # "none"
    BY OpenIsActive
<1>4. Keeps(d, e)
    BY <1>2 DEF Keeps
<1>5. ASSUME NEW z \in Sources PROVE Unmoved(d, e, z)
    <2>1. CASE z = s
        BY <1>2, <1>3, <2>1 DEF Unmoved
    <2>2. CASE z # s
        BY <1>2, <2>2 DEF Unmoved, CompletedIn, IsActive, WarnedIn, SourceWarned, AttemptWarned
    <2> QED
        BY <2>1, <2>2
<1>6. \A b \in Attempts, z \in Sources : e.mem[b][z].state # "none" => d.mem[b][z].state # "none"
    BY <1>2, <1>3
<1>7. Told(e) /\ Calms(d, e)
    BY <1>1, <1>4, <1>5, <1>6, CalmStep
<1> QED
    BY <1>7 DEF e

LEMMA ConfirmStartMoves ==
    ASSUME NEW d \in Databases, NEW th, Len(th) \in Nat, Len(th) <= MaxAttempts, Fits(d, th), Told(d),
           NEW a \in Attempts, NEW s \in Sources,
           NEW t \in 1..Len(th), <<a, s>> \in th[t].inputs, NEW terminal \in BOOLEAN
    PROVE  LET e == ConfirmStart(d, a, s, t, terminal) IN Told(e) /\ Calms(d, e)
<1> DEFINE e == ConfirmStart(d, a, s, t, terminal)
           b == Bind(d, a, s, t)
           c == StartConfirmation(d, a, s, t, terminal)
<1>1. CASE c = "bound"
    <2>1. IsStart(d, a, s) /\ d.mem[a][s].state \in Unresolved
        BY <1>1 DEF StartConfirmation
    <2>2. b \in Databases
        <3>1. t \in Turns
            BY BoundsAssumption DEF Turns, Attempts
        <3>2. [d.mem EXCEPT ![a][s].state = "submitted"] \in MemberTables
            BY MemberTableType, MemberStateUpdate DEF MemberStates, Live
        <3>3. [[d.mem EXCEPT ![a][s].state = "submitted"] EXCEPT ![a][s].observed = TRUE] \in MemberTables
            BY <3>2, MemberObservedUpdate
        <3>4. [d.att EXCEPT ![a].turn = t] \in [Attempts -> AttemptRows]
            BY <3>1 DEF Databases, AttemptRows
        <3> QED
            BY <3>3, <3>4 DEF Bind, Databases, MemberTables
    <2>3. Told(b) /\ Calms(d, b) /\ Fits(b, th)
        BY <2>1, <2>2, BindMoves, BindKeeps
    <2>4. e = IF terminal THEN Terminalize(b, a) ELSE b
        BY <1>1 DEF ConfirmStart, Bind
    <2> HIDE DEF b, e
    <2>5. CASE terminal
        <3>1. Terminalize(b, a) \in Databases /\ Alike(b, Terminalize(b, a))
            BY <2>2, TerminalizeEvolves, TerminalizeAlike DEF Evolves
        <3>2. Told(e) /\ Calms(b, e)
            BY <2>2, <2>3, <2>4, <2>5, <3>1, AlikeMoves
        <3> QED
            BY <2>3, <3>2, CalmsTransitive DEF e
    <2>6. CASE ~terminal
        BY <2>3, <2>4, <2>6 DEF e
    <2> QED
        BY <2>5, <2>6
<1>2. CASE c # "bound"
    <2>1. e = d \/ e = Terminalize(d, a)
        BY <1>2 DEF ConfirmStart
    <2>2. Terminalize(d, a) \in Databases /\ Alike(d, Terminalize(d, a)) /\ Alike(d, d)
        BY TerminalizeEvolves, TerminalizeAlike, AlikeReflexive DEF Evolves
    <2> HIDE DEF e, c
    <2>3. Told(e) /\ Calms(d, e)
        BY <2>1, <2>2, AlikeMoves
    <2> QED
        BY <2>3 DEF e
<1> QED
    BY <1>1, <1>2

LEMMA ConfirmSteerMoves ==
    ASSUME NEW d \in Databases, NEW th, Len(th) \in Nat, Fits(d, th), Told(d),
           NEW a \in Attempts, NEW s \in Sources, NEW t
    PROVE  LET e == ConfirmSteer(d, a, s, t) IN Told(e) /\ Calms(d, e)
<1> DEFINE e == ConfirmSteer(d, a, s, t)
<1>1. e \in Databases /\ Later(d, e)
    BY ConfirmSteerEvolves, ConfirmSteerKeeps DEF Evolves
<1>2. CASE SteerConfirmation(d, a, s, t) = "conflict" \/ d.mem[a][s].state = "submitted"
    <2>1. e = d
        BY <1>2 DEF ConfirmSteer
    <2> QED
        BY <2>1, CalmsReflexive
<1>3. CASE ~(SteerConfirmation(d, a, s, t) = "conflict" \/ d.mem[a][s].state = "submitted")
    <2>1. IsActive(d, a) /\ d.mem[a][s].state \in Unresolved
        BY <1>3 DEF SteerConfirmation, IsActive, Live
    <2>2. /\ e.att = d.att /\ e.out = d.out
          /\ \A b \in Attempts, z \in Sources : ~(b = a /\ z = s) => e.mem[b][z] = d.mem[b][z]
          /\ \A z \in Sources \ {s} : e.src[z] = d.src[z]
          /\ \/ e.src[s] = d.src[s]
             \/ e.mem[a][s].state = "completed" /\ e.src[s].state = "completed"
        <3>1. CASE d.att[a].accepting
            <4>1. e = [d EXCEPT !.mem[a][s].state = "submitted", !.mem[a][s].observed = TRUE]
                BY <1>3, <3>1 DEF ConfirmSteer
            <4> QED
                BY <4>1 DEF Databases
        <3>2. CASE ~d.att[a].accepting
            <4>1. e = [d EXCEPT !.mem[a][s].state = "completed", !.mem[a][s].observed = TRUE,
                                !.src[s].state = "completed", !.src[s].released = TRUE]
                BY <1>3, <3>2 DEF ConfirmSteer
            <4> QED
                BY <4>1 DEF Databases, MemberRows, SourceRows
        <3> QED
            BY <3>1, <3>2
    <2> HIDE DEF e
    <2>3. d.src[s].state = "active" /\ d.mem[a][s].state # "none"
        BY <2>1, OpenIsActive
    <2>4. Keeps(d, e)
        BY <2>2 DEF Keeps
    <2>5. Unmoved(d, e, s) \/ Moved(d, e, s)
        <3>1. CASE e.src[s] = d.src[s]
            BY <2>3, <3>1 DEF Unmoved
        <3>2. CASE e.mem[a][s].state = "completed" /\ e.src[s].state = "completed"
            BY <2>1, <2>2, <2>3, <3>2 DEF Moved, CarriedOn, CompletedIn, IsActive
        <3> QED
            BY <2>2, <3>1, <3>2
    <2>6. \A z \in Sources \ {s} : Unmoved(d, e, z)
        BY <2>2 DEF Unmoved, CompletedIn, IsActive, WarnedIn, SourceWarned, AttemptWarned
    <2>7. \A b \in Attempts, z \in Sources : e.mem[b][z].state # "none" => d.mem[b][z].state # "none"
        BY <2>2, <2>3
    <2>8. \A z \in Sources : Unmoved(d, e, z) \/ Moved(d, e, z)
        BY <2>5, <2>6
    <2>9. Told(e) /\ Calms(d, e)
        BY <1>1, <2>4, <2>7, <2>8, CalmStep
    <2> QED
        BY <2>9 DEF e
<1> QED
    BY <1>2, <1>3

LEMMA WithdrawMoves ==
    ASSUME NEW d \in Databases, NEW e \in Databases, NEW th, Len(th) \in Nat, Fits(d, th), Told(d),
           NEW a \in Attempts, NEW s \in Sources,
           d.mem[a][s].state \in Unresolved, Withdraws(d, e, a, s), Later(d, e)
    PROVE  Told(e) /\ Calms(d, e)
<1>1. /\ e.src[s].state \in {"completed", "pending"}
      /\ \A z \in Sources \ {s} : e.src[z].state = d.src[z].state
      /\ \A b \in Attempts \ {a} : e.att[b] = d.att[b] /\ e.mem[b] = d.mem[b]
      /\ IF IsStart(d, a, s) THEN e.att[a].state = "failed" ELSE e.att[a] = d.att[a]
      /\ e.mem[a][s].state = "failed"
      /\ \A z \in Sources \ {s} : e.mem[a][z] = d.mem[a][z]
      /\ d.out \subseteq e.out
      /\ e.src[s].state = "completed" => [kind |-> "needs_attention", id |-> s] \in e.out
    BY DEF Withdraws
<1>2. \A n \in e.out : n.kind \in OutcomeKinds =>
         n \in d.out \/ (n = [kind |-> "needs_attention", id |-> s])
    BY DEF Withdraws
<1>3. Keeps(d, e)
    BY <1>1 DEF Keeps
<1>4. d.src[s].state = "active" /\ d.mem[a][s].state # "none"
    BY OpenIsActive
<1>5. Moved(d, e, s)
    <2>1. e.src[s].state = "completed" => WarnedIn(e, s)
        BY <1>1 DEF WarnedIn, SourceWarned
    <2> QED
        BY <1>1, <1>4, <2>1 DEF Moved
<1>6. IsStart(d, a, s) => \A z \in Sources \ {s} : d.mem[a][z].state = "none"
    BY DEF Fits, MembersFit, MemberFits, IsStart
<1>7. ASSUME NEW z \in Sources \ {s} PROVE Unmoved(d, e, z)
    <2>1. \A b \in Attempts : /\ e.mem[b][z] = d.mem[b][z]
                              /\ CompletedIn(e, b, z) <=> CompletedIn(d, b, z)
        BY <1>1, <1>6 DEF CompletedIn, IsActive
    <2>2. SourceWarned(e, z) => SourceWarned(d, z)
        BY <1>2 DEF SourceWarned, OutcomeKinds
    <2>3. \A b \in Attempts : AttemptWarned(e, b) => AttemptWarned(d, b)
        BY <1>2 DEF AttemptWarned, OutcomeKinds
    <2>4. WarnedIn(e, z) => WarnedIn(d, z)
        BY <2>1, <2>2, <2>3 DEF WarnedIn
    <2> QED
        BY <1>1, <2>1, <2>4 DEF Unmoved
<1>8. \A b \in Attempts, z \in Sources : e.mem[b][z].state # "none" => d.mem[b][z].state # "none"
    BY <1>1, <1>4
<1>9. \A z \in Sources : Unmoved(d, e, z) \/ Moved(d, e, z)
    BY <1>5, <1>7
<1> QED
    BY <1>3, <1>8, <1>9, CalmStep

LEMMA BeginReconciliationMoves ==
    ASSUME NEW d \in Databases, NEW th, Len(th) \in Nat, Fits(d, th), Told(d),
           NEW a \in Attempts, NEW s \in Sources, d.mem[a][s].state \in Unresolved,
           NEW decision \in ReconcileDecisions(d, a, s)
    PROVE  LET e == BeginReconciliation(d, a, s, decision) IN Told(e) /\ Calms(d, e)
<1> DEFINE e == BeginReconciliation(d, a, s, decision)
           m == MarkNeedsAttention(d, a, s)
<1>1. e \in Databases
    BY BeginReconciliationEvolves DEF Evolves
<1>2. CASE decision = "needs_attention"
    <2>1. e = m
        BY <1>2 DEF BeginReconciliation
    <2>2. Withdraws(d, m, a, s) /\ Later(d, m)
        BY MarkNeedsAttentionKeeps
    <2> HIDE DEF e, m
    <2>3. Told(e) /\ Calms(d, e)
        BY <1>1, <2>1, <2>2, WithdrawMoves
    <2> QED
        BY <2>3 DEF e
<1>3. CASE decision # "needs_attention"
    <2>1. Alike(d, e)
        BY <1>3, TryAlike, AlikeReflexive DEF BeginReconciliation
    <2> HIDE DEF e
    <2>2. Told(e) /\ Calms(d, e)
        BY <1>1, <2>1, AlikeMoves
    <2> QED
        BY <2>2 DEF e
<1> QED
    BY <1>2, <1>3

LEMMA SteerBackMoves ==
    ASSUME NEW d \in Databases, NEW th, Len(th) \in Nat, Fits(d, th), Told(d),
           NEW a \in Attempts, NEW s \in Sources, d.mem[a][s].state \in Unresolved,
           ~IsStart(d, a, s), ~Ran(th, a, s)
    PROVE  LET e == RestorePending(d, a, s) IN Told(e) /\ Calms(d, e)
<1> DEFINE e == RestorePending(d, a, s)
<1>1. e \in Databases /\ Withdraws(d, e, a, s) /\ Later(d, e)
    BY RestorePendingEvolves, SteerBackKeeps DEF Evolves
<1> HIDE DEF e
<1>2. Told(e) /\ Calms(d, e)
    BY <1>1, WithdrawMoves
<1> QED
    BY <1>2 DEF e

LEMMA StartBackMoves ==
    ASSUME NEW d \in Databases, NEW th, Len(th) \in Nat, Fits(d, th), Told(d),
           NEW a \in Attempts, NEW s \in Sources, d.mem[a][s].state \in Unresolved,
           IsStart(d, a, s), ~Ran(th, a, s)
    PROVE  LET e == FailUnstartedAttempt(RestorePending(d, a, s), a) IN Told(e) /\ Calms(d, e)
<1> DEFINE r == RestorePending(d, a, s)
           e == FailUnstartedAttempt(r, a)
<1>1. r \in Databases
    BY RestorePendingEvolves DEF Evolves
<1>2. e \in Databases
    BY <1>1, FailUnstartedAttemptEvolves DEF Evolves
<1>3. Withdraws(d, e, a, s) /\ Later(d, e)
    BY StartBackKeeps
<1> HIDE DEF e
<1>4. Told(e) /\ Calms(d, e)
    BY <1>2, <1>3, WithdrawMoves
<1> QED
    BY <1>4 DEF e

LEMMA FailOrphanedMoves ==
    ASSUME NEW d \in Databases, NEW th, Len(th) \in Nat, Fits(d, th), Told(d)
    PROVE  LET e == FailOrphanedUnstartedAttempts(d) IN Told(e) /\ Calms(d, e)
<1> DEFINE e == FailOrphanedUnstartedAttempts(d)
<1>1. e \in Databases /\ Later(d, e)
    BY FailOrphanedUnstartedAttemptsEvolves, FailOrphanedKeeps DEF Evolves
<1>2. /\ e.src = d.src /\ e.mem = d.mem /\ e.out = d.out
      /\ \A b \in Attempts : \/ e.att[b] = d.att[b]
                             \/ Members(d, b, MemberStates \ {"none"}) = {}
    BY DEF FailOrphanedUnstartedAttempts, Databases
<1> HIDE DEF e
<1>3. \A b \in Attempts, z \in Sources : e.att[b] # d.att[b] => d.mem[b][z].state = "none"
    <2>1. \A b \in Attempts, z \in Sources : d.mem[b][z].state \in MemberStates
        BY DEF Databases, MemberRows
    <2> QED
        BY <1>2, <2>1 DEF Members
<1>4. Keeps(d, e)
    BY <1>2 DEF Keeps
<1>5. \A b \in Attempts, z \in Sources : CompletedIn(e, b, z) <=> CompletedIn(d, b, z)
    BY <1>2, <1>3 DEF CompletedIn, IsActive
<1>6. \A z \in Sources : Unmoved(d, e, z)
    BY <1>2, <1>5 DEF Unmoved, WarnedIn, SourceWarned, AttemptWarned
<1>7. Told(e) /\ Calms(d, e)
    BY <1>1, <1>2, <1>4, <1>6, CalmStep
<1> QED
    BY <1>7 DEF e

LEMMA CloseMoves ==
    ASSUME NEW d \in Databases, NEW e \in Databases, NEW th, Len(th) \in Nat, Fits(d, th), Told(d),
           NEW a \in Attempts, IsActive(d, a), d.att[a].turn # NoTurn, Closes(d, e, a)
    PROVE  Told(e) /\ Calms(d, e)
<1>1. /\ e.att[a].state \in {"completed", "failed"} /\ e.att[a].primary = d.att[a].primary
      /\ \A b \in Attempts \ {a} : e.att[b] = d.att[b] /\ e.mem[b] = d.mem[b]
      /\ d.out \subseteq e.out
    BY DEF Closes
<1>2. \A s \in Sources :
         /\ e.src[s].conv = d.src[s].conv
         /\ e.mem[a][s].observed = d.mem[a][s].observed
         /\ IF d.mem[a][s].state = "submitted"
            THEN e.mem[a][s].state \in {"completed", "failed", "superseded"}
            ELSE e.mem[a][s].state = d.mem[a][s].state
         /\ IF CarriedIn(d, a, s)
            THEN e.src[s].state \in {"completed", "superseded", "pending"}
            ELSE e.src[s].state = d.src[s].state
    BY DEF Closes
<1>3. Later(d, e)
    BY CloseKeeps
<1>4. Keeps(d, e)
    BY <1>1 DEF Keeps
<1>5. \A s \in Sources : d.mem[a][s].observed <=> CarriedIn(d, a, s)
    BY DEF Fits, MembersFit, MemberFits, CarriedIn
<1>6. \A b \in Attempts, s \in Sources : e.mem[b][s].state # "none" => d.mem[b][s].state # "none"
    BY <1>1, <1>2
<1>7. ASSUME NEW s \in Sources, ~CarriedIn(d, a, s) PROVE Unmoved(d, e, s)
    <2>1. \A b \in Attempts : /\ CompletedIn(e, b, s) <=> CompletedIn(d, b, s)
                              /\ d.mem[b][s].state = "completed" => e.mem[b][s].state = "completed"
                              /\ e.mem[b][s].observed = d.mem[b][s].observed
        BY <1>1, <1>2, <1>7 DEF CompletedIn, IsActive, CarriedIn
    <2>2. SourceWarned(e, s) => SourceWarned(d, s)
        <3>1. SUFFICES ASSUME NEW n \in e.out, n.kind \in {"needs_attention", "exhausted"}, n.id = s
                       PROVE  SourceWarned(d, s)
            BY DEF SourceWarned
        <3>2. n \in d.out \/ \E z \in Sources : n.id = z /\ CarriedIn(d, a, z)
            BY <3>1 DEF Closes
        <3>3. n \in d.out
            BY <1>7, <3>1, <3>2
        <3> QED
            BY <3>1, <3>3 DEF SourceWarned
    <2>3. \A b \in Attempts : AttemptWarned(e, b) => AttemptWarned(d, b) \/ b = a
        BY DEF Closes
    <2>4. ~d.mem[a][s].observed
        BY <1>5, <1>7
    <2>5. WarnedIn(e, s) => WarnedIn(d, s)
        BY <2>1, <2>2, <2>3, <2>4 DEF WarnedIn
    <2> QED
        BY <1>2, <1>7, <2>1, <2>5 DEF Unmoved
<1>8. ASSUME NEW s \in Sources, CarriedIn(d, a, s) PROVE Moved(d, e, s)
    <2>1. d.src[s].state = "active" \/ CarriedOn(d, s)
        <3>1. CASE d.mem[a][s].state = "submitted"
            BY <3>1 DEF Fits, SourcesFit, LiveIn, Live
        <3>2. CASE d.mem[a][s].state = "completed"
            BY <3>2 DEF CarriedOn, CompletedIn
        <3> QED
            BY <1>8, <3>1, <3>2 DEF CarriedIn
    <2>2. CASE e.src[s].state = "completed"
        <3> SUFFICES WarnedIn(e, s) \/ Explained(e, s)
            BY <2>1, <2>2 DEF Moved
        <3>1. Tells(d, e, a, s)
            BY DEF Closes
        <3>2. \/ SourceWarned(e, s) \/ AttemptWarned(e, a)
              \/ /\ e.mem[a][s].state = "completed"
                 /\ Chat(d, d.att[a].primary) => [kind |-> "final", id |-> a] \in e.out
            BY <1>8, <2>2, <3>1 DEF Tells
        <3>3. CASE SourceWarned(e, s)
            BY <3>3 DEF WarnedIn
        <3>4. CASE AttemptWarned(e, a)
            BY <1>2, <1>5, <1>8, <3>4 DEF WarnedIn
        <3>5. CASE /\ e.mem[a][s].state = "completed"
                   /\ Chat(d, d.att[a].primary) => [kind |-> "final", id |-> a] \in e.out
            <4>1. Chat(e, s) => Chat(d, d.att[a].primary)
                <5>1. Chat(e, s) <=> Chat(d, s)
                    BY <1>2 DEF Chat
                <5>2. d.mem[a][s].state # "none"
                    BY <1>8 DEF CarriedIn
                <5>3. IsStart(d, a, s) \/ SameConversation(d, d.att[a].primary, s)
                    BY <5>2 DEF Told, MembersTalk
                <5> QED
                    BY <5>1, <5>3 DEF IsStart, SameConversation
            <4> QED
                BY <3>5, <4>1 DEF Explained
        <3> QED
            BY <3>2, <3>3, <3>4, <3>5
    <2> QED
        BY <1>2, <1>8, <2>1, <2>2 DEF Moved
<1>9. \A s \in Sources : Unmoved(d, e, s) \/ Moved(d, e, s)
    BY <1>7, <1>8
<1> QED
    BY <1>3, <1>4, <1>6, <1>9, CalmStep

LEMMA BeginTerminalReconciliationMoves ==
    ASSUME NEW d \in Databases, NEW th, Len(th) \in Nat, Fits(d, th), Told(d),
           NEW a \in Attempts, IsActive(d, a), d.att[a].turn # NoTurn,
           NEW decision \in TerminalDecisions(d, a)
    PROVE  LET e == BeginTerminalReconciliation(d, a, decision) IN Told(e) /\ Calms(d, e)
<1> DEFINE e == BeginTerminalReconciliation(d, a, decision)
           m == MarkTerminalNeedsAttention(d, a)
<1>1. e \in Databases
    BY BeginTerminalReconciliationEvolves DEF Evolves
<1>2. CASE decision = "needs_attention"
    <2>1. e = m
        BY <1>2 DEF BeginTerminalReconciliation
    <2>2. Closes(d, m, a)
        BY MarkTerminalNeedsAttentionKeeps
    <2> HIDE DEF e, m
    <2>3. Told(e) /\ Calms(d, e)
        BY <1>1, <2>1, <2>2, CloseMoves
    <2> QED
        BY <2>3 DEF e
<1>3. CASE decision # "needs_attention"
    <2>1. PICK s \in Sources : TRUE
        BY BoundsAssumption DEF Sources
    <2>2. Alike(d, e)
        BY <1>3, <2>1, TryAlike, AlikeReflexive DEF BeginTerminalReconciliation
    <2> HIDE DEF e
    <2>3. Told(e) /\ Calms(d, e)
        BY <1>1, <2>2, AlikeMoves
    <2> QED
        BY <2>3 DEF e
<1> QED
    BY <1>2, <1>3

\* Whichever way handleTerminal closes an attempt, its sources end or go back.
LEMMA FinishMoves ==
    ASSUME NEW d \in Databases, NEW th, Len(th) \in Nat, Fits(d, th), Told(d),
           NEW a \in Attempts, IsActive(d, a), d.att[a].turn # NoTurn, ~HasUnresolved(d, a)
    PROVE  /\ Told(CompleteAttempt(d, a)) /\ Calms(d, CompleteAttempt(d, a))
           /\ Told(RetryAttempt(d, a)) /\ Calms(d, RetryAttempt(d, a))
           /\ \A r \in Sources : d.src[r].state = "absent" =>
                Told(SupersedeAttempt(d, a, r)) /\ Calms(d, SupersedeAttempt(d, a, r))
<1>1. Told(CompleteAttempt(d, a)) /\ Calms(d, CompleteAttempt(d, a))
    <2> DEFINE e == CompleteAttempt(d, a)
    <2>1. e \in Databases /\ Closes(d, e, a)
        BY CompleteAttemptEvolves, CompleteAttemptKeeps DEF Evolves
    <2> HIDE DEF e
    <2>2. Told(e) /\ Calms(d, e)
        BY <2>1, CloseMoves
    <2> QED
        BY <2>2 DEF e
<1>2. Told(RetryAttempt(d, a)) /\ Calms(d, RetryAttempt(d, a))
    <2> DEFINE e == RetryAttempt(d, a)
    <2>1. e \in Databases /\ Closes(d, e, a)
        BY RetryAttemptEvolves, RetryAttemptKeeps DEF Evolves
    <2> HIDE DEF e
    <2>2. Told(e) /\ Calms(d, e)
        BY <2>1, CloseMoves
    <2> QED
        BY <2>2 DEF e
<1>3. ASSUME NEW r \in Sources, d.src[r].state = "absent"
      PROVE  Told(SupersedeAttempt(d, a, r)) /\ Calms(d, SupersedeAttempt(d, a, r))
    <2> DEFINE e == SupersedeAttempt(d, a, r)
               i == InsertSource(d, r, Internal)
    <2>1. e \in Databases /\ Closes(i, e, a)
        BY <1>3, SupersedeAttemptEvolves, SupersedeAttemptKeeps DEF Evolves
    <2>2. i \in Databases /\ Fits(i, th) /\ Told(i) /\ Calms(d, i)
        BY <1>3, InsertSourceEvolves, InsertSourceKeeps, InsertSourceMoves DEF Evolves
    <2>3. i.att = d.att
        BY DEF InsertSource
    <2> HIDE DEF e, i
    <2>4. Told(e) /\ Calms(i, e)
        BY <2>1, <2>2, <2>3, CloseMoves DEF IsActive
    <2> QED
        BY <2>2, <2>4, CalmsTransitive DEF e
<1> QED
    BY <1>1, <1>2, <1>3
=============================================================================
