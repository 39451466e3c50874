-------------------------- MODULE DeliveryStoreProofs --------------------------
(***************************************************************************)
(* What the transactions of DeliveryStore keep, for every set of messages: *)
(* Good(d) says that the reference count counts the holders of the         *)
(* attachment and that only a row that will not be sent has let it go.     *)
(* Every lemma also says what the transaction does to the states of the    *)
(* rows, which is all that the users of the table look at.                 *)
(***************************************************************************)
EXTENDS DeliveryStore, FiniteSetTheorems, SequenceTheorems, TLAPS

Holders(d) == {r \in Rows : HasFile(r) /\ d.state[r] # "absent" /\ r \notin d.released}

\* An optional row of unknown fate that nothing can reconcile is not sent again.
IsOptional(r) == ~IsMandatory(r) /\ ~Reconciles(r)
Over(d, r) == d.state[r] \in Settled \/ (d.state[r] = "uncertain" /\ IsOptional(r))

Good(d) ==
    /\ d \in Tables
    /\ d.refs = Cardinality(Holders(d))
    /\ \A r \in d.released : HasFile(r) /\ Over(d, r)

LEMMA RowsFinite == IsFiniteSet(Rows)
<1>1. IsFiniteSet({"message", "warning"})
    <2>1. IsFiniteSet({"message"})
        BY FS_Singleton
    <2>2. IsFiniteSet({"message"} \cup {"warning"})
        BY <2>1, FS_AddElement
    <2>3. {"message"} \cup {"warning"} = {"message", "warning"}
        OBVIOUS
    <2> QED BY <2>2, <2>3
<1> QED BY <1>1, FS_Product, MessagesAssumption DEF Rows, MessagesAssumption

LEMMA HoldersFinite ==
    ASSUME NEW d PROVE IsFiniteSet(Holders(d)) /\ Cardinality(Holders(d)) \in Nat
<1>1. Holders(d) \in SUBSET Rows
    BY DEF Holders
<1>2. IsFiniteSet(Holders(d))
    BY <1>1, RowsFinite, FS_Subset
<1> QED BY <1>2, FS_CardinalityType

LEMMA EmptyGood == Good(EmptyTable)
<1>1. Holders(EmptyTable) = {}
    BY DEF Holders, EmptyTable
<1>2. EmptyTable \in Tables
    BY DEF EmptyTable, Tables, States
<1> QED BY <1>1, <1>2, FS_EmptySet DEF Good, EmptyTable

-----------------------------------------------------------------------------
(* The parts of a transaction.                                             *)

\* A change of state that does not send a row that has let the file go.
LEMMA SetStateGood ==
    ASSUME NEW d, Good(d), NEW r \in Rows, d.state[r] # "absent",
           NEW s \in States \ {"absent"},
           r \in d.released => s \in Settled \/ (s = "uncertain" /\ IsOptional(r))
    PROVE  /\ Good(SetState(d, r, s))
           /\ SetState(d, r, s).state = [d.state EXCEPT ![r] = s]
           /\ SetState(d, r, s).released = d.released
<1> DEFINE e == SetState(d, r, s)
<1>1. /\ e.state = [d.state EXCEPT ![r] = s]
      /\ e.released = d.released /\ e.refs = d.refs /\ e.order = d.order
      /\ d.state \in [Rows -> States] /\ e \in Tables
    BY DEF SetState, Good, Tables
<1>2. Holders(e) = Holders(d)
    BY <1>1 DEF Holders
<1>3. \A q \in e.released : HasFile(q) /\ Over(e, q)
    <2> SUFFICES ASSUME NEW q \in d.released PROVE HasFile(q) /\ Over(e, q)
        BY <1>1
    <2>1. q \in Rows /\ HasFile(q) /\ Over(d, q)
        BY DEF Good, Tables
    <2>2. e.state[q] = IF q = r THEN s ELSE d.state[q]
        BY <1>1, <2>1
    <2> HIDE DEF e
    <2> QED BY <2>1, <2>2 DEF Over
<1> HIDE DEF e
<1>4. Good(e)
    BY <1>1, <1>2, <1>3 DEF Good
<1> QED BY <1>1, <1>4 DEF e

LEMMA ReleaseGood ==
    ASSUME NEW d, Good(d), NEW r \in Rows, Over(d, r)
    PROVE  /\ Good(ReleaseAttachmentOnce(d, r))
           /\ ReleaseAttachmentOnce(d, r).state = d.state
<1> DEFINE e == ReleaseAttachmentOnce(d, r)
<1>1. CASE ~HasFile(r) \/ r \in d.released
    BY <1>1 DEF ReleaseAttachmentOnce
<1>2. CASE HasFile(r) /\ r \notin d.released
    <2>1. r \in Holders(d)
        BY <1>2 DEF Holders, Over, Settled
    <2>2. Cardinality(Holders(d)) # 0
        BY <2>1, HoldersFinite, FS_EmptySet
    <2>3. /\ e.state = d.state /\ e.released = d.released \cup {r} /\ e.order = d.order
          /\ e.refs = d.refs - 1 /\ d.refs \in Nat \ {0} /\ e \in Tables
        <3>1. d.refs \in Nat \ {0}
            BY <2>2, HoldersFinite DEF Good
        <3>2. e = [d EXCEPT !.released = d.released \cup {r}, !.refs = d.refs - 1]
            BY <1>2, <3>1 DEF ReleaseAttachmentOnce
        <3>3. d.refs - 1 \in Nat
            BY <3>1
        <3>4. d \in Tables
            BY DEF Good
        <3> HIDE DEF e
        <3> QED BY <3>1, <3>2, <3>3, <3>4 DEF Tables
    <2>4. Holders(e) = Holders(d) \ {r}
        BY <2>3 DEF Holders
    <2> HIDE DEF e
    <2>5. e.refs = Cardinality(Holders(e))
        <3>1. Cardinality(Holders(e)) = Cardinality(Holders(d)) - 1
            BY <2>1, <2>4, HoldersFinite, FS_RemoveElement
        <3> QED BY <3>1, <2>3 DEF Good
    <2>6. \A q \in e.released : HasFile(q) /\ Over(e, q)
        BY <1>2, <2>3 DEF Good, Over
    <2>7. Good(e) /\ e.state = d.state
        BY <2>3, <2>5, <2>6 DEF Good
    <2> QED BY <2>7 DEF e
<1> QED BY <1>1, <1>2

-----------------------------------------------------------------------------
(* The transactions.                                                       *)

LEMMA PrepareGood ==
    ASSUME NEW d, Good(d), NEW r \in Rows
    PROVE  /\ Good(Prepare(d, r))
           /\ Prepare(d, r).state = IF d.state[r] # "absent" THEN d.state
                                    ELSE [d.state EXCEPT ![r] = "prepared"]
<1> DEFINE e == Prepare(d, r)
<1>1. CASE d.state[r] # "absent"
    BY <1>1 DEF Prepare
<1>2. CASE d.state[r] = "absent"
    <2>1. r \notin d.released
        BY <1>2 DEF Good, Over, Settled
    <2>2. Append(d.order, r) \in Seq(Rows)
        BY AppendProperties DEF Good, Tables
    <2>3. /\ e.state = [d.state EXCEPT ![r] = "prepared"] /\ d.state \in [Rows -> States]
          /\ e.released = d.released
          /\ e.refs = IF HasFile(r) THEN d.refs + 1 ELSE d.refs
          /\ d.refs \in Nat /\ e \in Tables
        <3> DEFINE n == IF HasFile(r) THEN d.refs + 1 ELSE d.refs
                   o == Append(d.order, r)
        <3>1. d \in Tables /\ d.refs \in Nat /\ n \in Nat /\ o \in Seq(Rows)
            BY <2>2 DEF Good, Tables
        <3>2. e = [d EXCEPT !.state = [d.state EXCEPT ![r] = "prepared"], !.order = o, !.refs = n]
            BY <1>2, <3>1 DEF Prepare, Tables
        <3>3. [d.state EXCEPT ![r] = "prepared"] \in [Rows -> States]
            BY <3>1 DEF Tables, States
        <3> HIDE DEF e, o
        <3>4. /\ e.state = [d.state EXCEPT ![r] = "prepared"] /\ e.order = o
              /\ e.refs = n /\ e.released = d.released /\ e \in Tables
            <4> HIDE DEF n
            <4> QED BY <3>1, <3>2, <3>3 DEF Tables
        <3> QED BY <3>1, <3>4 DEF Tables
    <2>4. Holders(e) = IF HasFile(r) THEN Holders(d) \cup {r} ELSE Holders(d)
        BY <1>2, <2>1, <2>3 DEF Holders
    <2>5. r \notin Holders(d)
        BY <1>2 DEF Holders
    <2> HIDE DEF e
    <2>6. e.refs = Cardinality(Holders(e))
        <3>1. Cardinality(Holders(d) \cup {r}) = Cardinality(Holders(d)) + 1
            BY <2>5, HoldersFinite, FS_AddElement
        <3> QED BY <3>1, <2>3, <2>4 DEF Good
    <2>7. \A q \in e.released : HasFile(q) /\ Over(e, q)
        BY <2>1, <2>3 DEF Good, Over, Tables
    <2>8. Good(e)
        BY <2>3, <2>6, <2>7 DEF Good
    <2> QED BY <1>2, <2>3, <2>8 DEF e
<1> QED BY <1>1, <1>2

\* confirm and fail, for a row that was sent.
LEMMA EndGood ==
    ASSUME NEW d, Good(d), NEW r \in Rows, d.state[r] \notin Settled \cup {"absent"}
    PROVE  /\ Good(Confirm(d, r)) /\ Confirm(d, r).state = [d.state EXCEPT ![r] = "confirmed"]
           /\ Good(Fail(d, r)) /\ Fail(d, r).state = [d.state EXCEPT ![r] = "failed"]
<1> SUFFICES ASSUME NEW s \in Settled
             PROVE  LET e == ReleaseAttachmentOnce(SetState(d, r, s), r)
                    IN  Good(e) /\ e.state = [d.state EXCEPT ![r] = s]
    BY DEF Confirm, Fail, Settled
<1> DEFINE c == SetState(d, r, s)
<1>1. Good(c) /\ c.state = [d.state EXCEPT ![r] = s]
    BY SetStateGood DEF Settled, States
<1>2. Over(c, r)
    BY <1>1 DEF Over, Good, Tables
<1> HIDE DEF c
<1>3. Good(ReleaseAttachmentOnce(c, r)) /\ ReleaseAttachmentOnce(c, r).state = c.state
    BY <1>1, <1>2, ReleaseGood
<1> QED BY <1>1, <1>3 DEF c

LEMMA AbandonGood ==
    ASSUME NEW d, Good(d), NEW r \in Rows, IsOptional(r)
    PROVE  Good(AbandonUncertain(d, r)) /\ AbandonUncertain(d, r).state = d.state
    BY ReleaseGood DEF AbandonUncertain, Over

LEMMA RecoverGood ==
    ASSUME NEW d, Good(d)
    PROVE  /\ Good(RecoverAfterCrash(d))
           /\ \A r \in Rows : RecoverAfterCrash(d).state[r] =
                 IF d.state[r] = "dispatched" THEN "uncertain" ELSE d.state[r]
<1> DEFINE e == RecoverAfterCrash(d)
<1>1. /\ e.released = d.released /\ e.refs = d.refs
      /\ \A r \in Rows : e.state[r] = IF d.state[r] = "dispatched" THEN "uncertain" ELSE d.state[r]
      /\ e \in Tables
    BY DEF RecoverAfterCrash, Good, Tables, States
<1> HIDE DEF e
<1>2. Holders(e) = Holders(d)
    BY <1>1 DEF Holders
<1>3. \A q \in e.released : HasFile(q) /\ Over(e, q)
    BY <1>1 DEF Good, Over, Tables, Settled
<1>4. Good(e)
    BY <1>1, <1>2, <1>3 DEF Good
<1> QED BY <1>1, <1>4 DEF e

LEMMA FailMessagesGood ==
    ASSUME NEW d, Good(d), NEW S \in SUBSET Messages, \A m \in S : d.state[Message(m)] # "absent"
    PROVE  /\ Good(FailMessages(d, S))
           /\ \A r \in Rows : FailMessages(d, S).state[r] =
                 IF IsMessage(r) /\ r[1] \in S /\ d.state[r] \notin Settled THEN "failed"
                 ELSE d.state[r]
<1> DEFINE open == {m \in S : d.state[Message(m)] \notin Settled}
           freed == {Message(m) : m \in open \cap WithFile} \ d.released
           e == FailMessages(d, S)
<1>1. \A r \in Rows : IsMessage(r) => r = Message(r[1]) /\ r[1] \in Messages
    BY DEF IsMessage, Message, Rows
<1>2. \A m \in Messages : Message(m) \in Rows /\ IsMessage(Message(m)) /\ Message(m)[1] = m
    BY DEF IsMessage, Message, Rows
<1>3. freed \in SUBSET Holders(d)
    BY <1>2 DEF Holders, HasFile, Settled
<1>4. /\ IsFiniteSet(freed) /\ Cardinality(freed) \in Nat
      /\ Cardinality(freed) <= Cardinality(Holders(d))
      /\ Cardinality(Holders(d) \ freed) = Cardinality(Holders(d)) - Cardinality(freed)
    <2>1. IsFiniteSet(freed) /\ Cardinality(freed) <= Cardinality(Holders(d))
        BY <1>3, HoldersFinite, FS_Subset
    <2>2. Cardinality(freed) \in Nat
        BY <2>1, FS_CardinalityType
    <2>3. Holders(d) \cap freed = freed
        BY <1>3
    <2>4. Cardinality(Holders(d) \ freed) = Cardinality(Holders(d)) - Cardinality(freed)
        <3> HIDE DEF freed
        <3>1. Cardinality(Holders(d) \ freed)
                = Cardinality(Holders(d)) - Cardinality(Holders(d) \cap freed)
            BY HoldersFinite, FS_Difference
        <3> QED BY <3>1, <2>3
    <2> QED BY <2>1, <2>2, <2>4
<1>5. /\ e.state = [r \in Rows |-> IF IsMessage(r) /\ r[1] \in open THEN "failed" ELSE d.state[r]]
      /\ e.released = d.released \cup freed /\ e.order = d.order
      /\ e.refs = IF d.refs < Cardinality(freed) THEN 0 ELSE d.refs - Cardinality(freed)
      /\ e = [state |-> e.state, order |-> e.order, released |-> e.released, refs |-> e.refs]
    <2> DEFINE st == [r \in Rows |-> IF IsMessage(r) /\ r[1] \in open THEN "failed" ELSE d.state[r]]
               n == IF d.refs < Cardinality(freed) THEN 0 ELSE d.refs - Cardinality(freed)
    <2>1. d \in Tables
        BY DEF Good
    <2>2. e = [d EXCEPT !.state = st, !.released = d.released \cup freed, !.refs = n]
        BY DEF FailMessages
    <2> HIDE DEF e, st, n, freed
    <2>3. /\ e.state = st /\ e.released = d.released \cup freed /\ e.order = d.order /\ e.refs = n
          /\ e = [state |-> e.state, order |-> e.order, released |-> e.released, refs |-> e.refs]
        BY <2>1, <2>2 DEF Tables
    <2> QED BY <2>3 DEF st, n
<1>6. \A r \in Rows : e.state[r] =
        IF IsMessage(r) /\ r[1] \in S /\ d.state[r] \notin Settled THEN "failed" ELSE d.state[r]
    BY <1>1, <1>5
<1>7. freed \subseteq Rows /\ \A r \in freed : HasFile(r) /\ r \notin d.released
    BY <1>3 DEF Holders
<1>8. \A r \in freed : IsMessage(r) /\ r[1] \in open
    BY <1>2
<1> HIDE DEF e, freed
<1>9. e.refs = Cardinality(Holders(d)) - Cardinality(freed) /\ e.refs \in Nat
    BY <1>4, <1>5, HoldersFinite DEF Good
<1>10. e \in Tables
    <2>1. e.state \in [Rows -> States]
        BY <1>5 DEF Good, Tables, States
    <2>2. e.released \in SUBSET Rows /\ e.order \in Seq(Rows)
        BY <1>5, <1>7 DEF Good, Tables
    <2> QED BY <2>1, <2>2, <1>5, <1>9 DEF Tables
<1>11. Holders(e) = Holders(d) \ freed
    <2>1. \A r \in Rows : e.state[r] # "absent" <=> d.state[r] # "absent"
        BY <1>1, <1>6
    <2> QED BY <1>5, <2>1 DEF Holders
<1>12. \A q \in e.released : HasFile(q) /\ Over(e, q)
    <2> SUFFICES ASSUME NEW q \in e.released PROVE HasFile(q) /\ Over(e, q)
        OBVIOUS
    <2>1. CASE q \in freed
        <3>1. e.state[q] = "failed"
            BY <2>1, <1>5, <1>7, <1>8
        <3> QED BY <3>1, <2>1, <1>7 DEF Over, Settled
    <2>2. CASE q \in d.released
        <3>1. q \in Rows /\ HasFile(q) /\ Over(d, q)
            BY <2>2 DEF Good, Tables
        <3> QED BY <3>1, <1>6 DEF Over, Settled
    <2> QED BY <2>1, <2>2, <1>5
<1>13. Good(e)
    BY <1>4, <1>9, <1>10, <1>11, <1>12 DEF Good
<1> QED BY <1>6, <1>13 DEF e
=============================================================================
