---------------------------- MODULE DeliveryStore ----------------------------
(***************************************************************************)
(* The durable outbox of src/src/storage/delivery-store.ts: the deliveries *)
(* table, the ledger of attachment releases and the reference count of the *)
(* attachment.  Every method that writes is an operator from a table to a  *)
(* table; a method runs in one transaction and does not wait.              *)
(*                                                                         *)
(* A message is what a producer asks for; a row is a message or the        *)
(* warning the worker prepares about it (delivery-warning:<id>).  All      *)
(* messages with a file share one attachment.  The columns a property does *)
(* not tell apart (body, binding, receipt, attempt_count) are left out.    *)
(***************************************************************************)
EXTENDS Integers, Sequences, FiniteSets

CONSTANTS
    Messages,       \* the deliveries producers ask for
    Mandatory,      \* those that must reach the chat
    WithFile,       \* those that carry the attachment
    Reconciled      \* those of an adapter with reconcileUncertain (WeChat)

ASSUME MessagesAssumption ==
    /\ IsFiniteSet(Messages)
    /\ Mandatory \subseteq Messages /\ WithFile \subseteq Messages /\ Reconciled \subseteq Messages

Rows == Messages \X {"message", "warning"}
Message(m) == <<m, "message">>
Warning(m) == <<m, "warning">>

IsMessage(r)   == r[2] = "message"
IsMandatory(r) == ~IsMessage(r) \/ r[1] \in Mandatory
HasFile(r)     == IsMessage(r) /\ r[1] \in WithFile
Reconciles(r)  == r[1] \in Reconciled

States == {"absent", "prepared", "dispatched", "uncertain", "confirmed", "failed"}
Settled == {"confirmed", "failed"}
Ready   == {"prepared", "uncertain"}

\* order is the order of (created_at, rowid): the clock does not step back.
Tables == [state : [Rows -> States], order : Seq(Rows), released : SUBSET Rows, refs : Nat]

EmptyTable == [state |-> [r \in Rows |-> "absent"], order |-> <<>>, released |-> {}, refs |-> 0]

SetState(d, r, s) == [d EXCEPT !.state[r] = s]

\* prepare and prepareAttachment: an existing row is returned as it is.
Prepare(d, r) ==
    IF d.state[r] # "absent" THEN d
    ELSE [d EXCEPT !.state[r] = "prepared", !.order = Append(d.order, r),
                   !.refs = IF HasFile(r) THEN d.refs + 1 ELSE d.refs]

ReleaseAttachmentUnbounded(d, r) ==         \* mutant: neither ledger nor floor
    IF ~HasFile(r) THEN d ELSE [d EXCEPT !.refs = d.refs - 1]

ReleaseAttachmentAgain(d, r) ==             \* mutant: the ledger is not consulted
    IF ~HasFile(r) THEN d
    ELSE [d EXCEPT !.released = d.released \cup {r},
                   !.refs = IF d.refs = 0 THEN 0 ELSE d.refs - 1]

ReleaseAttachmentOnce(d, r) ==
    IF ~HasFile(r) \/ r \in d.released THEN d
    ELSE [d EXCEPT !.released = d.released \cup {r},
                   !.refs = IF d.refs = 0 THEN 0 ELSE d.refs - 1]

MarkDispatched(d, r) == IF d.state[r] \in Ready THEN SetState(d, r, "dispatched") ELSE d

Confirm(d, r) ==
    IF d.state[r] \in Settled THEN d
    ELSE ReleaseAttachmentOnce(SetState(d, r, "confirmed"), r)

Fail(d, r) ==
    IF d.state[r] \in Settled THEN d
    ELSE ReleaseAttachmentOnce(SetState(d, r, "failed"), r)

\* failInTransaction for each delivery of a retired WeChat account.
FailMessages(d, S) ==
    LET open  == {m \in S : d.state[Message(m)] \notin Settled}
        freed == {Message(m) : m \in open \cap WithFile} \ d.released
    IN  [d EXCEPT !.state = [r \in Rows |-> IF IsMessage(r) /\ r[1] \in open THEN "failed"
                                            ELSE d.state[r]],
                  !.released = d.released \cup freed,
                  !.refs = IF d.refs < Cardinality(freed) THEN 0 ELSE d.refs - Cardinality(freed)]

MarkUncertainReleasing(d, r) ==             \* mutant: the attachment is let go
    ReleaseAttachmentOnce(SetState(d, r, "uncertain"), r)

MarkUncertain(d, r) == SetState(d, r, "uncertain")

ResumeDispatched(d, r) ==                   \* mutant: the wrong state is resumed
    IF d.state[r] = "dispatched" THEN SetState(d, r, "prepared") ELSE d

ResumeUncertain(d, r) ==
    IF d.state[r] = "uncertain" THEN SetState(d, r, "prepared") ELSE d

AbandonUncertain(d, r) ==
    IF d.state[r] = "uncertain" THEN ReleaseAttachmentOnce(d, r) ELSE d

MarkPrepared(d, r) == SetState(d, r, "prepared")

RecoverAfterCrash(d) ==
    [d EXCEPT !.state = [r \in Rows |-> IF d.state[r] = "dispatched" THEN "uncertain"
                                        ELSE d.state[r]]]

\* The rows that may be due; whoever goes through them follows d.order.
ListReady(d) == {r \in Rows : d.state[r] \in Ready}
FirstIn(d, S, r) ==
    \E i \in DOMAIN d.order :
        d.order[i] = r /\ r \in S /\ \A j \in 1..(i - 1) : d.order[j] \notin S
=============================================================================
