--------------------------- MODULE AdmissionGate ---------------------------
(***************************************************************************)
(* src/src/endpoints/admission-gate.ts: who may work on an endpoint, as    *)
(* operators on a gate.  A lease is named by the piece of work that holds  *)
(* it.  "drain" is the promise of a drain: "none", "waiting" for the live  *)
(* leases, or "granted" when its handle has been given out.                *)
(***************************************************************************)
EXTENDS Naturals

States == {"automatic", "draining", "disconnected"}

OpenGate == [state |-> "automatic", gen |-> 1, live |-> {}, drain |-> "none"]

CanAcquire(g) == g.state = "automatic"

Acquire(g, w) == [g EXCEPT !.live = @ \cup {w}]

MutantResolveDrain(g) ==
    IF g.state = "draining" /\ g.drain = "waiting" THEN [g EXCEPT !.drain = "granted"] ELSE g

\* resolveDrainIfReady: the last lease gives the handle out, once.
ResolveDrain(g) ==
    IF g.state = "draining" /\ g.live = {} /\ g.drain = "waiting"
      THEN [g EXCEPT !.drain = "granted"] ELSE g

Release(g, w) == IF w \in g.live THEN ResolveDrain([g EXCEPT !.live = @ \ {w}]) ELSE g

DiscardLiveWork(g) == ResolveDrain([g EXCEPT !.live = {}])

MutantBeginDrain(g, discard) ==
    IF g.drain # "none" THEN g
    ELSE ResolveDrain([g EXCEPT !.state = "draining", !.drain = "waiting"])

\* beginDrain: the leases are discarded before a drain in progress is joined.
BeginDrain(g, discard) ==
    LET d == IF discard THEN DiscardLiveWork(g) ELSE g
    IN  IF d.drain # "none" THEN d
        ELSE ResolveDrain([d EXCEPT !.state = "draining", !.drain = "waiting"])

RequestAutomatic(g) ==
    IF g.state = "disconnected" THEN [g EXCEPT !.gen = @ + 1, !.state = "automatic"] ELSE g

\* reopen and disconnect of the handle given out in generation "gen".
Settle(g, gen, s) ==
    IF g.state = "draining" /\ g.gen = gen
      THEN [g EXCEPT !.gen = @ + 1, !.state = s, !.drain = "none"] ELSE g

=============================================================================
