------------------------- MODULE ClaudeHostSession -------------------------
(***************************************************************************)
(* src/src/claude-host/session.ts: one Claude session of the host, and the *)
(* Claude process behind it.                                               *)
(*                                                                         *)
(* The process ("sdk", external, modelled from what session.ts says of it) *)
(* runs one message at a time.  A message sent meanwhile is queued; it is  *)
(* folded into the turn that runs, at the latest when that turn ends,      *)
(* except that an aborted turn leaves what is still queued to run next.    *)
(***************************************************************************)
EXTENDS Naturals, Sequences, SequencesExt

\* The elements of s that are in S, in their order: SelectSeq with a definition
\* that can be reasoned about.
Only(s, S) ==
    LET taken[i \in 0..Len(s)] ==
          IF i = 0 THEN <<>> ELSE IF s[i] \in S THEN Append(taken[i - 1], s[i]) ELSE taken[i - 1]
    IN  taken[Len(s)]

Process == [run |-> 0, queue |-> <<>>, results |-> <<>>]
Session == [inFlight |-> <<>>, aborting |-> 0]

-----------------------------------------------------------------------------
(* The process.  Its results wait, in order, for the host to read them; the *)
(* result of an aborted turn names no turn.                                *)
Queued(sdk) == ToSet(sdk.queue)
Has(sdk) == ({sdk.run} \cup Queued(sdk)) \ {0}

Fed(sdk, turn) == IF sdk.run = 0 THEN [sdk EXCEPT !.run = turn] ELSE [sdk EXCEPT !.queue = Append(sdk.queue, turn)]

Folded(sdk) == [sdk EXCEPT !.queue = Tail(sdk.queue)]

Succeeded(sdk) == [run |-> 0, queue |-> <<>>, results |-> Append(sdk.results, sdk.run)]

Aborted(sdk) ==
    IF sdk.run = 0 THEN sdk
    ELSE [run |-> IF sdk.queue = <<>> THEN 0 ELSE Head(sdk.queue),
          queue |-> IF sdk.queue = <<>> THEN <<>> ELSE Tail(sdk.queue), results |-> Append(sdk.results, 0)]

-----------------------------------------------------------------------------
(* The host's session.                                                     *)
Done(turn, folded) == [kind |-> "done", turn |-> turn, folded |-> folded, set |-> {}]

\* send: a message already accepted is not sent again.
AcceptsAgain(accepted, turn) == TRUE
Accepts(accepted, turn) == turn \notin accepted
Sent(host, turn) == [host EXCEPT !.inFlight = Append(host.inFlight, turn)]

\* consumeResult, and the events it emits.  A result that names its turn ends
\* all that is in flight: what is behind the turn was folded into it.  One that
\* names none is that of an abort, of the head.
EndsOnlyNamed(host, turn) ==
    IF host.inFlight = <<>> THEN <<>>
    ELSE Only(host.inFlight, {IF turn = 0 THEN Head(host.inFlight) ELSE turn})

Ends(host, turn) ==
    IF host.inFlight = <<>> THEN <<>>
    ELSE IF turn = 0 THEN <<Head(host.inFlight)>>
    ELSE IF turn \in ToSet(host.inFlight) THEN host.inFlight
    ELSE <<>>

ResultEvents(host, turn) ==
    LET ends == Ends(host, turn)
        p == IF turn = 0 THEN 1 ELSE CHOOSE i \in DOMAIN ends : ends[i] = turn
    IN  IF ends = <<>> THEN <<>>
        ELSE [i \in 1 .. p - 1 |-> Done(ends[i], FALSE)]
             \o [i \in 1 .. Len(ends) - p |-> Done(ends[p + i], TRUE)]
             \o <<Done(ends[p], FALSE)>>

AfterResult(host, turn) == [host EXCEPT !.inFlight = Only(host.inFlight, ToSet(host.inFlight) \ ToSet(Ends(host, turn)))]

\* interrupt, up to the round trip: what it will need of the queue.
AbortInFlight(host) == host.aborting # 0 /\ host.aborting \in ToSet(host.inFlight)
Interrupting(host) ==
    [of |-> IF host.inFlight = <<>> THEN 0 ELSE Head(host.inFlight),
     outstanding |-> AbortInFlight(host), candidates |-> ToSet(host.inFlight)]
Interrupted(host) == [host EXCEPT !.aborting = IF host.inFlight = <<>> THEN host.aborting ELSE Head(host.inFlight)]

\* settleFoldedAcrossInterrupt: the receipt names the messages that survive.
FoldedAcross(host, asked, survivors) ==
    IF asked.outstanding THEN {} ELSE (ToSet(host.inFlight) \cap asked.candidates) \ (survivors \cup {asked.of})

FoldedEvents(host, folded) ==
    LET gone == Only(host.inFlight, folded)
    IN  [i \in DOMAIN gone |-> Done(gone[i], TRUE)]
AfterFolded(host, folded) == [host EXCEPT !.inFlight = Only(host.inFlight, ToSet(host.inFlight) \ folded)]

=============================================================================
