---------------------------- MODULE MCEventRelay ----------------------------
(* Model values for the runs of EventRelay. *)
EXTENDS EventRelay

CONSTANTS t1, t2

=============================================================================
