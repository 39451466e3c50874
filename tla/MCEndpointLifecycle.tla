-------------------------- MODULE MCEndpointLifecycle --------------------------
(* Values of the constants for TLC.                                            *)
EXTENDS EndpointLifecycle, TLC

CONSTANTS w1, w2

MCAdapters == 1 .. 5
Symmetry == Permutations(Works)

AnyRequests == [kind : {"disconnect", "restart"}, force : BOOLEAN]
Unforced == [kind : {"disconnect", "restart"}, force : {FALSE}]
=============================================================================
