-------------------------- MODULE MCDeliveryOutbox --------------------------
(***************************************************************************)
(* DeliveryOutbox for TLC.  The messages differ in what they are (optional, *)
(* with a file, on WeChat), so no run has a symmetry set.                   *)
(***************************************************************************)
EXTENDS DeliveryOutbox, TLC
=============================================================================
