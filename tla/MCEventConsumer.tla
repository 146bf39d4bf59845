-------------------------- MODULE MCEventConsumer --------------------------
(***************************************************************************)
(* An instance of EventConsumer for TLC.                                   *)
(***************************************************************************)
EXTENDS EventConsumer, TLC

CONSTANTS ann, bob, pod1, pod2
=============================================================================
