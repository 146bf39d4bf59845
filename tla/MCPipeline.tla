----------------------------- MODULE MCPipeline -----------------------------
(* Instances of Pipeline for TLC. *)
EXTENDS Pipeline, TLC

CONSTANTS ann, bob, show, rec1, rec2, up1, one, two

SamePodcast == [r \in RecordingIDs |-> show]
=============================================================================
