-------------------------- MODULE MCVideoProcessor -------------------------
(***************************************************************************)
(* Instances of VideoProcessor for TLC.  The session of a recording that   *)
(* was not started explicitly has the recording's id, rec1; up1 is the id  *)
(* of one that was.                                                        *)
(***************************************************************************)
EXTENDS VideoProcessor, TLC

CONSTANTS ann, bob, rec1, up1, one, two, three

Told(u, s, n) == [user |-> u, session |-> s, recording |-> rec1, total |-> n]

\* Two users of one recording, the first of whom ends it twice.
PairEvents == {Told(ann, rec1, 1), Told(ann, rec1, 2), Told(bob, rec1, 1)}
\* One user, whose chunks were tracked by two sessions.
SoloEvents == {Told(ann, up1, 1), Told(ann, rec1, 2)}

JobSymmetry == Permutations(Jobs)
=============================================================================
