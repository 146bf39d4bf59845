-------------------------- MODULE MCUploadSession --------------------------
(***************************************************************************)
(* Instances of UploadSession for TLC.                                     *)
(***************************************************************************)
EXTENDS UploadSession, TLC

CONSTANTS ann, bob, show, rec1, rec2, up1, one, two

\* All recordings are of one podcast and share a session key.
SamePodcast == [r \in RecordingIDs |-> show]

\* The goroutines that serve requests are interchangeable, and so are the
\* recordings of one podcast.
RequestSymmetry == Permutations(Requests) \cup Permutations(RecordingIDs)
=============================================================================
