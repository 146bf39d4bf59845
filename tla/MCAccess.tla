------------------------------ MODULE MCAccess ------------------------------
(* An instance of Access: two clients of two users, every fault. *)
EXTENDS Access, TLC

CONSTANTS ann, bob

OneOfEach == [c \in Clients |-> IF c = 1 THEN ann ELSE bob]
AllFaults == FaultKinds
Interchangeable == Permutations(Podcasts) \cup Permutations(RecordingIDs)
=============================================================================
