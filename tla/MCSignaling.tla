---------------------------- MODULE MCSignaling ----------------------------
(* Small instances of Signaling: the first two clients are one user's. *)
EXTENDS Signaling, TLC

CONSTANTS ann, bob

TwoOfOneUser == [c \in Clients |-> IF c <= 2 THEN ann ELSE bob]
\* Redis takes every command, forgets nothing, and the server does not crash.
NoFaults == {}
AllFaults == FaultKinds
\* Bounds: one client is greeted at a time, at most two have gone, and at most
\* twice a podcast is created by a user who had not yet created that podcast.
Few ==
  /\ Cardinality({c \in Clients : conn[c] = "greeting"}) <= 1
  /\ Cardinality({c \in Clients : conn[c] = "closed"}) <= 2
  /\ Cardinality(podcastSessions) <= 2
CalmSpec == Init /\ [][(\E c \in Clients : ClientStep(c)) /\ Few']_vars

Interchangeable == Permutations(Podcasts) \cup Permutations(RecordingIDs)
=============================================================================
