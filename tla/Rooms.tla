------------------------------- MODULE Rooms -------------------------------
(***************************************************************************)
(* What the signaling server promises about podcasts, whatever its         *)
(* handlers do inside: a client is in at most one podcast, a podcast holds *)
(* at most Capacity clients, its host is the user of the client that       *)
(* entered it first, and a recording id names one recording of one podcast *)
(* for ever.                                                               *)
(***************************************************************************)
EXTENDS Naturals, FiniteSets

CONSTANTS Clients, Podcasts, RecordingIDs, UserOf, Capacity, None

VARIABLES where, host, recording, issued

vars == <<where, host, recording, issued>>

In(p) == {c \in Clients : where[c] = p}

\* What a podcast keeps of f when the last client has gone: nothing.
Kept(f) == [p \in Podcasts |-> IF In(p)' = {} THEN None ELSE f[p]]

Init == /\ where = [c \in Clients |-> None]
        /\ host = [p \in Podcasts |-> None]
        /\ recording = [p \in Podcasts |-> None]
        /\ issued = {}

\* A client enters a podcast that has room, out of the one it was in, if any.
Enter(c, p) == /\ where[c] # p
               /\ Cardinality(In(p)) < Capacity
               /\ where' = [where EXCEPT ![c] = p]
               /\ host' = Kept([host EXCEPT ![p] = IF In(p) = {} THEN UserOf[c] ELSE @])
               /\ recording' = Kept(recording)
               /\ UNCHANGED issued

\* Clients go: one that leaves, or all of them when the server stops.
Depart(C) == /\ where' = [c \in Clients |-> IF c \in C THEN None ELSE where[c]]
             /\ host' = Kept(host)
             /\ recording' = Kept(recording)
             /\ UNCHANGED issued

\* A client of the host's starts a recording under an id never used before.
Start(c, r) == /\ where[c] # None
               /\ host[where[c]] = UserOf[c]
               /\ recording[where[c]] = None
               /\ r \notin issued
               /\ recording' = [recording EXCEPT ![where[c]] = r]
               /\ issued' = issued \cup {r}
               /\ UNCHANGED <<where, host>>

Stop(c) == /\ where[c] # None
           /\ host[where[c]] = UserOf[c]
           /\ recording[where[c]] # None
           /\ recording' = [recording EXCEPT ![where[c]] = None]
           /\ UNCHANGED <<where, host, issued>>

Next == \/ \E c \in Clients : \/ \E p \in Podcasts : Enter(c, p)
                              \/ \E r \in RecordingIDs : Start(c, r)
                              \/ Stop(c)
                              \/ Depart({c})
        \/ Depart(Clients)

Spec == Init /\ [][Next]_vars
=============================================================================
