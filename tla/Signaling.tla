----------------------------- MODULE Signaling -----------------------------
(***************************************************************************)
(* The signaling server: WebSocket clients, the podcasts they are in, the  *)
(* ready handshake of a pair, the recordings a host starts and stops, and  *)
(* what the handlers leave in Redis.                                       *)
(*                                                                         *)
(* Every handler runs to its end under the server's mutex, so a handler is *)
(* one action, with two exceptions.  Connecting is two: the client is      *)
(* registered under the mutex and greeted after it.  Stopping a recording  *)
(* is two: it reads the record in Redis and then writes it back, and what  *)
(* Redis does in between needs no mutex.  The commands of the other        *)
(* handlers only write, so that what Redis loses between two of them it    *)
(* might as well have refused.  Left out: forwardMessage, which writes to  *)
(* a socket and changes no state, and Client.IsReady and                   *)
(* Client.RecordingID, which the server writes and never reads.            *)
(***************************************************************************)
EXTENDS Naturals, FiniteSets

CONSTANTS
  Clients,       \* client ids; a number stands for a uuid, < for its order
  Users,
  UserOf,        \* the user a client's access token names
  Podcasts,
  RecordingIDs,  \* the uuids handleStartRecording can draw
  MaxClients,
  Faults,        \* the faults a behaviour may have, a subset of FaultKinds
  None

FaultKinds == {"refuse", "crash", "redis restart", "expire"}

ASSUME ClientsAssumption == Clients \subseteq Nat /\ IsFiniteSet(Clients)
ASSUME UserOfAssumption == UserOf \in [Clients -> Users]
ASSUME MaxClientsAssumption == MaxClients \in Nat \ {0}
ASSUME NoneAssumption == None \notin Clients \cup Users \cup Podcasts \cup RecordingIDs
ASSUME FaultsAssumption == Faults \subseteq FaultKinds

VARIABLES
  conn,             \* how far the goroutine of a connection is
  podcastOf,        \* Client.PodcastID
  podcasts,         \* the keys of SignalingServer.podcasts
  members,          \* Podcast.Clients
  ready,            \* Podcast.ReadyClients
  host,             \* Podcast.HostUserID
  recording,        \* Podcast.RecordingID, None when IsRecording is false
  ending,           \* the client whose stop holds the mutex, if any, and the
                    \*   record it has read
  issued,           \* the uuids drawn so far
  recordings,       \* Redis recording:<id>
  podcastSessions,  \* Redis podcast_session:*, as pairs of user and podcast
  roster,           \* what the messages written to a client add up to: who is
  toldRecording,    \*   with it, which recording runs, whom the last
  peer,             \*   both-ready pairs it with, and whether it is to make
  initiates,        \*   the offer
  journal           \* what the events of signaling_events_queue add up to

connVars == <<conn, podcastOf>>
roomVars == <<podcasts, members, ready, host, recording>>
redisVars == <<recordings, podcastSessions>>
toldVars == <<roster, toldRecording, peer, initiates>>
vars == <<connVars, roomVars, ending, issued, redisVars, toldVars, journal>>

NoRecord == [status |-> "absent", podcast |-> None, host |-> None, participants |-> {}]
Record == [status : {"absent", "active", "ended"}, podcast : Podcasts \cup {None},
           host : Users \cup {None}, participants : SUBSET Users]

NoStop == [client |-> None, record |-> NoRecord]

TypeOK ==
  /\ conn \in [Clients -> {"new", "greeting", "serving", "closed"}]
  /\ podcastOf \in [Clients -> Podcasts \cup {None}]
  /\ podcasts \subseteq Podcasts
  /\ members \in [Podcasts -> SUBSET Clients]
  /\ ready \in [Podcasts -> SUBSET Clients]
  /\ host \in [Podcasts -> Users \cup {None}]
  /\ recording \in [Podcasts -> RecordingIDs \cup {None}]
  /\ ending \in [client : Clients \cup {None}, record : Record]
  /\ issued \subseteq RecordingIDs
  /\ recordings \in [RecordingIDs -> Record]
  /\ podcastSessions \subseteq Users \X Podcasts
  /\ roster \in [Clients -> SUBSET Clients]
  /\ toldRecording \in [Clients -> RecordingIDs \cup {None}]
  /\ peer \in [Clients -> Clients \cup {None}]
  /\ initiates \in [Clients -> BOOLEAN]
  /\ journal \in [connected : SUBSET Clients, inside : SUBSET (Clients \X Podcasts),
                  recording : SUBSET Podcasts]

Init ==
  /\ conn = [c \in Clients |-> "new"]
  /\ podcastOf = [c \in Clients |-> None]
  /\ podcasts = {}
  /\ members = [p \in Podcasts |-> {}]
  /\ ready = [p \in Podcasts |-> {}]
  /\ host = [p \in Podcasts |-> None]
  /\ recording = [p \in Podcasts |-> None]
  /\ ending = NoStop
  /\ issued = {}
  /\ recordings = [r \in RecordingIDs |-> NoRecord]
  /\ podcastSessions = {}
  /\ roster = [c \in Clients |-> {}]
  /\ toldRecording = [c \in Clients |-> None]
  /\ peer = [c \in Clients |-> None]
  /\ initiates = [c \in Clients |-> FALSE]
  /\ journal = [connected |-> {}, inside |-> {}, recording |-> {}]

-----------------------------------------------------------------------------
(* Redis.  A command may be refused; the handlers log the error and go on. *)
(* With no Redis at start-up every command is a no-op: all are refused.    *)

Outcomes(old, new) == IF "refuse" \in Faults THEN {old, new} ELSE {new}

QueueEvent(before, after) == journal' \in Outcomes(before, after)

\* Mutant: the session is not created.
SessionForgotten(u, p) == UNCHANGED podcastSessions

CreatePodcastSession(u, p) ==
  podcastSessions' \in Outcomes(podcastSessions, podcastSessions \cup {<<u, p>>})

CreateRecordingSession(r, u, p, participants) ==
  recordings' \in Outcomes(recordings,
                           [recordings EXCEPT ![r] = [status |-> "active", podcast |-> p,
                                                      host |-> u, participants |-> participants]])

\* The record a stop reads: an error is to it like no record.
GetRecording(r) == Outcomes(NoRecord, recordings[r])

\* Mutants: a stop that never reaches Redis; one that writes a record where
\* it has read none; one that writes the state's name for the flag.
EndForgotten(r, read) == UNCHANGED recordings
EndUnread(r, read) == recordings' = [recordings EXCEPT ![r] = [read EXCEPT !.status = "ended"]]
EndMisnamed(r, read) == recordings' = [recordings EXCEPT ![r] = [read EXCEPT !.status = "completed"]]

\* What was read is written back, whether or not Redis still has it.
EndRecordingSession(r, read) ==
  IF read.status = "absent"
  THEN UNCHANGED recordings
  ELSE recordings' \in Outcomes(recordings,
                                [recordings EXCEPT ![r] = [read EXCEPT !.status = "ended"]])

-----------------------------------------------------------------------------
(* leavePodcastInternal, as the value each variable has after it.  A       *)
(* client in no podcast leaves everything as it is.                        *)

Others(c) == {d \in Clients : podcastOf[c] # None /\ d \in members[podcastOf[c]] \ {c}}

\* Mutant: an empty podcast stays in the map.
NeverDeleted(c) == {}

\* The podcast the client leaves empty, deleted with all it holds.
Deleted(c) == {p \in podcasts : p = podcastOf[c] /\ members[p] \subseteq {c}}

MembersLess(c) ==
  [p \in Podcasts |-> IF p = podcastOf[c] THEN members[p] \ {c} ELSE members[p]]

\* Mutant: the ready flag is not cleared.
ReadyKept(c) == ready

ReadyLess(c) ==
  [p \in Podcasts |-> IF p \in Deleted(c) THEN {}
                      ELSE IF p = podcastOf[c] THEN ready[p] \ {c} ELSE ready[p]]

HostLess(c) == [p \in Podcasts |-> IF p \in Deleted(c) THEN None ELSE host[p]]

\* Mutant: a deleted podcast's recording survives it.
RecordingKept(c) == recording

RecordingLess(c) == [p \in Podcasts |-> IF p \in Deleted(c) THEN None ELSE recording[p]]

\* Mutant: the others are not told.
RosterStale(c) == [roster EXCEPT ![c] = {}]

\* The others get user-left; the client itself, which asked to go, forgets.
RosterLess(c) ==
  [d \in Clients |-> IF d = c THEN {}
                     ELSE IF d \in Others(c) THEN roster[d] \ {c} ELSE roster[d]]
ToldLess(c) ==
  [d \in Clients |-> IF d = c THEN None
                     ELSE IF d \in Others(c) THEN recording[podcastOf[c]] ELSE toldRecording[d]]
PeerLess(c) ==
  [d \in Clients |-> IF d = c \/ (d \in Others(c) /\ peer[d] = c) THEN None ELSE peer[d]]
InitiatesLess(c) == [initiates EXCEPT ![c] = FALSE]

\* Mutant: podcast_left is not queued.
JournalsAsBefore(c) == {journal}

\* The journal with podcast_left in it, or not, if Redis refuses the event.
JournalsLess(c) ==
  Outcomes(journal, [journal EXCEPT !.inside = @ \ {<<c, podcastOf[c]>>}])

LeavePodcastInternal(c) ==
  /\ podcastOf' = [podcastOf EXCEPT ![c] = None]
  /\ podcasts' = podcasts \ Deleted(c)
  /\ members' = MembersLess(c)
  /\ ready' = ReadyLess(c)
  /\ host' = HostLess(c)
  /\ recording' = RecordingLess(c)
  /\ roster' = RosterLess(c)
  /\ toldRecording' = ToldLess(c)
  /\ peer' = PeerLess(c)
  /\ initiates' = InitiatesLess(c)

-----------------------------------------------------------------------------
(* The connection.                                                         *)

\* The token is valid, the upgrade succeeds, the client is registered.
Connect(c) ==
  /\ conn[c] = "new"
  /\ conn' = [conn EXCEPT ![c] = "greeting"]
  /\ UNCHANGED <<podcastOf, roomVars, ending, issued, redisVars, toldVars, journal>>

\* Outside the mutex: client_connected is queued and the welcome written.
Greet(c) ==
  /\ conn[c] = "greeting"
  /\ conn' = [conn EXCEPT ![c] = "serving"]
  /\ QueueEvent(journal, [journal EXCEPT !.connected = @ \cup {c}])
  /\ UNCHANGED <<podcastOf, roomVars, ending, issued, redisVars, toldVars>>

\* ReadJSON fails and the deferred removeClient runs.
Disconnect(c) ==
  /\ conn[c] = "serving"
  /\ conn' = [conn EXCEPT ![c] = "closed"]
  /\ LeavePodcastInternal(c)
  /\ \E left \in JournalsLess(c) : QueueEvent(left, [left EXCEPT !.connected = @ \ {c}])
  /\ UNCHANGED <<ending, issued, redisVars>>

-----------------------------------------------------------------------------
(* handleMessage.                                                          *)

LeavePodcast(c) ==
  /\ conn[c] = "serving"
  /\ podcastOf[c] # None
  /\ LeavePodcastInternal(c)
  /\ journal' \in JournalsLess(c)
  /\ UNCHANGED <<conn, ending, issued, redisVars>>

\* The client leaves its podcast before the server looks whether p has room.
JoinRefused(c, p) ==
  /\ conn[c] = "serving"
  /\ podcastOf[c] # p
  /\ p \in podcasts
  /\ Cardinality(members[p]) >= MaxClients
  /\ LeavePodcastInternal(c)
  /\ journal' \in JournalsLess(c)
  /\ UNCHANGED <<conn, ending, issued, redisVars>>

\* Whoever finds no podcast p creates it, and its user becomes the host.
JoinPodcast(c, p) ==
  LET created == p \notin podcasts
      with    == members[p] \cup {c}
  IN /\ conn[c] = "serving"
     /\ podcastOf[c] # p
     /\ created \/ Cardinality(members[p]) < MaxClients
     /\ podcastOf' = [podcastOf EXCEPT ![c] = p]
     /\ podcasts' = (podcasts \ Deleted(c)) \cup {p}
     /\ members' = [MembersLess(c) EXCEPT ![p] = with]
     /\ ready' = ReadyLess(c)
     /\ host' = IF created THEN [HostLess(c) EXCEPT ![p] = UserOf[c]] ELSE HostLess(c)
     /\ recording' = RecordingLess(c)
     /\ IF created THEN CreatePodcastSession(UserOf[c], p) ELSE UNCHANGED podcastSessions
     /\ roster' = [d \in Clients |-> IF d = c THEN members[p]
                                     ELSE IF d \in members[p] THEN roster[d] \cup {c}
                                     ELSE RosterLess(c)[d]]
     /\ toldRecording' = [d \in Clients |-> IF d \in with THEN recording[p] ELSE ToldLess(c)[d]]
     /\ peer' = PeerLess(c)
     /\ initiates' = InitiatesLess(c)
     /\ \E left \in JournalsLess(c) : QueueEvent(left, [left EXCEPT !.inside = @ \cup {<<c, p>>}])
     /\ UNCHANGED <<conn, ending, issued, recordings>>

\* Mutants: the test comes before c is marked ready; everyone makes the offer.
BothReadyBefore(p, c) == Cardinality(members[p]) = 2 /\ Cardinality(ready[p]) = 2
EveryoneInitiates(d, S) == TRUE

BothReady(p, c) == Cardinality(members[p]) = 2 /\ Cardinality(ready[p] \cup {c}) = 2
ShouldInitiate(d, S) == \A e \in S : d <= e

\* When both of exactly two members are ready the lower id is to initiate.
Ready(c) ==
  LET p    == podcastOf[c]
      both == BothReady(p, c)
  IN /\ conn[c] = "serving"
     /\ p \in podcasts
     /\ ready' = [ready EXCEPT ![p] = @ \cup {c}]
     /\ peer' = [d \in Clients |-> IF both /\ d \in members[p]
                                   THEN CHOOSE e \in members[p] : e # d ELSE peer[d]]
     /\ initiates' = [d \in Clients |-> IF both /\ d \in members[p]
                                        THEN ShouldInitiate(d, members[p]) ELSE initiates[d]]
     /\ UNCHANGED <<connVars, podcasts, members, host, recording, ending, issued, redisVars,
                    roster, toldRecording, journal>>

\* The participants are the users connected now; who joins later is not added.
StartRecording(c, r) ==
  LET p == podcastOf[c]
  IN /\ conn[c] = "serving"
     /\ p \in podcasts
     /\ host[p] = UserOf[c]
     /\ recording[p] = None
     /\ r \notin issued
     /\ issued' = issued \cup {r}
     /\ recording' = [recording EXCEPT ![p] = r]
     /\ CreateRecordingSession(r, UserOf[c], p, {UserOf[d] : d \in members[p]} \cup {UserOf[c]})
     /\ toldRecording' = [d \in Clients |-> IF d \in members[p] THEN r ELSE toldRecording[d]]
     /\ QueueEvent(journal, [journal EXCEPT !.recording = @ \cup {p}])
     /\ UNCHANGED <<connVars, podcasts, members, ready, host, ending, podcastSessions,
                    roster, peer, initiates>>

\* handleStopRecording as far as the GET of EndRecordingSession.
BeginStop(c) ==
  LET p == podcastOf[c]
  IN /\ conn[c] = "serving"
     /\ p \in podcasts
     /\ host[p] = UserOf[c]
     /\ recording[p] # None
     /\ \E read \in GetRecording(recording[p]) : ending' = [client |-> c, record |-> read]
     /\ UNCHANGED <<connVars, roomVars, issued, redisVars, toldVars, journal>>

\* From the SET on.  Memory was changed before the GET; nobody without the
\* mutex can tell.
StopRecording(c) ==
  LET p == podcastOf[c]
  IN /\ ending.client = c
     /\ ending' = NoStop
     /\ recording' = [recording EXCEPT ![p] = None]
     /\ EndRecordingSession(recording[p], ending.record)
     /\ toldRecording' = [d \in Clients |-> IF d \in members[p] THEN None ELSE toldRecording[d]]
     /\ QueueEvent(journal, [journal EXCEPT !.recording = @ \ {p}])
     /\ UNCHANGED <<connVars, podcasts, members, ready, host, issued, podcastSessions,
                    roster, peer, initiates>>

-----------------------------------------------------------------------------
(* Faults.  The server's maps die with its process; Redis runs without     *)
(* persistence, and a recording key lives for 24 hours.                    *)

Crash ==
  /\ "crash" \in Faults
  /\ \E c \in Clients : conn[c] \in {"greeting", "serving"}
  /\ conn' = [c \in Clients |-> IF conn[c] = "new" THEN "new" ELSE "closed"]
  /\ podcastOf' = [c \in Clients |-> None]
  /\ podcasts' = {}
  /\ members' = [p \in Podcasts |-> {}]
  /\ ready' = [p \in Podcasts |-> {}]
  /\ host' = [p \in Podcasts |-> None]
  /\ recording' = [p \in Podcasts |-> None]
  /\ ending' = NoStop
  /\ roster' = [c \in Clients |-> {}]
  /\ toldRecording' = [c \in Clients |-> None]
  /\ peer' = [c \in Clients |-> None]
  /\ initiates' = [c \in Clients |-> FALSE]
  /\ UNCHANGED <<issued, redisVars, journal>>

RedisRestart ==
  /\ "redis restart" \in Faults
  /\ podcastSessions # {} \/ \E r \in RecordingIDs : recordings[r] # NoRecord
  /\ recordings' = [r \in RecordingIDs |-> NoRecord]
  /\ podcastSessions' = {}
  /\ journal' = [connected |-> {}, inside |-> {}, recording |-> {}]
  /\ UNCHANGED <<connVars, roomVars, ending, issued, toldVars>>

RecordingExpires(r) ==
  /\ "expire" \in Faults
  /\ recordings[r] # NoRecord
  /\ recordings' = [recordings EXCEPT ![r] = NoRecord]
  /\ UNCHANGED <<connVars, roomVars, ending, issued, podcastSessions, toldVars, journal>>

-----------------------------------------------------------------------------
MutexFree == ending.client = None

ClientStep(c) ==
  \/ /\ MutexFree
     /\ \/ Connect(c)
        \/ Disconnect(c)
        \/ LeavePodcast(c)
        \/ \E p \in Podcasts : JoinRefused(c, p)
        \/ \E p \in Podcasts : JoinPodcast(c, p)
        \/ Ready(c)
        \/ \E r \in RecordingIDs : StartRecording(c, r)
        \/ BeginStop(c)
  \/ StopRecording(c)
  \/ Greet(c)

Fault ==
  \/ Crash
  \/ RedisRestart
  \/ \E r \in RecordingIDs : RecordingExpires(r)

Next == (\E c \in Clients : ClientStep(c)) \/ Fault

Spec == Init /\ [][Next]_vars

-----------------------------------------------------------------------------
(* Properties.                                                             *)

\* The two sides of membership, Client.PodcastID and Podcast.Clients, agree;
\* a podcast is in the server's map exactly while it has a client; it never
\* has more than MaxClients; and only its members count as ready, so that two
\* ready among two members means both.  A client that moves, is refused by a
\* full podcast or drops its connection must leave nothing behind.
MembershipAgrees ==
  /\ \A c \in Clients, p \in Podcasts : c \in members[p] <=> podcastOf[c] = p
  /\ \A c \in Clients : podcastOf[c] # None => conn[c] = "serving"
  /\ \A p \in Podcasts : p \in podcasts <=> members[p] # {}
  /\ \A p \in Podcasts : Cardinality(members[p]) <= MaxClients
  /\ \A p \in Podcasts : ready[p] \subseteq members[p]

\* What the messages written to a client in a podcast add up to is who is
\* with it and which recording runs: no handler forgets anyone it must tell.
ClientsAreTold ==
  \A c \in Clients : podcastOf[c] # None =>
    /\ roster[c] = members[podcastOf[c]] \ {c}
    /\ toldRecording[c] = recording[podcastOf[c]]

\* Whom a both-ready pairs stay two clients of one podcast, each the other's
\* target, and exactly one of them is to make the offer: no glare, no silence.
PairingAgrees ==
  \A c \in Clients : peer[c] # None =>
    /\ peer[c] # c
    /\ podcastOf[c] # None
    /\ podcastOf[peer[c]] = podcastOf[c]
    /\ peer[peer[c]] = c
    /\ initiates[peer[c]] # initiates[c]

\* The ready message that makes both of exactly two members ready pairs them.
ReadyPairs ==
  [][\A p \in Podcasts :
       /\ Cardinality(members'[p]) = 2
       /\ ready'[p] = members'[p]
       /\ ready'[p] \ ready[p] # {}
       => \A c \in members'[p] : {peer'[c]} = members'[p] \ {c}]_vars

\* A recording id is running in one podcast at most, and as long as it runs
\* there the record the upload service reads, if Redis took it and still has
\* it, is active and names that podcast and its host among the participants.
RecordAgrees ==
  /\ \A p, q \in Podcasts : recording[p] # None /\ recording[p] = recording[q] => p = q
  /\ \A p \in Podcasts : recording[p] # None =>
       LET record == recordings[recording[p]]
       IN record.status # "absent" =>
            /\ record.status = "active"
            /\ record.podcast = p
            /\ record.host = host[p]
            /\ host[p] \in record.participants

\* Once ended a record stays ended until it is gone, and a record once gone
\* (refused, expired, lost) does not run again: at most the stop of its own
\* recording, which had read it before, writes it back as ended.
RecordIsFinal ==
  [][\A r \in RecordingIDs :
       /\ recordings[r].status = "ended" => recordings'[r] \in {recordings[r], NoRecord}
       /\ recordings[r].status = "active" =>
            recordings'[r] \in {recordings[r], [recordings[r] EXCEPT !.status = "ended"], NoRecord}
       /\ r \in issued /\ recordings[r] = NoRecord /\ recordings'[r] # NoRecord =>
            /\ recordings'[r].status = "ended"
            /\ \E p \in Podcasts : /\ recordings'[r].podcast = p
                                  /\ recording[p] = r /\ recording'[p] # r]_vars

\* While Redis takes every command, a recording that is over in a podcast that
\* goes on is over in Redis too.
StopEndsRecord ==
  [][\A p \in Podcasts :
       recording[p] # None /\ recording'[p] # recording[p] /\ members'[p] # {}
       => recordings'[recording[p]].status # "active"]_vars

\* While Redis takes every command and keeps what it took, the host of an open
\* podcast has the podcast_session that lets its chunks through.
HostHasSession == \A p \in podcasts : <<host[p], p>> \in podcastSessions

\* While Redis takes every command and the server does not crash, the events
\* pushed replay to who is connected and who is in which podcast.
EventsReplay ==
  /\ {c \in Clients : conn[c] = "serving"} = journal.connected
  /\ {e \in Clients \X Podcasts : e[1] \in members[e[2]]} = journal.inside
  /\ {p \in Podcasts : recording[p] # None} \subseteq journal.recording

\* What the proofs add: a podcast not in the map holds nothing, one in the map
\* has a host, and an id that runs or has a record has been drawn.
Bookkeeping ==
  /\ \A p \in Podcasts \ podcasts : host[p] = None /\ recording[p] = None
  /\ \A p \in podcasts : host[p] \in Users
  /\ \A p \in Podcasts : recording[p] # None => recording[p] \in issued
  /\ \A r \in RecordingIDs : recordings[r] # NoRecord => r \in issued

\* A stop under way is of the host of a podcast that is recording, and what it
\* has read, if anything, is the record of that recording as long as it ran.
EndingAgrees ==
  MutexFree \/ LET p    == podcastOf[ending.client]
                   read == ending.record
               IN /\ p \in podcasts
                  /\ host[p] = UserOf[ending.client]
                  /\ recording[p] # None
                  /\ read.status # "absent" =>
                       /\ read.status = "active" /\ read.podcast = p
                       /\ recordings[recording[p]].status # "absent" => recordings[recording[p]] = read

\* The inductive invariant of the proofs: each of its parts needs the others.
SignalingInvariant ==
  /\ TypeOK /\ MembershipAgrees /\ Bookkeeping /\ ClientsAreTold /\ PairingAgrees
  /\ RecordAgrees /\ EndingAgrees

\* The handlers implement the abstract rooms.
Promise == INSTANCE Rooms WITH where <- podcastOf, Capacity <- MaxClients
ImplementsRooms == Promise!Spec
=============================================================================
