--------------------------- MODULE UploadSession ---------------------------
(***************************************************************************)
(* The upload service: the sessions its SessionManager keeps for each user *)
(* of a podcast, the requests for pre-signed URLs that fill them, and the  *)
(* goroutines that complete and delete them.                               *)
(*                                                                         *)
(* A method of SessionManager runs under its mutex and is one action.      *)
(* GetPreSignedURL holds no lock between its calls and is four: the        *)
(* permission check, the read of the chunk count, TrackChunk, the answer.  *)
(* A sleeping goroutine is counted and wakes in an action of its own: Go   *)
(* promises no order between two sleepers.                                 *)
(*                                                                         *)
(* Left out: requests without a recording, which track nothing; the        *)
(* handlers that only read; who takes part in a recording (the users here  *)
(* all do); and the session's RecordingID, which only a reply shows.       *)
(***************************************************************************)
EXTENDS Naturals, Sequences, FiniteSets

CONSTANTS
  Users,
  Podcasts,
  RecordingIDs,
  PodcastOf,     \* the podcast of a recording, the one its requests name
  UploadIDs,     \* the uuids StartUploadSession can draw
  Requests,      \* goroutines that may serve GetPreSignedURL
  AskedIndexes,  \* chunk_index values the requests carry
  MaxURLs,       \* bound: requests of a user for one recording
  Habits,        \* what clients may do, a subset of HabitKinds
  Faults,        \* the faults a behaviour may have, a subset of FaultKinds
  None

HabitKinds == {
  "overlap",      \* ask for a URL while another request is in flight
  "after final",  \* ask for one after the final chunk's: late or again
  "early next",   \* begin a recording before the last session is deleted
  "revoke"}
FaultKinds == {"refuse", "crash"}

ASSUME PodcastOfAssumption == PodcastOf \in [RecordingIDs -> Podcasts]
ASSUME IDsAssumption == RecordingIDs \cap UploadIDs = {}
ASSUME IndexAssumption == AskedIndexes \subseteq Nat
ASSUME BoundAssumption == MaxURLs \in Nat
ASSUME UploadNoneAssumption == None \notin Users \cup RecordingIDs \cup UploadIDs
ASSUME KindsAssumption == Habits \subseteq HabitKinds /\ Faults \subseteq FaultKinds

\* A session key is "<user>_<podcast>".
Keys == Users \X Podcasts

VARIABLES
  recordings,  \* what recording:<id> in Redis says now
  requests,    \* the requests being served
  handed,      \* the answers a user has had for a recording, in order
  sessions,    \* SessionManager.sessions
  drawn,       \* the upload ids drawn so far
  monitors,    \* monitorGracePeriod goroutines asleep, for each key
  cleaners,    \* the goroutines it starts to delete a session, asleep
  queue        \* every recording_complete event pushed to Redis' "queue"

vars == <<recordings, requests, handed, sessions, drawn, monitors, cleaners, queue>>

SessionIDs == RecordingIDs \cup UploadIDs
Chunk == [recording : RecordingIDs, index : Nat, final : BOOLEAN]
\* CreateSession leaves State empty; "absent" is a key the map does not have.
OpenSession == [id : SessionIDs, complete : BOOLEAN, chunks : Seq(Chunk),
                state : {"", "started", "finalizing", "completed", "revoked"}]
NoSession == [id |-> None, state |-> "absent", complete |-> FALSE, chunks |-> <<>>]

Request == [step : {"permitted", "indexed", "tracked"}, user : Users, recording : RecordingIDs,
            final : BOOLEAN, index : Nat]
NoRequest == [step |-> "idle", user |-> None, recording |-> None, final |-> FALSE, index |-> 0]

Event == [user : Users, session : SessionIDs, recording : RecordingIDs, total : Nat]

TypeOK ==
  /\ recordings \in [RecordingIDs -> {"absent", "active", "grace", "over"}]
  /\ requests \in [Requests -> Request \cup {NoRequest}]
  /\ handed \in [Users \X RecordingIDs -> Seq([index : Nat, final : BOOLEAN])]
  /\ sessions \in [Keys -> OpenSession \cup {NoSession}]
  /\ drawn \subseteq UploadIDs
  /\ monitors \in [Keys -> Nat]
  /\ cleaners \in [Keys -> Nat]
  /\ queue \subseteq Event

Init ==
  /\ recordings = [r \in RecordingIDs |-> "absent"]
  /\ requests = [q \in Requests |-> NoRequest]
  /\ handed = [ur \in Users \X RecordingIDs |-> <<>>]
  /\ sessions = [k \in Keys |-> NoSession]
  /\ drawn = {}
  /\ monitors = [k \in Keys |-> 0]
  /\ cleaners = [k \in Keys |-> 0]
  /\ queue = {}

-----------------------------------------------------------------------------
(* The signaling server's side: it starts and ends recordings; an ended    *)
(* one is within its grace period until eleven seconds have passed.        *)

Turn(r, from, to) ==
  /\ recordings[r] = from
  /\ recordings' = [recordings EXCEPT ![r] = to]
  /\ UNCHANGED <<requests, handed, sessions, drawn, monitors, cleaners, queue>>

RecordingStarts(r) == Turn(r, "absent", "active")
RecordingEnds(r) == Turn(r, "active", "grace")
GraceEnds(r) == Turn(r, "grace", "over")

\* isRecordingValid
IsRecordingValid(r, final) ==
  recordings[r] = "active" \/ (final /\ recordings[r] = "grace")

-----------------------------------------------------------------------------
(* What the clients may do.                                                *)

KeyOf(u, r) == <<u, PodcastOf[r]>>
Asking(u, r) == {q \in Requests : requests[q].user = u /\ requests[q].recording = r}
HasFinal(u, r) == \E i \in DOMAIN handed[<<u, r>>] : handed[<<u, r>>][i].final

ClientAsks(u, r) ==
  /\ Len(handed[<<u, r>>]) + Cardinality(Asking(u, r)) < MaxURLs
  /\ "overlap" \in Habits
       \/ \A s \in RecordingIDs : PodcastOf[s] = PodcastOf[r] => Asking(u, s) = {}
  /\ "after final" \in Habits \/ ~HasFinal(u, r)
  /\ "early next" \in Habits
       \/ \A i \in DOMAIN sessions[KeyOf(u, r)].chunks :
            sessions[KeyOf(u, r)].chunks[i].recording = r

-----------------------------------------------------------------------------
(* GetPreSignedURL                                                         *)

Permit(q, u, r, final, asked) ==
  /\ requests[q].step = "idle"
  /\ ClientAsks(u, r)
  /\ IsRecordingValid(r, final)
  /\ requests' = [requests EXCEPT ![q] = [step |-> "permitted", user |-> u,
                    recording |-> r, final |-> final, index |-> asked]]
  /\ UNCHANGED <<recordings, handed, sessions, drawn, monitors, cleaners, queue>>

\* Mutant: the index of the last chunk, not of the next.
LastIndex(asked, s) == IF asked = 0 THEN Len(s.chunks) - 1 ELSE asked

\* A request that asks for index 0 gets the number of chunks so far.
ActualIndex(asked, s) == IF asked = 0 THEN Len(s.chunks) ELSE asked

ReadIndex(q) ==
  /\ requests[q].step = "permitted"
  /\ requests' = [requests EXCEPT ![q].step = "indexed",
                    ![q].index = ActualIndex(@, sessions[KeyOf(requests[q].user, requests[q].recording)])]
  /\ UNCHANGED <<recordings, handed, sessions, drawn, monitors, cleaners, queue>>

\* PresignPutObject fails: the request ends with an error.
PresignFails(q) ==
  /\ requests[q].step = "indexed"
  /\ requests' = [requests EXCEPT ![q] = NoRequest]
  /\ UNCHANGED <<recordings, handed, sessions, drawn, monitors, cleaners, queue>>

-----------------------------------------------------------------------------
(* TrackChunk and notifyRecordingComplete                                  *)

\* Mutant: a session takes the name of every recording it gets a chunk of.
Renamed(s, r) ==
  [s EXCEPT !.id = r, !.state = IF @ = "absent" THEN "started" ELSE @]

\* The session a chunk goes to, created if the key has none.
Opened(s, r) ==
  IF s.state = "absent"
  THEN [id |-> r, state |-> "started", complete |-> FALSE, chunks |-> <<>>]
  ELSE s

\* Mutants: a session that is finalizing, or revoked, takes any chunk.
RejectsRevoked(s, final) == s.state = "revoked"
RejectsFinalizing(s, final) == s.state = "finalizing" /\ ~final

Rejects(s, final) == s.state = "revoked" \/ (s.state = "finalizing" /\ ~final)

\* Mutant: IsComplete says whether this chunk was the final one.
CompleteIfLast(s, chunk) ==
  [s EXCEPT !.chunks = Append(@, chunk), !.complete = chunk.final,
            !.state = IF chunk.final THEN "finalizing" ELSE @]

Tracked(s, chunk) ==
  [s EXCEPT !.chunks = Append(@, chunk), !.complete = @ \/ chunk.final,
            !.state = IF chunk.final THEN "finalizing" ELSE @]

\* Mutants: the last chunk names the recording; the final chunk is not counted.
EventOfLast(u, s) ==
  [user |-> u, session |-> s.id, recording |-> s.chunks[Len(s.chunks)].recording,
   total |-> Len(s.chunks)]
EventBefore(u, s) ==
  [user |-> u, session |-> s.id, recording |-> s.chunks[1].recording,
   total |-> Len(s.chunks) - 1]

EventOf(u, s) ==
  [user |-> u, session |-> s.id, recording |-> s.chunks[1].recording,
   total |-> Len(s.chunks)]

\* A push Redis refuses is logged and forgotten.
NotifyRecordingComplete(u, s) ==
  LET pushed == queue \cup {EventOf(u, s)}
  IN  queue' \in IF "refuse" \in Faults THEN {queue, pushed} ELSE {pushed}

TrackChunk(q) ==
  LET request == requests[q]
      key == KeyOf(request.user, request.recording)
      session == Opened(sessions[key], request.recording)
      chunk == [recording |-> request.recording, index |-> request.index,
                final |-> request.final]
      tracked == Tracked(session, chunk)
  IN  /\ request.step = "indexed"
      /\ requests' = [requests EXCEPT ![q].step = "tracked"]
      /\ \/ /\ Rejects(session, request.final)
            /\ UNCHANGED <<sessions, monitors, queue>>
         \/ /\ ~Rejects(session, request.final)
            /\ sessions' = [sessions EXCEPT ![key] = tracked]
            /\ IF request.final
               THEN /\ monitors' = [monitors EXCEPT ![key] = @ + 1]
                    /\ NotifyRecordingComplete(request.user, tracked)
               ELSE UNCHANGED <<monitors, queue>>
      /\ UNCHANGED <<recordings, handed, drawn, cleaners>>

\* The user gets the URL, with the index it is for; also when its chunk was
\* not tracked.
Answer(q) ==
  LET request == requests[q] IN
    /\ request.step = "tracked"
    /\ handed' = [handed EXCEPT ![<<request.user, request.recording>>] =
                    Append(@, [index |-> request.index, final |-> request.final])]
    /\ requests' = [requests EXCEPT ![q] = NoRequest]
    /\ UNCHANGED <<recordings, sessions, drawn, monitors, cleaners, queue>>

-----------------------------------------------------------------------------
(* StartUploadSession and RevokeUploadSession.  The recording is optional  *)
(* when a session is started.                                              *)

StartUploadSession(u, p, id) ==
  /\ id \notin drawn
  /\ drawn' = drawn \cup {id}
  /\ sessions[<<u, p>>].state = "absent"
  /\ sessions' = [sessions EXCEPT ![<<u, p>>] = [id |-> id, state |-> "",
                                       complete |-> FALSE, chunks |-> <<>>]]
  /\ UNCHANGED <<recordings, requests, handed, monitors, cleaners, queue>>

RevokeSession(k) ==
  /\ "revoke" \in Habits
  /\ sessions[k].state \notin {"absent", "completed"}
  /\ sessions' = [sessions EXCEPT ![k].state = "revoked"]
  /\ UNCHANGED <<recordings, requests, handed, drawn, monitors, cleaners, queue>>

-----------------------------------------------------------------------------
(* The goroutines that wake.                                               *)

\* Mutant: no deletion is arranged.
NoneArranged(k) == cleaners

Ends(k) == sessions[k].state = "finalizing"
Arranged(k) == [cleaners EXCEPT ![k] = @ + 1]

MonitorGracePeriod(k) ==
  /\ monitors[k] > 0
  /\ monitors' = [monitors EXCEPT ![k] = @ - 1]
  /\ \/ /\ Ends(k)
        /\ sessions' = [sessions EXCEPT ![k].state = "completed"]
        /\ cleaners' = Arranged(k)
     \/ /\ ~Ends(k)
        /\ UNCHANGED <<sessions, cleaners>>
  /\ UNCHANGED <<recordings, requests, handed, drawn, queue>>

\* Mutant: the goroutine wakes and deletes nothing.
Kept(k) == sessions

\* Whatever session the key has by now is deleted.
Without(k) == [sessions EXCEPT ![k] = NoSession]

CleanUp(k) ==
  /\ cleaners[k] > 0
  /\ cleaners' = [cleaners EXCEPT ![k] = @ - 1]
  /\ sessions' = Without(k)
  /\ UNCHANGED <<recordings, requests, handed, drawn, monitors, queue>>

\* The service stops: sessions, sleepers and requests are lost, and with a
\* request its answer, though its chunk may have been tracked and announced.
Crash ==
  /\ "crash" \in Faults
  /\ requests' = [q \in Requests |-> NoRequest]
  /\ sessions' = [k \in Keys |-> NoSession]
  /\ monitors' = [k \in Keys |-> 0]
  /\ cleaners' = [k \in Keys |-> 0]
  /\ UNCHANGED <<recordings, handed, drawn, queue>>

-----------------------------------------------------------------------------

Next ==
  \/ \E r \in RecordingIDs : RecordingStarts(r) \/ RecordingEnds(r) \/ GraceEnds(r)
  \/ \E q \in Requests, u \in Users, r \in RecordingIDs, final \in BOOLEAN,
        asked \in AskedIndexes : Permit(q, u, r, final, asked)
  \/ \E q \in Requests : ReadIndex(q) \/ PresignFails(q) \/ TrackChunk(q) \/ Answer(q)
  \/ \E u \in Users, p \in Podcasts, id \in UploadIDs : StartUploadSession(u, p, id)
  \/ \E k \in Keys : RevokeSession(k) \/ MonitorGracePeriod(k) \/ CleanUp(k)
  \/ Crash

Spec == Init /\ [][Next]_vars

\* Every goroutine that sleeps wakes and gets the mutex; nothing is assumed
\* of clients, of recordings or of requests.
Fairness == \A k \in Keys : WF_vars(MonitorGracePeriod(k)) /\ WF_vars(CleanUp(k))

FairSpec == Spec /\ Fairness

-----------------------------------------------------------------------------
(* Properties                                                              *)

\* IsComplete, which GetUploadStatus reports as "completed", is set exactly
\* when a final chunk was tracked; a session is finalizing or completed only
\* then.  (Chunks tracked after completion, retried finals, revocation.)
CompleteIsFinal ==
  \A k \in Keys : LET s == sessions[k] IN
    /\ s.complete <=> \E i \in DOMAIN s.chunks : s.chunks[i].final
    /\ s.state \in {"finalizing", "completed"} => s.complete

\* Nothing slips in during the grace period: the last chunk of a session
\* that is finalizing is a final one, so what was announced is all there is.
\* (TrackChunk refuses other chunks, also those permitted long before.)
GraceIsQuiet ==
  \A k \in Keys : LET s == sessions[k] IN
    s.state = "finalizing" => s.chunks # <<>> /\ s.chunks[Len(s.chunks)].final

\* Every final chunk of a session has its event in the queue, with the count
\* of chunks up to it, also when it is the second and when the session was
\* completed in between.  (Redis accepting; TrackChunk notifies in the lock.)
FinalIsAnnounced ==
  \A k \in Keys : LET s == sessions[k] IN
    \A i \in DOMAIN s.chunks : s.chunks[i].final =>
      [user |-> k[1], session |-> s.id, recording |-> s.chunks[1].recording, total |-> i] \in queue

\* Two events with the same user and session are of the same recording: the
\* video processor, which knows a job by that pair and skips it the second
\* time, never takes one recording for another, though session ids are
\* reused after a deletion or a crash and recordings share a session.
OneRecordingPerJob ==
  \A n \in queue, m \in queue :
    n.user = m.user /\ n.session = m.session => n.recording = m.recording

\* A session that is finalizing has a goroutine that will complete it, and
\* one that is completed has a goroutine that will delete it, whatever other
\* sessions of the key these were started for.
SomeoneWillEndIt ==
  \A k \in Keys :
    /\ sessions[k].state = "finalizing" => monitors[k] > 0
    /\ sessions[k].state = "completed" => cleaners[k] > 0

\* The parts of the next invariant: of a session s of key k, of a session and
\* an event n, and of an event; ids are the upload ids drawn.
NamedAsBegun(k, s, ids) ==
  s.state # "absent" =>
    /\ \A i \in DOMAIN s.chunks : PodcastOf[s.chunks[i].recording] = k[2]
    /\ s.id \in RecordingIDs => s.chunks # <<>> /\ s.chunks[1].recording = s.id
    /\ s.id \notin RecordingIDs => s.id \in ids
Matches(s, n, ids) ==
  n.session = s.id /\ s.id \in ids =>
    s.chunks # <<>> /\ s.chunks[1].recording = n.recording
EventNamed(n, ids) ==
  IF n.session \in RecordingIDs THEN n.recording = n.session ELSE n.session \in ids

\* Why jobs do not mix: a session holds chunks of its own podcast, and one
\* named by a recording began with a chunk of it; a drawn id names one
\* session at a time; an event names the recording its session began with.
NamesAgree ==
  /\ \A k \in Keys : NamedAsBegun(k, sessions[k], drawn)
  /\ \A j \in Keys, k \in Keys :
       sessions[j].id = sessions[k].id /\ sessions[k].id \in drawn => j = k
  /\ \A k \in Keys, n \in queue : Matches(sessions[k], n, drawn)
  /\ \A n \in queue : EventNamed(n, drawn)

\* What the proofs show inductive, beside the types.
UploadInvariant ==
  CompleteIsFinal /\ GraceIsQuiet /\ OneRecordingPerJob /\ SomeoneWillEndIt /\ NamesAgree

\* A revoked session stays as it is until it is deleted, and nothing of it is
\* announced: no request already permitted, no grace period that ends and no
\* retried final chunk revives it.
RevokedStays ==
  [][/\ \A k \in Keys : sessions[k].state = "revoked" => sessions'[k] \in {sessions[k], NoSession}
     /\ \A n \in queue' \ queue : sessions[KeyOf(n.user, n.recording)].state # "revoked"]_vars

\* The chunks a user has cut of a recording: the URLs it was answered and the
\* one on its way (its client waits for each before it asks for the next).
ChunksCut(u, r) ==
  Len(handed[<<u, r>>])
    + IF \E q \in Asking(u, r) : requests[q].step = "tracked" THEN 1 ELSE 0

\* With clients that ask for one URL at a time, stop after the final chunk,
\* let a session end before the next recording and send index 0 every time,
\* an event counts all the chunks its user has cut of the recording, from the
\* push on, before the final URL is answered, and the answered indexes are
\* 0, 1, 2, ...: what was uploaded sorts as it was cut.
AnnouncesWhole ==
  \A n \in queue : LET given == handed[<<n.user, n.recording>>] IN
    /\ n.total = ChunksCut(n.user, n.recording)
    /\ \A i \in DOMAIN given : given[i].index = i - 1

\* A session whose final chunk came is gone in the end, unless revoked.
SessionsEnd ==
  \A k \in Keys : sessions[k].state \in {"finalizing", "completed"}
                    ~> sessions[k].state \in {"absent", "revoked"}

\* The comment on RecordingCompleteData: it is sent when the upload service
\* finishes a recording.  One whose final chunk was tracked has its event.
FinishedIsAnnounced ==
  \A k \in Keys : LET s == sessions[k] IN
    \A i \in DOMAIN s.chunks : s.chunks[i].final =>
      \E n \in queue : n.user = k[1] /\ n.recording = s.chunks[i].recording
=============================================================================
