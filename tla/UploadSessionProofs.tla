------------------------ MODULE UploadSessionProofs ------------------------
(***************************************************************************)
(* Proofs about UploadSession, for every set of users, podcasts,           *)
(* recordings, upload ids and requests, and every habit of the clients.    *)
(***************************************************************************)
EXTENDS UploadSession, SequenceTheorems, FiniteSetTheorems, TLAPS

-----------------------------------------------------------------------------
(* What TrackChunk does, for the proofs that follow: a chunk comes to the  *)
(* session of its key, which refuses it or takes it.                       *)

Takes(k, s, chunk) ==
  /\ ~Rejects(s, chunk.final)
  /\ sessions' = [sessions EXCEPT ![k] = Tracked(s, chunk)]
  /\ IF chunk.final
     THEN /\ monitors' = [monitors EXCEPT ![k] = @ + 1]
          /\ NotifyRecordingComplete(k[1], Tracked(s, chunk))
     ELSE UNCHANGED <<monitors, queue>>

LEMMA TrackIsTake ==
  ASSUME TypeOK, NEW q \in Requests, TrackChunk(q)
  PROVE  /\ UNCHANGED <<recordings, handed, drawn, cleaners>>
         /\ requests' = [requests EXCEPT ![q].step = "tracked"]
         /\ [requests[q] EXCEPT !.step = "tracked"] \in Request
         /\ \/ UNCHANGED <<sessions, monitors, queue>>
            \/ \E k \in Keys, chunk \in Chunk :
                 /\ k[2] = PodcastOf[chunk.recording]
                 /\ Takes(k, Opened(sessions[k], chunk.recording), chunk)
<1> DEFINE request == requests[q]
           k == KeyOf(request.user, request.recording)
           chunk == [recording |-> request.recording, index |-> request.index,
                     final |-> request.final]
           s == Opened(sessions[k], request.recording)
<1>1. request \in Request
  BY DEF TypeOK, TrackChunk, NoRequest
<1>2. /\ k \in Keys /\ chunk \in Chunk /\ k[1] = request.user
      /\ k[2] = PodcastOf[request.recording]
  BY <1>1, PodcastOfAssumption DEF Request, Chunk, Keys, KeyOf
<1>3. [request EXCEPT !.step = "tracked"] \in Request
  BY <1>1 DEF Request
<1>4. \/ UNCHANGED <<sessions, monitors, queue>>
      \/ Takes(k, Opened(sessions[k], chunk.recording), chunk)
  BY <1>2 DEF TrackChunk, Takes
<1> QED BY <1>2, <1>3, <1>4 DEF TrackChunk

\* Appending to a sequence.
LEMMA AppendIs ==
  ASSUME NEW S, NEW c \in Seq(S), NEW x \in S
  PROVE  /\ Append(c, x) \in Seq(S) /\ Append(c, x) # <<>>
         /\ Len(c) \in Nat /\ Len(Append(c, x)) = Len(c) + 1
         /\ DOMAIN c = 1..Len(c) /\ DOMAIN Append(c, x) = 1..(Len(c) + 1)
         /\ Append(c, x)[Len(c) + 1] = x
         /\ (\A i \in 1..Len(c) : c[i] \in S /\ Append(c, x)[i] = c[i])
         /\ Append(c, x)[1] \in S /\ Append(c, x)[1] = IF c = <<>> THEN x ELSE c[1]
<1> DEFINE d == Append(c, x)
<1>1. /\ d \in Seq(S) /\ d # <<>> /\ Len(d) = Len(c) + 1 /\ d[Len(c) + 1] = x
      /\ (\A i \in 1..Len(c) : d[i] = c[i])
  BY AppendProperties
<1>2. Len(c) \in Nat /\ DOMAIN c = 1..Len(c) /\ DOMAIN d = 1..Len(d)
  BY <1>1, LenProperties
<1>3. d[1] \in S /\ (\A i \in 1..Len(c) : c[i] \in S)
  BY <1>1, <1>2, ElementOfSeq
<1>4. d[1] = IF c = <<>> THEN x ELSE c[1]
  <2>1. CASE c = <<>>
    BY <1>1, <2>1
  <2>2. CASE c # <<>>
    <3>1. 1 \in 1..Len(c)
      BY <1>2, <2>2, EmptySeq
    <3> QED BY <1>1, <2>2, <3>1
  <2> QED BY <2>1, <2>2
<1> QED BY <1>1, <1>2, <1>3, <1>4

\* What an answer adds.
LEMMA AnswerIs ==
  ASSUME TypeOK, NEW q \in Requests, Answer(q),
         NEW f, f = <<requests[q].user, requests[q].recording>>,
         NEW given, given = [index |-> requests[q].index, final |-> requests[q].final]
  PROVE  /\ requests[q] \in Request /\ f \in Users \X RecordingIDs
         /\ given \in [index : Nat, final : BOOLEAN]
         /\ handed' = [handed EXCEPT ![f] = Append(@, given)]
         /\ handed' \in [Users \X RecordingIDs -> Seq([index : Nat, final : BOOLEAN])]
<1>1. requests[q] \in Request
  BY DEF TypeOK, Answer, NoRequest
<1>2. f \in Users \X RecordingIDs /\ given \in [index : Nat, final : BOOLEAN]
  BY <1>1 DEF Request
<1>3. handed' = [handed EXCEPT ![f] = Append(@, given)]
  BY DEF Answer
<1>4. Append(handed[f], given) \in Seq([index : Nat, final : BOOLEAN])
  BY <1>2 DEF TypeOK
<1> QED BY <1>1, <1>2, <1>3, <1>4 DEF TypeOK

\* The session a chunk goes to is open.
LEMMA OpenedType ==
  ASSUME TypeOK, NEW k \in Keys, NEW r \in RecordingIDs
  PROVE  Opened(sessions[k], r) \in OpenSession
<1>1. CASE sessions[k].state = "absent"
  <2>1. [id |-> r, state |-> "started", complete |-> FALSE, chunks |-> <<>>] \in OpenSession
    BY DEF OpenSession, SessionIDs
  <2> QED BY <1>1, <2>1 DEF Opened
<1>2. CASE sessions[k].state # "absent"
  <2>1. sessions[k] \in OpenSession
    BY <1>2 DEF TypeOK, NoSession
  <2> QED BY <1>2, <2>1 DEF Opened
<1> QED BY <1>1, <1>2

\* What a session becomes with a chunk more, and the event of it.
LEMMA TrackedIs ==
  ASSUME NEW s \in OpenSession, NEW chunk \in Chunk, NEW u \in Users,
         NEW t, t = Tracked(s, chunk)
  PROVE  /\ t \in OpenSession /\ t.id = s.id /\ t.chunks = Append(s.chunks, chunk)
         /\ t.state = IF chunk.final THEN "finalizing" ELSE s.state
         /\ t.complete <=> s.complete \/ chunk.final
         /\ Len(s.chunks) \in Nat /\ Len(t.chunks) = Len(s.chunks) + 1
         /\ t.chunks[Len(t.chunks)] = chunk
         /\ (\A i \in 1..Len(s.chunks) : t.chunks[i] = s.chunks[i])
         /\ t.chunks[1] \in Chunk /\ t.chunks # <<>>
         /\ t.chunks[1] = (IF s.chunks = <<>> THEN chunk ELSE s.chunks[1])
         /\ DOMAIN s.chunks = 1..Len(s.chunks) /\ DOMAIN t.chunks = 1..Len(t.chunks)
         /\ EventOf(u, t) \in Event
<1> DEFINE added == Append(s.chunks, chunk)
           whole == s.complete \/ chunk.final
           after == IF chunk.final THEN "finalizing" ELSE s.state
<1>1. s.chunks \in Seq(Chunk) /\ s.id \in SessionIDs /\ s.complete \in BOOLEAN
      /\ s.state \in {"", "started", "finalizing", "completed", "revoked"}
  BY DEF OpenSession
<1>2. added \in Seq(Chunk) /\ Len(s.chunks) \in Nat /\ Len(added) = Len(s.chunks) + 1
      /\ added[Len(added)] = chunk /\ (\A i \in 1..Len(s.chunks) : added[i] = s.chunks[i])
      /\ added[1] \in Chunk /\ added # <<>>
      /\ added[1] = (IF s.chunks = <<>> THEN chunk ELSE s.chunks[1])
      /\ DOMAIN s.chunks = 1..Len(s.chunks) /\ DOMAIN added = 1..Len(added)
  <2> DEFINE c == s.chunks
  <2>1. c \in Seq(Chunk) /\ chunk \in Chunk
    BY <1>1
  <2> HIDE DEF c
  <2>2. /\ Append(c, chunk) \in Seq(Chunk) /\ Append(c, chunk) # <<>>
        /\ Len(c) \in Nat /\ Len(Append(c, chunk)) = Len(c) + 1
        /\ DOMAIN c = 1..Len(c) /\ DOMAIN Append(c, chunk) = 1..(Len(c) + 1)
        /\ Append(c, chunk)[Len(c) + 1] = chunk
        /\ (\A i \in 1..Len(c) : Append(c, chunk)[i] = c[i])
        /\ Append(c, chunk)[1] \in Chunk
        /\ Append(c, chunk)[1] = IF c = <<>> THEN chunk ELSE c[1]
    BY <2>1, AppendIs
  <2> QED BY <2>2 DEF c
<1>3. whole \in BOOLEAN /\ after \in {"", "started", "finalizing", "completed", "revoked"}
  BY <1>1
<1>4. t = [[[s EXCEPT !.chunks = added] EXCEPT !.complete = whole] EXCEPT !.state = after]
  BY DEF Tracked
<1> HIDE DEF added, whole, after
<1>5. t \in OpenSession /\ t.id = s.id /\ t.chunks = added /\ t.state = after /\ t.complete = whole
  BY <1>2, <1>3, <1>4 DEF OpenSession
<1>6. EventOf(u, t) \in Event
  <2>1. t.chunks[1].recording \in RecordingIDs
    BY <1>2, <1>5 DEF Chunk
  <2>2. Len(t.chunks) \in Nat
    BY <1>2, <1>5
  <2> QED BY <1>1, <1>5, <2>1, <2>2 DEF EventOf, Event
<1> QED BY <1>2, <1>5, <1>6 DEF added, whole, after

-----------------------------------------------------------------------------
(* Types.                                                                  *)

LEMMA UploadTypeStep ==
  ASSUME TypeOK, [Next]_vars
  PROVE  TypeOK'
<1>1. ASSUME NEW r \in RecordingIDs, RecordingStarts(r) \/ RecordingEnds(r) \/ GraceEnds(r)
      PROVE  TypeOK'
  BY <1>1 DEF RecordingStarts, RecordingEnds, GraceEnds, Turn, TypeOK
<1>2. ASSUME NEW q \in Requests, NEW u \in Users, NEW r \in RecordingIDs, NEW final \in BOOLEAN,
             NEW asked \in AskedIndexes, Permit(q, u, r, final, asked)
      PROVE  TypeOK'
  <2>1. [step |-> "permitted", user |-> u, recording |-> r, final |-> final, index |-> asked] \in Request
    BY IndexAssumption DEF Request
  <2> QED BY <1>2, <2>1 DEF Permit, TypeOK
<1>3. ASSUME NEW q \in Requests, ReadIndex(q) PROVE TypeOK'
  <2> DEFINE request == requests[q]
             k == KeyOf(request.user, request.recording)
  <2>1. request \in Request
    BY <1>3 DEF ReadIndex, TypeOK, NoRequest
  <2>2. k \in Keys
    BY <2>1, PodcastOfAssumption DEF Request, KeyOf, Keys
  <2>3. ActualIndex(request.index, sessions[k]) \in Nat
    <3>1. sessions[k].chunks \in Seq(Chunk)
      <4>1. <<>> \in Seq(Chunk)
        OBVIOUS
      <4>2. sessions[k] \in OpenSession \/ sessions[k] = NoSession
        BY <2>2 DEF TypeOK
      <4>3. CASE sessions[k] \in OpenSession
        BY <4>3 DEF OpenSession
      <4>4. CASE sessions[k] = NoSession
        <5>1. NoSession.chunks = <<>>
          BY DEF NoSession
        <5> QED BY <4>1, <4>4, <5>1
      <4> QED BY <4>2, <4>3, <4>4
    <3>2. Len(sessions[k].chunks) \in Nat
      BY <3>1
    <3> QED BY <2>1, <3>2 DEF ActualIndex, Request
  <2>4. [request EXCEPT !.step = "indexed", !.index = ActualIndex(@, sessions[k])] \in Request
    BY <2>1, <2>3 DEF Request
  <2>5. requests' = [requests EXCEPT ![q] =
                       [request EXCEPT !.step = "indexed", !.index = ActualIndex(@, sessions[k])]]
    BY <1>3 DEF ReadIndex, TypeOK
  <2> QED BY <1>3, <2>4, <2>5 DEF ReadIndex, TypeOK
<1>4. ASSUME NEW q \in Requests, PresignFails(q) PROVE TypeOK'
  BY <1>4 DEF PresignFails, TypeOK
<1>5. ASSUME NEW q \in Requests, TrackChunk(q) PROVE TypeOK'
  <2>1. /\ UNCHANGED <<recordings, handed, drawn, cleaners>>
        /\ requests' \in [Requests -> Request \cup {NoRequest}]
    BY <1>5, TrackIsTake DEF TypeOK
  <2>2. CASE UNCHANGED <<sessions, monitors, queue>>
    BY <2>1, <2>2 DEF TypeOK
  <2>3. ASSUME NEW k \in Keys, NEW chunk \in Chunk,
               Takes(k, Opened(sessions[k], chunk.recording), chunk)
        PROVE  TypeOK'
    <3> DEFINE t == Tracked(Opened(sessions[k], chunk.recording), chunk)
    <3>1. t \in OpenSession /\ EventOf(k[1], t) \in Event
      <4>1. Opened(sessions[k], chunk.recording) \in OpenSession /\ k[1] \in Users
        BY OpenedType DEF Chunk, Keys
      <4> QED BY <4>1, TrackedIs
    <3>2. sessions' \in [Keys -> OpenSession \cup {NoSession}]
      BY <2>3, <3>1 DEF Takes, TypeOK
    <3>3. monitors' \in [Keys -> Nat]
      <4>1. monitors[k] + 1 \in Nat
        BY DEF TypeOK
      <4>2. monitors' \in {monitors, [monitors EXCEPT ![k] = monitors[k] + 1]}
        BY <2>3 DEF Takes
      <4> QED BY <4>1, <4>2 DEF TypeOK
    <3>4. queue' \subseteq Event
      <4>1. queue' \in {queue, queue \cup {EventOf(k[1], t)}}
        BY <2>3 DEF Takes, NotifyRecordingComplete
      <4> QED BY <3>1, <4>1 DEF TypeOK
    <3> QED BY <2>1, <3>2, <3>3, <3>4 DEF TypeOK
  <2> QED BY <1>5, <2>2, <2>3, TrackIsTake
<1>6. ASSUME NEW u \in Users, NEW p \in Podcasts, NEW id \in UploadIDs, StartUploadSession(u, p, id)
      PROVE  TypeOK'
  <2>1. [id |-> id, state |-> "", complete |-> FALSE, chunks |-> <<>>] \in OpenSession
    BY DEF OpenSession, SessionIDs
  <2>2. <<u, p>> \in Keys
    BY DEF Keys
  <2> QED BY <1>6, <2>1, <2>2 DEF StartUploadSession, TypeOK
<1>7. ASSUME NEW k \in Keys, RevokeSession(k) \/ MonitorGracePeriod(k) PROVE TypeOK'
  <2>1. CASE RevokeSession(k)
    <3>1. sessions[k] \in OpenSession
      BY <2>1 DEF RevokeSession, TypeOK, NoSession
    <3>2. [sessions[k] EXCEPT !.state = "revoked"] \in OpenSession
      BY <3>1 DEF OpenSession
    <3>3. sessions' \in [Keys -> OpenSession \cup {NoSession}]
      BY <2>1, <3>2 DEF RevokeSession, TypeOK
    <3> QED BY <2>1, <3>3 DEF RevokeSession, TypeOK
  <2>2. CASE MonitorGracePeriod(k)
    <3>1. monitors' \in [Keys -> Nat] /\ cleaners' \in [Keys -> Nat]
      BY <2>2 DEF MonitorGracePeriod, Arranged, TypeOK
    <3>2. sessions' \in [Keys -> OpenSession \cup {NoSession}]
      <4>1. CASE Ends(k)
        <5>1. sessions[k] \in OpenSession
          BY <4>1 DEF Ends, TypeOK, NoSession
        <5>2. [sessions[k] EXCEPT !.state = "completed"] \in OpenSession
          BY <5>1 DEF OpenSession
        <5> QED BY <2>2, <4>1, <5>2 DEF MonitorGracePeriod, TypeOK
      <4>2. CASE ~Ends(k)
        BY <2>2, <4>2 DEF MonitorGracePeriod, TypeOK
      <4> QED BY <4>1, <4>2
    <3> QED BY <2>2, <3>1, <3>2 DEF MonitorGracePeriod, TypeOK
  <2> QED BY <1>7, <2>1, <2>2
<1>8. ASSUME NEW k \in Keys, CleanUp(k) PROVE TypeOK'
  BY <1>8 DEF CleanUp, Without, TypeOK
<1>9. CASE Crash
  BY <1>9 DEF Crash, TypeOK
<1>10. CASE UNCHANGED vars
  BY <1>10 DEF vars, TypeOK
<1>11. ASSUME NEW q \in Requests, Answer(q) PROVE TypeOK'
  BY <1>11, AnswerIs DEF Answer, TypeOK
<1> QED BY <1>1, <1>2, <1>3, <1>4, <1>5, <1>6, <1>7, <1>8, <1>9, <1>10, <1>11 DEF Next

\* Every variable of the upload service keeps its type: indexes and counts
\* stay natural, sessions open or absent, requests served or idle.
THEOREM UploadTypeInvariant == Spec => []TypeOK
<1>1. Init => TypeOK
  BY DEF Init, TypeOK
<1> QED BY <1>1, UploadTypeStep, PTL DEF Spec
-----------------------------------------------------------------------------
(* The invariant.  Most steps leave the sessions and the queue alone; each *)
(* lemma below takes the others one by one.                                *)

Stutters == UNCHANGED <<sessions, drawn, monitors, cleaners, queue>>

TakesAChunk(k, chunk) ==
  /\ k[2] = PodcastOf[chunk.recording]
  /\ Takes(k, Opened(sessions[k], chunk.recording), chunk)
  /\ UNCHANGED <<drawn, cleaners>>

LEMMA UploadSteps ==
  ASSUME TypeOK, [Next]_vars
  PROVE  \/ Stutters
         \/ \E k \in Keys, chunk \in Chunk : TakesAChunk(k, chunk)
         \/ \E u \in Users, p \in Podcasts, id \in UploadIDs : StartUploadSession(u, p, id)
         \/ \E k \in Keys : RevokeSession(k)
         \/ \E k \in Keys : MonitorGracePeriod(k)
         \/ \E k \in Keys : CleanUp(k)
         \/ Crash
<1>1. ASSUME NEW q \in Requests, TrackChunk(q)
      PROVE  Stutters \/ \E k \in Keys, chunk \in Chunk : TakesAChunk(k, chunk)
  BY <1>1, TrackIsTake DEF Stutters, TakesAChunk
<1>2. ASSUME NEW r \in RecordingIDs, RecordingStarts(r) \/ RecordingEnds(r) \/ GraceEnds(r)
      PROVE  Stutters
  BY <1>2 DEF RecordingStarts, RecordingEnds, GraceEnds, Turn, Stutters
<1>3. ASSUME NEW q \in Requests, NEW u \in Users, NEW r \in RecordingIDs, NEW final \in BOOLEAN,
             NEW asked \in AskedIndexes, Permit(q, u, r, final, asked)
      PROVE  Stutters
  BY <1>3 DEF Permit, Stutters
<1>4. ASSUME NEW q \in Requests, ReadIndex(q) \/ PresignFails(q) \/ Answer(q) PROVE Stutters
  BY <1>4 DEF ReadIndex, PresignFails, Answer, Stutters
<1>5. CASE UNCHANGED vars
  BY <1>5 DEF vars, Stutters
<1> QED BY <1>1, <1>2, <1>3, <1>4, <1>5 DEF Next

\* A chunk taken: s is the session before it, t the one after it, n the
\* event, which is pushed, if Redis takes it, for a final chunk.
Took(k, chunk, s, t, n) ==
  /\ k[2] = PodcastOf[chunk.recording] /\ chunk.recording \in RecordingIDs
  /\ s \in OpenSession /\ s.state # "revoked" /\ (s.state = "finalizing" => chunk.final)
  /\ \/ s = sessions[k] /\ s # NoSession
     \/ /\ sessions[k] = NoSession /\ s.id = chunk.recording /\ s.chunks = <<>>
        /\ s.state = "started" /\ s.complete = FALSE
  /\ t \in OpenSession /\ t.id = s.id
  /\ t.state = IF chunk.final THEN "finalizing" ELSE s.state
  /\ t.complete <=> s.complete \/ chunk.final
  /\ Len(s.chunks) \in Nat /\ Len(t.chunks) = Len(s.chunks) + 1
  /\ t.chunks[Len(t.chunks)] = chunk /\ t.chunks # <<>>
  /\ t.chunks[1] = (IF s.chunks = <<>> THEN chunk ELSE s.chunks[1])
  /\ \A i \in 1..Len(s.chunks) : t.chunks[i] = s.chunks[i]
  /\ DOMAIN s.chunks = 1..Len(s.chunks) /\ DOMAIN t.chunks = 1..Len(t.chunks)
  /\ n.user = k[1] /\ n.session = t.id /\ n.recording = t.chunks[1].recording
  /\ n = [user |-> k[1], session |-> t.id, recording |-> t.chunks[1].recording,
          total |-> Len(t.chunks)]
  /\ \A j \in Keys : sessions'[j] = IF j = k THEN t ELSE sessions[j]
  /\ queue \subseteq queue' /\ queue' \subseteq queue \cup {n}
  /\ \A j \in Keys : monitors[j] \in Nat /\ cleaners'[j] = cleaners[j]
                     /\ monitors'[j] = IF chunk.final /\ j = k THEN monitors[j] + 1 ELSE monitors[j]
  /\ drawn' = drawn /\ (~chunk.final => queue' = queue)
  /\ chunk.final /\ "refuse" \notin Faults => n \in queue'

LEMMA TakenIs ==
  ASSUME TypeOK, NEW k \in Keys, NEW chunk \in Chunk, TakesAChunk(k, chunk)
  PROVE  \E s, t, n : Took(k, chunk, s, t, n)
<1>1. PICK s : s = Opened(sessions[k], chunk.recording)
  OBVIOUS
<1>2. PICK t : t = Tracked(s, chunk)
  OBVIOUS
<1>3. PICK n : n = EventOf(k[1], t)
  OBVIOUS
<1>4. chunk.recording \in RecordingIDs /\ k[1] \in Users /\ chunk.final \in BOOLEAN
  BY DEF Chunk, Keys
<1>5. s \in OpenSession
  BY <1>1, <1>4, OpenedType
<1>6. /\ t \in OpenSession /\ t.id = s.id
      /\ t.state = IF chunk.final THEN "finalizing" ELSE s.state
      /\ t.complete <=> s.complete \/ chunk.final
      /\ Len(s.chunks) \in Nat /\ Len(t.chunks) = Len(s.chunks) + 1
      /\ t.chunks[Len(t.chunks)] = chunk /\ t.chunks # <<>>
      /\ t.chunks[1] = (IF s.chunks = <<>> THEN chunk ELSE s.chunks[1])
      /\ \A i \in 1..Len(s.chunks) : t.chunks[i] = s.chunks[i]
      /\ DOMAIN s.chunks = 1..Len(s.chunks) /\ DOMAIN t.chunks = 1..Len(t.chunks)
  BY <1>2, <1>4, <1>5, TrackedIs
<1>7. ~Rejects(s, chunk.final) /\ sessions' = [sessions EXCEPT ![k] = t]
  BY <1>1, <1>2 DEF TakesAChunk, Takes
<1>8. s.state # "revoked" /\ (s.state = "finalizing" => chunk.final)
  BY <1>7 DEF Rejects
<1>9. \/ s = sessions[k] /\ s # NoSession
      \/ /\ sessions[k] = NoSession /\ s.id = chunk.recording /\ s.chunks = <<>>
         /\ s.state = "started" /\ s.complete = FALSE
  <2>1. CASE sessions[k].state = "absent"
    <3>1. sessions[k] = NoSession
      BY <2>1 DEF TypeOK, OpenSession
    <3> QED BY <1>1, <2>1, <3>1 DEF Opened
  <2>2. CASE sessions[k].state # "absent"
    BY <1>1, <2>2 DEF Opened, NoSession
  <2> QED BY <2>1, <2>2
<1>10. /\ n.user = k[1] /\ n.session = t.id /\ n.recording = t.chunks[1].recording
       /\ n = [user |-> k[1], session |-> t.id, recording |-> t.chunks[1].recording,
               total |-> Len(t.chunks)]
  BY <1>3 DEF EventOf
<1>11. \A j \in Keys : sessions'[j] = IF j = k THEN t ELSE sessions[j]
  BY <1>7 DEF TypeOK
<1>12. /\ queue' \in {queue, queue \cup {n}} /\ (~chunk.final => queue' = queue)
       /\ monitors' = IF chunk.final THEN [monitors EXCEPT ![k] = @ + 1] ELSE monitors
  BY <1>1, <1>2, <1>3 DEF TakesAChunk, Takes, NotifyRecordingComplete
<1>13. chunk.final /\ "refuse" \notin Faults => n \in queue'
  BY <1>1, <1>2, <1>3 DEF TakesAChunk, Takes, NotifyRecordingComplete
<1>14. queue \subseteq queue' /\ queue' \subseteq queue \cup {n}
  BY <1>12
<1>15. /\ k[2] = PodcastOf[chunk.recording] /\ drawn' = drawn /\ cleaners' = cleaners
  BY DEF TakesAChunk
<1>16. \A j \in Keys : /\ monitors[j] \in Nat /\ cleaners'[j] = cleaners[j]
                       /\ monitors'[j] = IF chunk.final /\ j = k THEN monitors[j] + 1 ELSE monitors[j]
  BY <1>12, <1>15 DEF TypeOK
<1>17. Took(k, chunk, s, t, n)
  BY <1>4, <1>5, <1>6, <1>8, <1>9, <1>10, <1>11, <1>12, <1>13, <1>14, <1>15, <1>16 DEF Took
<1> QED BY <1>17

\* What the other steps do to sessions.
LEMMA OthersAre ==
  ASSUME TypeOK, NEW k \in Keys
  PROVE  /\ RevokeSession(k) =>
              /\ sessions[k] \in OpenSession
              /\ sessions'[k].state = "revoked" /\ sessions'[k].id = sessions[k].id
              /\ sessions'[k].complete = sessions[k].complete
              /\ sessions'[k].chunks = sessions[k].chunks
              /\ (\A j \in Keys \ {k} : sessions'[j] = sessions[j])
         /\ MonitorGracePeriod(k) =>
              /\ \/ /\ sessions[k] \in OpenSession
                    /\ sessions[k].state = "finalizing" /\ sessions'[k].state = "completed"
                    /\ sessions'[k].id = sessions[k].id
                    /\ sessions'[k].complete = sessions[k].complete
                    /\ sessions'[k].chunks = sessions[k].chunks
                    /\ cleaners'[k] > 0
                 \/ /\ sessions[k].state # "finalizing" /\ sessions'[k] = sessions[k]
                    /\ cleaners'[k] = cleaners[k]
              /\ (\A j \in Keys \ {k} : /\ sessions'[j] = sessions[j]
                                        /\ monitors'[j] = monitors[j] /\ cleaners'[j] = cleaners[j])
         /\ CleanUp(k) =>
              /\ sessions'[k] = NoSession
              /\ (\A j \in Keys \ {k} : sessions'[j] = sessions[j] /\ cleaners'[j] = cleaners[j])
<1>1. ASSUME sessions[k].state # "absent", NEW v \in {"revoked", "completed"},
             sessions' = [sessions EXCEPT ![k].state = v]
      PROVE  /\ sessions[k] \in OpenSession
             /\ sessions'[k].state = v /\ sessions'[k].id = sessions[k].id
             /\ sessions'[k].complete = sessions[k].complete
             /\ sessions'[k].chunks = sessions[k].chunks
             /\ (\A j \in Keys \ {k} : sessions'[j] = sessions[j])
  <2>1. sessions[k] \in OpenSession
    BY <1>1 DEF TypeOK, NoSession
  <2>2. sessions'[k] = [sessions[k] EXCEPT !.state = v]
    BY <1>1 DEF TypeOK
  <2>3. \A j \in Keys \ {k} : sessions'[j] = sessions[j]
    BY <1>1 DEF TypeOK
  <2> QED BY <2>1, <2>2, <2>3 DEF OpenSession
<1>2. ASSUME RevokeSession(k)
      PROVE  sessions[k].state # "absent" /\ sessions' = [sessions EXCEPT ![k].state = "revoked"]
  BY <1>2 DEF RevokeSession
<1>3. ASSUME MonitorGracePeriod(k)
      PROVE  /\ \A j \in Keys \ {k} : monitors'[j] = monitors[j] /\ cleaners'[j] = cleaners[j]
             /\ \/ /\ sessions[k].state = "finalizing" /\ cleaners'[k] > 0
                   /\ sessions' = [sessions EXCEPT ![k].state = "completed"]
                \/ sessions[k].state # "finalizing" /\ sessions' = sessions /\ cleaners' = cleaners
  <2>1. monitors[k] \in Nat /\ cleaners[k] \in Nat
    BY DEF TypeOK
  <2> QED BY <1>3, <2>1 DEF MonitorGracePeriod, Ends, Arranged, TypeOK
<1>4. ASSUME CleanUp(k)
      PROVE  /\ sessions'[k] = NoSession
             /\ (\A j \in Keys \ {k} : sessions'[j] = sessions[j] /\ cleaners'[j] = cleaners[j])
  BY <1>4 DEF CleanUp, Without, TypeOK
<1> QED BY <1>1, <1>2, <1>3, <1>4

LEMMA CompleteIsFinalStep ==
  ASSUME TypeOK, CompleteIsFinal, [Next]_vars
  PROVE  CompleteIsFinal'
<1> DEFINE Fine(s) == /\ s.complete <=> \E i \in DOMAIN s.chunks : s.chunks[i].final
                      /\ s.state \in {"finalizing", "completed"} => s.complete
<1>1. Fine(NoSession)
  BY DEF NoSession
<1>2. \A j \in Keys : Fine(sessions[j])
  BY DEF CompleteIsFinal
<1> SUFFICES \A j \in Keys : Fine(sessions'[j])
  BY DEF CompleteIsFinal
<1>3. CASE Stutters
  BY <1>2, <1>3 DEF Stutters
<1>4. ASSUME NEW k \in Keys, NEW chunk \in Chunk, TakesAChunk(k, chunk)
      PROVE  \A j \in Keys : Fine(sessions'[j])
  <2>1. PICK s, t, n : Took(k, chunk, s, t, n)
    BY <1>4, TakenIs
  <2>2. Fine(s)
    BY <1>2, <1>4, <2>1 DEF Took
  <2>3. (\E i \in DOMAIN t.chunks : t.chunks[i].final)
          <=> (\E i \in DOMAIN s.chunks : s.chunks[i].final) \/ chunk.final
    <3> DEFINE last == Len(t.chunks)
    <3>1. /\ Len(s.chunks) \in Nat /\ last = Len(s.chunks) + 1 /\ t.chunks[last] = chunk
          /\ DOMAIN s.chunks = 1..Len(s.chunks) /\ DOMAIN t.chunks = 1..last
      BY <2>1 DEF Took
    <3>2. \A i \in DOMAIN s.chunks : i \in DOMAIN t.chunks /\ t.chunks[i] = s.chunks[i]
      BY <2>1, <3>1 DEF Took
    <3> HIDE DEF last
    <3>3. \A i \in DOMAIN t.chunks : i \in DOMAIN s.chunks \/ i = last
      BY <3>1
    <3>4. last \in DOMAIN t.chunks
      BY <3>1
    <3> QED BY <3>1, <3>2, <3>3, <3>4
  <2>4. Fine(t)
    BY <2>1, <2>2, <2>3 DEF Took
  <2>5. \A j \in Keys : sessions'[j] \in {t, sessions[j]}
    BY <2>1 DEF Took
  <2> QED BY <1>2, <2>4, <2>5
<1>5. ASSUME NEW u \in Users, NEW p \in Podcasts, NEW id \in UploadIDs, StartUploadSession(u, p, id)
      PROVE  \A j \in Keys : Fine(sessions'[j])
  <2> DEFINE fresh == [id |-> id, state |-> "", complete |-> FALSE, chunks |-> <<>>]
  <2>1. Fine(fresh)
    OBVIOUS
  <2>2. \A j \in Keys : sessions'[j] \in {fresh, sessions[j]}
    BY <1>5 DEF StartUploadSession, TypeOK
  <2> QED BY <1>2, <2>1, <2>2
<1>6. ASSUME NEW k \in Keys, RevokeSession(k) PROVE \A j \in Keys : Fine(sessions'[j])
  BY <1>2, <1>6, OthersAre
<1>7. ASSUME NEW k \in Keys, MonitorGracePeriod(k) PROVE \A j \in Keys : Fine(sessions'[j])
  BY <1>2, <1>7, OthersAre
<1>8. ASSUME NEW k \in Keys, CleanUp(k) PROVE \A j \in Keys : Fine(sessions'[j])
  BY <1>1, <1>2, <1>8, OthersAre
<1>9. CASE Crash
  BY <1>1, <1>9 DEF Crash
<1> QED BY <1>3, <1>4, <1>5, <1>6, <1>7, <1>8, <1>9, UploadSteps

LEMMA GraceIsQuietStep ==
  ASSUME TypeOK, GraceIsQuiet, [Next]_vars
  PROVE  GraceIsQuiet'
<1> DEFINE Fine(s) == s.state = "finalizing" => s.chunks # <<>> /\ s.chunks[Len(s.chunks)].final
<1>1. Fine(NoSession)
  BY DEF NoSession
<1>2. \A j \in Keys : Fine(sessions[j])
  BY DEF GraceIsQuiet
<1> SUFFICES \A j \in Keys : Fine(sessions'[j])
  BY DEF GraceIsQuiet
<1>3. CASE Stutters
  BY <1>2, <1>3 DEF Stutters
<1>4. ASSUME NEW k \in Keys, NEW chunk \in Chunk, TakesAChunk(k, chunk)
      PROVE  \A j \in Keys : Fine(sessions'[j])
  <2>1. PICK s, t, n : Took(k, chunk, s, t, n)
    BY <1>4, TakenIs
  <2>2. t.state = "finalizing" => chunk.final
    BY <2>1 DEF Took
  <2>3. Fine(t)
    BY <2>1, <2>2 DEF Took
  <2>4. \A j \in Keys : sessions'[j] \in {t, sessions[j]}
    BY <2>1 DEF Took
  <2> QED BY <1>2, <2>3, <2>4
<1>5. ASSUME NEW u \in Users, NEW p \in Podcasts, NEW id \in UploadIDs, StartUploadSession(u, p, id)
      PROVE  \A j \in Keys : Fine(sessions'[j])
  <2> DEFINE fresh == [id |-> id, state |-> "", complete |-> FALSE, chunks |-> <<>>]
  <2>1. Fine(fresh)
    OBVIOUS
  <2>2. \A j \in Keys : sessions'[j] \in {fresh, sessions[j]}
    BY <1>5 DEF StartUploadSession, TypeOK
  <2> QED BY <1>2, <2>1, <2>2
<1>6. ASSUME NEW k \in Keys, RevokeSession(k) PROVE \A j \in Keys : Fine(sessions'[j])
  BY <1>2, <1>6, OthersAre
<1>7. ASSUME NEW k \in Keys, MonitorGracePeriod(k) PROVE \A j \in Keys : Fine(sessions'[j])
  BY <1>2, <1>7, OthersAre
<1>8. ASSUME NEW k \in Keys, CleanUp(k) PROVE \A j \in Keys : Fine(sessions'[j])
  BY <1>1, <1>2, <1>8, OthersAre
<1>9. CASE Crash
  BY <1>1, <1>9 DEF Crash
<1> QED BY <1>3, <1>4, <1>5, <1>6, <1>7, <1>8, <1>9, UploadSteps

LEMMA SomeoneWillEndItStep ==
  ASSUME TypeOK, SomeoneWillEndIt, [Next]_vars
  PROVE  SomeoneWillEndIt'
<1> DEFINE Fine(j) == /\ sessions'[j].state = "finalizing" => monitors'[j] > 0
                      /\ sessions'[j].state = "completed" => cleaners'[j] > 0
<1>1. \A j \in Keys : /\ sessions[j].state = "finalizing" => monitors[j] > 0
                      /\ sessions[j].state = "completed" => cleaners[j] > 0
  BY DEF SomeoneWillEndIt
<1> SUFFICES \A j \in Keys : Fine(j)
  BY DEF SomeoneWillEndIt
<1>2. NoSession.state = "absent"
  BY DEF NoSession
<1>3. CASE Stutters
  BY <1>1, <1>3 DEF Stutters
<1>4. ASSUME NEW k \in Keys, NEW chunk \in Chunk, TakesAChunk(k, chunk), NEW j \in Keys
      PROVE  Fine(j)
  <2>1. PICK s, t, n : Took(k, chunk, s, t, n)
    BY <1>4, TakenIs
  <2>2. /\ sessions'[j] = IF j = k THEN t ELSE sessions[j]
        /\ monitors'[j] = IF chunk.final /\ j = k THEN monitors[j] + 1 ELSE monitors[j]
        /\ monitors[j] \in Nat /\ cleaners'[j] = cleaners[j]
    BY <1>4, <2>1 DEF Took
  <2>3. /\ t.state = IF chunk.final THEN "finalizing" ELSE s.state
        /\ s.state = "finalizing" => chunk.final
        /\ s = sessions[k] \/ s.state = "started"
    BY <2>1 DEF Took
  <2> QED BY <1>1, <1>4, <2>2, <2>3
<1>5. ASSUME NEW u \in Users, NEW p \in Podcasts, NEW id \in UploadIDs, StartUploadSession(u, p, id)
      PROVE  \A j \in Keys : Fine(j)
  <2> DEFINE fresh == [id |-> id, state |-> "", complete |-> FALSE, chunks |-> <<>>]
  <2>1. \A j \in Keys : sessions'[j] \in {fresh, sessions[j]}
    BY <1>5 DEF StartUploadSession, TypeOK
  <2>2. monitors' = monitors /\ cleaners' = cleaners
    BY <1>5 DEF StartUploadSession
  <2>3. fresh.state = ""
    OBVIOUS
  <2> HIDE DEF fresh
  <2> QED BY <1>1, <2>1, <2>2, <2>3
<1>6. ASSUME NEW k \in Keys, RevokeSession(k) PROVE \A j \in Keys : Fine(j)
  <2>1. monitors' = monitors /\ cleaners' = cleaners
    BY <1>6 DEF RevokeSession
  <2> QED BY <1>1, <1>6, <2>1, OthersAre
<1>7. ASSUME NEW k \in Keys, MonitorGracePeriod(k) PROVE \A j \in Keys : Fine(j)
  BY <1>1, <1>7, OthersAre
<1>8. ASSUME NEW k \in Keys, CleanUp(k) PROVE \A j \in Keys : Fine(j)
  <2>1. monitors' = monitors
    BY <1>8 DEF CleanUp
  <2> QED BY <1>1, <1>2, <1>8, <2>1, OthersAre
<1>9. CASE Crash
  BY <1>2, <1>9 DEF Crash
<1> QED BY <1>3, <1>4, <1>5, <1>6, <1>7, <1>8, <1>9, UploadSteps

-----------------------------------------------------------------------------
(* Names.                                                                  *)

LEMMA NamesAgreeStep ==
  ASSUME TypeOK, NamesAgree, [Next]_vars
  PROVE  NamesAgree'
<1> DEFINE Named == \A k \in Keys : NamedAsBegun(k, sessions'[k], drawn')
           Alone == \A j \in Keys, k \in Keys :
                      sessions'[j].id = sessions'[k].id /\ sessions'[k].id \in drawn' => j = k
           Matching == \A k \in Keys, n \in queue' : Matches(sessions'[k], n, drawn')
           Events == \A n \in queue' : EventNamed(n, drawn')
           Goal == Named /\ Alone /\ Matching /\ Events
<1>1. /\ \A k \in Keys : NamedAsBegun(k, sessions[k], drawn)
      /\ \A j \in Keys, k \in Keys :
           sessions[j].id = sessions[k].id /\ sessions[k].id \in drawn => j = k
      /\ \A k \in Keys, n \in queue : Matches(sessions[k], n, drawn)
      /\ \A n \in queue : EventNamed(n, drawn)
  BY DEF NamesAgree
<1>2. /\ drawn \subseteq UploadIDs /\ None \notin drawn
      /\ \A r \in RecordingIDs : r \notin UploadIDs
  BY UploadNoneAssumption, IDsAssumption DEF TypeOK
<1>3. NoSession.id = None /\ NoSession.state = "absent"
  BY DEF NoSession
<1>4. /\ \A k \in Keys : NamedAsBegun(k, NoSession, drawn)
      /\ \A n \in queue : Matches(NoSession, n, drawn)
  BY <1>2, <1>3 DEF NamedAsBegun, Matches
<1> SUFFICES Goal
  BY DEF NamesAgree
<1>5. CASE Stutters
  BY <1>1, <1>5 DEF Stutters
<1>6. ASSUME NEW k \in Keys, NEW chunk \in Chunk, TakesAChunk(k, chunk)
      PROVE  Goal
  <2>1. PICK s, t, n : Took(k, chunk, s, t, n)
    BY <1>6, TakenIs
  <2>2. /\ \A j \in Keys : sessions'[j] = IF j = k THEN t ELSE sessions[j]
        /\ queue' \subseteq queue \cup {n} /\ drawn' = drawn /\ t.id = s.id
        /\ n.session = t.id /\ n.recording = t.chunks[1].recording /\ t.chunks # <<>>
    BY <2>1 DEF Took
  <2>3. s.chunks # <<>> => t.chunks[1] = s.chunks[1]
    BY <2>1 DEF Took
  <2>4. s.chunks = <<>> => t.chunks[1] = chunk
    BY <2>1 DEF Took
  <2>5. t.id \in drawn => s = sessions[k]
    BY <1>2, <2>1 DEF Took
  <2>6. NamedAsBegun(k, t, drawn)
    <3>0. s = sessions[k] =>
            /\ \A i \in DOMAIN s.chunks : PodcastOf[s.chunks[i].recording] = k[2]
            /\ s.id \in RecordingIDs => s.chunks # <<>> /\ s.chunks[1].recording = s.id
            /\ s.id \notin RecordingIDs => s.id \in drawn
      <4>1. s.state # "absent"
        BY <2>1 DEF Took, OpenSession
      <4> QED BY <1>1, <1>6, <4>1 DEF NamedAsBegun
    <3>1. \A i \in DOMAIN t.chunks : PodcastOf[t.chunks[i].recording] = k[2]
      <4>1. \A i \in DOMAIN s.chunks : PodcastOf[s.chunks[i].recording] = k[2]
        <5>1. CASE s = sessions[k]
          BY <3>0, <5>1
        <5>2. CASE s.chunks = <<>>
          BY <5>2
        <5> QED BY <2>1, <5>1, <5>2 DEF Took
      <4>2. TAKE i \in DOMAIN t.chunks
      <4>3. CASE i \in DOMAIN s.chunks
        BY <2>1, <4>1, <4>3 DEF Took
      <4>4. CASE i \notin DOMAIN s.chunks
        BY <2>1, <4>4 DEF Took
      <4> QED BY <4>3, <4>4
    <3>2. s = sessions[k] \/ (s.id = chunk.recording /\ s.chunks = <<>>)
      BY <2>1 DEF Took
    <3>3. t.id \in RecordingIDs => t.chunks[1].recording = t.id
      BY <2>2, <2>3, <2>4, <3>0, <3>2
    <3>4. t.id \notin RecordingIDs => t.id \in drawn
      <4>1. chunk.recording \in RecordingIDs
        BY <2>1 DEF Took
      <4> QED BY <2>2, <3>0, <3>2, <4>1
    <3> QED BY <2>2, <3>1, <3>3, <3>4 DEF NamedAsBegun
  <2>7. Named
    BY <1>1, <2>2, <2>6
  <2>8. Alone
    BY <1>1, <1>6, <2>2, <2>5
  <2>9. \A m \in queue : Matches(t, m, drawn)
    BY <1>1, <1>6, <2>2, <2>3, <2>5 DEF Matches
  <2>10. \A j \in Keys : Matches(sessions'[j], n, drawn)
    <3>1. Matches(t, n, drawn)
      BY <2>2 DEF Matches
    <3>2. ASSUME NEW j \in Keys, j # k PROVE n.session # sessions[j].id \/ n.session \notin drawn
      BY <1>1, <1>6, <2>2, <2>5, <3>2
    <3> QED BY <2>2, <3>1, <3>2 DEF Matches
  <2>11. Matching
    BY <1>1, <2>2, <2>9, <2>10
  <2>12. EventNamed(n, drawn)
    BY <2>1, <2>2, <2>6 DEF EventNamed, NamedAsBegun, Took, OpenSession
  <2> QED BY <1>1, <2>2, <2>7, <2>8, <2>11, <2>12
<1>7. ASSUME NEW u \in Users, NEW p \in Podcasts, NEW id \in UploadIDs, StartUploadSession(u, p, id)
      PROVE  Goal
  <2> DEFINE fresh == [id |-> id, state |-> "", complete |-> FALSE, chunks |-> <<>>]
  <2>1. /\ \A j \in Keys : sessions'[j] = IF j = <<u, p>> THEN fresh ELSE sessions[j]
        /\ drawn' = drawn \cup {id} /\ id \notin drawn /\ queue' = queue
    BY <1>7 DEF StartUploadSession, TypeOK
  <2>2. id \notin RecordingIDs /\ id # None
    BY <1>2, UploadNoneAssumption
  <2>3. \A j \in Keys : sessions[j].id # id
    <3>1. TAKE j \in Keys
    <3>2. CASE sessions[j].state = "absent"
      <4>1. sessions[j] = NoSession
        BY <3>2 DEF TypeOK, OpenSession
      <4> QED BY <1>3, <2>2, <4>1
    <3>3. CASE sessions[j].state # "absent"
      BY <1>1, <2>1, <2>2, <3>3 DEF NamedAsBegun
    <3> QED BY <3>2, <3>3
  <2>4. \A n \in queue : n.session # id
    BY <1>1, <2>1, <2>2 DEF EventNamed
  <2>5. \A k \in Keys : NamedAsBegun(k, fresh, drawn')
    <3>1. fresh.id = id /\ fresh.chunks = <<>>
      OBVIOUS
    <3> HIDE DEF fresh
    <3>2. id \in drawn'
      BY <2>1
    <3> QED BY <2>2, <3>1, <3>2 DEF NamedAsBegun
  <2>6. fresh.id = id
    OBVIOUS
  <2> HIDE DEF fresh
  <2>7. Named
    BY <1>1, <2>1, <2>5 DEF NamedAsBegun
  <2>8. Alone
    BY <1>1, <2>1, <2>3, <2>6
  <2>9. Matching
    BY <1>1, <2>1, <2>3, <2>4, <2>6 DEF Matches
  <2>10. Events
    BY <1>1, <2>1 DEF EventNamed
  <2> QED BY <2>7, <2>8, <2>9, <2>10
<1>8. ASSUME queue' = queue, drawn' = drawn,
             \A j \in Keys :
               \/ sessions'[j] = NoSession \/ sessions'[j] = sessions[j]
               \/ /\ sessions[j] \in OpenSession /\ sessions'[j].id = sessions[j].id
                  /\ sessions'[j].chunks = sessions[j].chunks
      PROVE  Goal
  <2>1. ASSUME NEW j \in Keys PROVE NamedAsBegun(j, sessions'[j], drawn)
    <3>1. CASE /\ sessions[j] \in OpenSession /\ sessions'[j].id = sessions[j].id
               /\ sessions'[j].chunks = sessions[j].chunks
      <4>1. sessions[j].state # "absent"
        BY <3>1 DEF OpenSession
      <4> QED BY <1>1, <2>1, <3>1, <4>1 DEF NamedAsBegun
    <3> QED BY <1>1, <1>4, <1>8, <2>1, <3>1
  <2>2. Alone
    BY <1>1, <1>2, <1>3, <1>8
  <2>3. Matching
    BY <1>1, <1>4, <1>8 DEF Matches
  <2> QED BY <1>1, <1>8, <2>1, <2>2, <2>3
<1>9. ASSUME NEW k \in Keys, RevokeSession(k) PROVE Goal
  <2>1. queue' = queue /\ drawn' = drawn
    BY <1>9 DEF RevokeSession
  <2> QED BY <1>8, <1>9, <2>1, OthersAre
<1>10. ASSUME NEW k \in Keys, MonitorGracePeriod(k) PROVE Goal
  <2>1. queue' = queue /\ drawn' = drawn
    BY <1>10 DEF MonitorGracePeriod
  <2> QED BY <1>8, <1>10, <2>1, OthersAre
<1>11. ASSUME NEW k \in Keys, CleanUp(k) PROVE Goal
  <2>1. queue' = queue /\ drawn' = drawn
    BY <1>11 DEF CleanUp
  <2> QED BY <1>8, <1>11, <2>1, OthersAre
<1>12. CASE Crash
  BY <1>8, <1>12 DEF Crash
<1> QED BY <1>5, <1>6, <1>7, <1>9, <1>10, <1>11, <1>12, UploadSteps

LEMMA OneRecordingPerJobStep ==
  ASSUME TypeOK, OneRecordingPerJob, NamesAgree, [Next]_vars
  PROVE  OneRecordingPerJob'
<1>1. CASE queue' = queue
  BY <1>1 DEF OneRecordingPerJob
<1>2. ASSUME NEW k \in Keys, NEW chunk \in Chunk, TakesAChunk(k, chunk)
      PROVE  OneRecordingPerJob'
  <2>1. PICK s, t, n : Took(k, chunk, s, t, n)
    BY <1>2, TakenIs
  <2>2. NamesAgree'
    BY NamesAgreeStep
  <2>3. /\ queue' \subseteq queue \cup {n} /\ n.session = t.id /\ t.chunks # <<>>
        /\ n.recording = t.chunks[1].recording /\ sessions'[k] = t
    BY <1>2, <2>1 DEF Took
  <2>4. \A m \in queue' : Matches(t, m, drawn') /\ EventNamed(m, drawn')
    BY <1>2, <2>2, <2>3 DEF NamesAgree
  <2>5. ASSUME NEW m \in queue', n \in queue', n.session = m.session
        PROVE  n.recording = m.recording
    BY <2>3, <2>4, <2>5 DEF Matches, EventNamed
  <2>6. \A a \in queue', b \in queue' : (a \in queue /\ b \in queue) \/ a = n \/ b = n
    BY <2>3
  <2> QED BY <2>3, <2>5, <2>6 DEF OneRecordingPerJob
<1>3. [Next]_vars => queue' = queue \/ \E k \in Keys, chunk \in Chunk : TakesAChunk(k, chunk)
  BY UploadSteps DEF Stutters, StartUploadSession, RevokeSession, MonitorGracePeriod, CleanUp, Crash
<1> QED BY <1>1, <1>2, <1>3

-----------------------------------------------------------------------------
(* The theorems.                                                           *)

LEMMA UploadInvariantHolds == Spec => [](TypeOK /\ UploadInvariant)
<1>1. Init => TypeOK /\ UploadInvariant
  <2>1. ASSUME Init PROVE \A k \in Keys : sessions[k] = NoSession
    BY <2>1 DEF Init
  <2>2. ASSUME Init PROVE queue = {} /\ drawn = {}
    BY <2>2 DEF Init
  <2>3. NoSession.id = None /\ NoSession.state = "absent" /\ NoSession.chunks = <<>>
        /\ NoSession.complete = FALSE
    BY DEF NoSession
  <2>4. Init => CompleteIsFinal /\ GraceIsQuiet /\ SomeoneWillEndIt /\ OneRecordingPerJob
    BY <2>1, <2>2, <2>3 DEF CompleteIsFinal, GraceIsQuiet, SomeoneWillEndIt, OneRecordingPerJob
  <2>5. Init => NamesAgree
    BY <2>1, <2>2, <2>3 DEF NamesAgree, NamedAsBegun, Matches, EventNamed
  <2>6. Init => TypeOK
    BY DEF Init, TypeOK
  <2> QED BY <2>4, <2>5, <2>6 DEF UploadInvariant
<1>2. TypeOK /\ UploadInvariant /\ [Next]_vars => (TypeOK /\ UploadInvariant)'
  <2> SUFFICES ASSUME TypeOK, UploadInvariant, [Next]_vars
               PROVE  TypeOK' /\ UploadInvariant'
    OBVIOUS
  <2>1. TypeOK'
    BY UploadTypeStep
  <2>2. CompleteIsFinal' /\ GraceIsQuiet' /\ SomeoneWillEndIt'
    BY CompleteIsFinalStep, GraceIsQuietStep, SomeoneWillEndItStep DEF UploadInvariant
  <2>3. NamesAgree' /\ OneRecordingPerJob'
    BY NamesAgreeStep, OneRecordingPerJobStep DEF UploadInvariant
  <2> QED BY <2>1, <2>2, <2>3 DEF UploadInvariant
<1> QED BY <1>1, <1>2, PTL DEF Spec

\* No two recordings share a job of the video processor: events with the
\* same user and session are of one recording, whatever TrackChunk,
\* deletions, crashes and StartUploadSession do to the key's session.
THEOREM OneRecordingPerJobHolds == Spec => []OneRecordingPerJob
<1>1. TypeOK /\ UploadInvariant => OneRecordingPerJob
  BY DEF UploadInvariant
<1> QED BY <1>1, UploadInvariantHolds, PTL

\* A session's id is that of the recording it began with or a drawn one it
\* has to itself, and events agree: the strengthening the one above needs.
THEOREM NamesAgreeHolds == Spec => []NamesAgree
<1>1. TypeOK /\ UploadInvariant => NamesAgree
  BY DEF UploadInvariant
<1> QED BY <1>1, UploadInvariantHolds, PTL

\* A finalizing session has a goroutine that will complete it, a completed
\* one a goroutine that will delete it.
THEOREM SomeoneWillEndItHolds == Spec => []SomeoneWillEndIt
<1>1. TypeOK /\ UploadInvariant => SomeoneWillEndIt
  BY DEF UploadInvariant
<1> QED BY <1>1, UploadInvariantHolds, PTL

\* IsComplete is set in exactly the sessions a final chunk was tracked in.
THEOREM CompleteIsFinalHolds == Spec => []CompleteIsFinal
<1>1. TypeOK /\ UploadInvariant => CompleteIsFinal
  BY DEF UploadInvariant
<1> QED BY <1>1, UploadInvariantHolds, PTL

\* Once a final chunk was tracked, IsComplete says so, and nothing but a
\* final chunk follows while the session is finalizing.
THEOREM GraceIsQuietHolds == Spec => [](CompleteIsFinal /\ GraceIsQuiet)
<1>1. TypeOK /\ UploadInvariant => CompleteIsFinal /\ GraceIsQuiet
  BY DEF UploadInvariant
<1> QED BY <1>1, UploadInvariantHolds, PTL

LEMMA RevokedStep ==
  ASSUME TypeOK, NamesAgree, NamesAgree', [Next]_vars
  PROVE  /\ \A k \in Keys : sessions[k].state = "revoked" => sessions'[k] \in {sessions[k], NoSession}
         /\ \A n \in queue' \ queue : sessions[KeyOf(n.user, n.recording)].state # "revoked"
<1> DEFINE Still == \A k \in Keys : sessions[k].state = "revoked" => sessions'[k] \in {sessions[k], NoSession}
           Silent == \A n \in queue' \ queue : sessions[KeyOf(n.user, n.recording)].state # "revoked"
<1> SUFFICES Still /\ Silent
  OBVIOUS
<1>1. CASE Stutters
  BY <1>1 DEF Stutters
<1>2. ASSUME NEW k \in Keys, NEW chunk \in Chunk, TakesAChunk(k, chunk)
      PROVE  Still /\ Silent
  <2>1. PICK s, t, n : Took(k, chunk, s, t, n)
    BY <1>2, TakenIs
  <2>2. sessions[k].state # "revoked"
    BY <2>1 DEF Took, NoSession
  <2>3. Still
    BY <2>1, <2>2 DEF Took
  <2>4. KeyOf(n.user, n.recording) = k
    <3>1. sessions'[k] = t /\ t \in OpenSession /\ 1 \in DOMAIN t.chunks
          /\ n.user = k[1] /\ n.recording = t.chunks[1].recording
      BY <1>2, <2>1 DEF Took
    <3>2. t.state # "absent"
      BY <3>1 DEF OpenSession
    <3>3. PodcastOf[t.chunks[1].recording] = k[2]
      BY <1>2, <3>1, <3>2 DEF NamesAgree, NamedAsBegun
    <3> QED BY <1>2, <3>1, <3>3 DEF KeyOf, Keys
  <2>5. queue' \subseteq queue \cup {n}
    BY <2>1 DEF Took
  <2> QED BY <2>2, <2>3, <2>4, <2>5
<1>3. ASSUME NEW u \in Users, NEW p \in Podcasts, NEW id \in UploadIDs, StartUploadSession(u, p, id)
      PROVE  Still /\ Silent
  BY <1>3 DEF StartUploadSession, TypeOK
<1>4. ASSUME NEW k \in Keys, RevokeSession(k) PROVE Still /\ Silent
  <2>1. [sessions[k] EXCEPT !.state = "revoked"] = sessions[k] \/ sessions[k].state # "revoked"
    <3>1. sessions[k] \in OpenSession
      BY <1>4, OthersAre
    <3> QED BY <3>1 DEF OpenSession
  <2>2. queue' = queue /\ sessions' = [sessions EXCEPT ![k] = [sessions[k] EXCEPT !.state = "revoked"]]
    BY <1>4 DEF RevokeSession
  <2> QED BY <2>1, <2>2 DEF TypeOK
<1>5. ASSUME NEW k \in Keys, MonitorGracePeriod(k) PROVE Still /\ Silent
  BY <1>5, OthersAre DEF MonitorGracePeriod
<1>6. ASSUME NEW k \in Keys, CleanUp(k) PROVE Still /\ Silent
  BY <1>6, OthersAre DEF CleanUp
<1>7. CASE Crash
  BY <1>7 DEF Crash
<1> QED BY <1>1, <1>2, <1>3, <1>4, <1>5, <1>6, <1>7, UploadSteps

\* Nothing revives a revoked session and nothing of it is announced, for
\* requests permitted before the revocation, grace periods and restarts too.
THEOREM RevokedStaysHolds == Spec => RevokedStays
<1>1. TypeOK /\ UploadInvariant /\ (TypeOK /\ UploadInvariant)' /\ [Next]_vars =>
        [/\ \A k \in Keys : sessions[k].state = "revoked" => sessions'[k] \in {sessions[k], NoSession}
         /\ \A n \in queue' \ queue : sessions[KeyOf(n.user, n.recording)].state # "revoked"]_vars
  BY RevokedStep DEF UploadInvariant
<1> QED BY <1>1, UploadInvariantHolds, PTL DEF Spec, RevokedStays

LEMMA FinalIsAnnouncedStep ==
  ASSUME "refuse" \notin Faults, TypeOK, FinalIsAnnounced, [Next]_vars
  PROVE  FinalIsAnnounced'
<1> DEFINE Announced(k, s, q) ==
             \A i \in DOMAIN s.chunks : s.chunks[i].final =>
               [user |-> k[1], session |-> s.id, recording |-> s.chunks[1].recording,
                total |-> i] \in q
<1>1. \A k \in Keys : Announced(k, sessions[k], queue)
  BY DEF FinalIsAnnounced
<1>2. \A k \in Keys : Announced(k, NoSession, queue)
  BY DEF NoSession
<1> SUFFICES \A k \in Keys : Announced(k, sessions'[k], queue')
  BY DEF FinalIsAnnounced
<1>3. CASE Stutters
  BY <1>1, <1>3 DEF Stutters
<1>4. ASSUME NEW k \in Keys, NEW chunk \in Chunk, TakesAChunk(k, chunk)
      PROVE  \A j \in Keys : Announced(j, sessions'[j], queue')
  <2>1. PICK s, t, n : Took(k, chunk, s, t, n)
    BY <1>4, TakenIs
  <2>2. queue \subseteq queue' /\ \A j \in Keys : sessions'[j] = IF j = k THEN t ELSE sessions[j]
    BY <2>1 DEF Took
  <2>3. /\ DOMAIN s.chunks = 1..Len(s.chunks) /\ DOMAIN t.chunks = 1..Len(t.chunks)
        /\ Len(s.chunks) \in Nat /\ Len(t.chunks) = Len(s.chunks) + 1
        /\ t.chunks[Len(t.chunks)] = chunk
    BY <2>1 DEF Took
  <2>4. ASSUME NEW i \in DOMAIN t.chunks, t.chunks[i].final
        PROVE  [user |-> k[1], session |-> t.id, recording |-> t.chunks[1].recording,
                total |-> i] \in queue'
    <3>1. CASE i = Len(t.chunks)
      BY <2>1, <2>4, <3>1 DEF Took
    <3>2. CASE i # Len(t.chunks)
      <4>1. i \in DOMAIN s.chunks /\ t.chunks[i] = s.chunks[i]
        BY <2>1, <2>3, <2>4, <3>2 DEF Took
      <4>2. s.chunks # <<>> /\ s = sessions[k]
        BY <2>1, <4>1 DEF Took
      <4>3. t.id = s.id /\ t.chunks[1] = s.chunks[1]
        BY <2>1, <4>2 DEF Took
      <4> QED BY <1>1, <1>4, <2>2, <2>4, <4>1, <4>2, <4>3
    <3> QED BY <3>1, <3>2
  <2> QED BY <1>1, <2>2, <2>4
<1>5. ASSUME NEW u \in Users, NEW p \in Podcasts, NEW id \in UploadIDs, StartUploadSession(u, p, id)
      PROVE  \A j \in Keys : Announced(j, sessions'[j], queue')
  <2> DEFINE fresh == [id |-> id, state |-> "", complete |-> FALSE, chunks |-> <<>>]
  <2>1. queue' = queue /\ \A j \in Keys : sessions'[j] \in {fresh, sessions[j]}
    BY <1>5 DEF StartUploadSession, TypeOK
  <2>2. \A k \in Keys : Announced(k, fresh, queue)
    OBVIOUS
  <2> QED BY <1>1, <2>1, <2>2
<1>6. ASSUME NEW k \in Keys, RevokeSession(k) PROVE \A j \in Keys : Announced(j, sessions'[j], queue')
  <2>1. queue' = queue
    BY <1>6 DEF RevokeSession
  <2> QED BY <1>1, <1>6, <2>1, OthersAre
<1>7. ASSUME NEW k \in Keys, MonitorGracePeriod(k)
      PROVE  \A j \in Keys : Announced(j, sessions'[j], queue')
  <2>1. queue' = queue
    BY <1>7 DEF MonitorGracePeriod
  <2> QED BY <1>1, <1>7, <2>1, OthersAre
<1>8. ASSUME NEW k \in Keys, CleanUp(k) PROVE \A j \in Keys : Announced(j, sessions'[j], queue')
  <2>1. queue' = queue
    BY <1>8 DEF CleanUp
  <2> QED BY <1>1, <1>2, <1>8, <2>1, OthersAre
<1>9. CASE Crash
  BY <1>2, <1>9 DEF Crash
<1> QED BY <1>3, <1>4, <1>5, <1>6, <1>7, <1>8, <1>9, UploadSteps

\* If Redis refuses no push, every final chunk TrackChunk appends has its
\* event in the queue with the number of chunks up to it, for any clients
\* and any crashes between steps.
THEOREM FinalIsAnnouncedHolds ==
  ASSUME "refuse" \notin Faults
  PROVE  Spec => []FinalIsAnnounced
<1>1. Init => FinalIsAnnounced
  BY DEF Init, FinalIsAnnounced, NoSession
<1>2. TypeOK /\ FinalIsAnnounced /\ [Next]_vars => FinalIsAnnounced'
  BY FinalIsAnnouncedStep
<1> QED BY <1>1, <1>2, UploadTypeInvariant, PTL DEF Spec

-----------------------------------------------------------------------------
(* Clients that do nothing of what Habits lists: one session and one       *)
(* request of a key at a time.  A restart makes the service count anew,    *)
(* and forget an answer it has not sent.                                   *)

Orderly == Habits = {} /\ AskedIndexes = {0}

\* n counts m things, or fewer of them if the service may have restarted.
UpTo(n, m) == n <= m /\ ("crash" \notin Faults => n = m)

\* The chunks a session holds of a recording.
Held(s, r) == IF s.chunks # <<>> /\ s.chunks[1].recording = r THEN Len(s.chunks) ELSE 0

\* The final chunk is cut: its URL was answered or is on its way.
Ended(u, r) ==
  \/ HasFinal(u, r)
  \/ \E q \in Asking(u, r) : requests[q].step = "tracked" /\ requests[q].final

\* The chunks cut of a recording not ended are those of its session, and those
\* that a restart made it forget.
Counted(u, r) ==
  /\ ChunksCut(u, r) <= MaxURLs
  /\ \A i \in DOMAIN handed[<<u, r>>] : UpTo(handed[<<u, r>>][i].index, i - 1)
  /\ ~Ended(u, r) => UpTo(Held(sessions[KeyOf(u, r)], r), ChunksCut(u, r))

\* One goroutine sleeps for a session that ends, and its recording has ended.
EndsOnce(k) ==
  LET s == sessions[k] IN
    /\ s.state # "revoked"
    /\ s.state \in {"finalizing", "completed"} =>
         s.chunks # <<>> /\ Ended(k[1], s.chunks[1].recording)
    /\ monitors[k] = IF s.state = "finalizing" THEN 1 ELSE 0
    /\ cleaners[k] = IF s.state = "completed" THEN 1 ELSE 0

Busy(q) == requests[q].step # "idle"
Untracked(q) == requests[q].step \in {"permitted", "indexed"}
FolderOf(q) == <<requests[q].user, requests[q].recording>>
RequestKey(q) == KeyOf(requests[q].user, requests[q].recording)

\* What a request has read of its session is still so until it is tracked.
ReadsHold(q) ==
  LET s == sessions[RequestKey(q)] IN
    /\ Untracked(q) =>
         /\ ~Ended(requests[q].user, requests[q].recording)
         /\ Len(handed[FolderOf(q)]) < MaxURLs
         /\ s.chunks # <<>> => s.chunks[1].recording = requests[q].recording
         /\ requests[q].index = IF requests[q].step = "permitted" THEN 0 ELSE Len(s.chunks)
    /\ requests[q].step = "tracked" => UpTo(requests[q].index, Len(handed[FolderOf(q)]))

OneRequestEach ==
  \A q \in Requests, o \in Requests :
    Busy(q) /\ Busy(o) /\ RequestKey(q) = RequestKey(o) => q = o

CountsAll(n) ==
  /\ n.total \in Nat \ {0} /\ n.total <= MaxURLs
  /\ n.total <= Len(handed[<<n.user, n.recording>>]) + 1
  /\ "crash" \notin Faults =>
       Ended(n.user, n.recording) /\ n.total = ChunksCut(n.user, n.recording)

OrderlyInvariant ==
  /\ \A u \in Users, r \in RecordingIDs : Counted(u, r)
  /\ \A k \in Keys : EndsOnce(k)
  /\ \A q \in Requests : ReadsHold(q)
  /\ OneRequestEach
  /\ \A n \in queue : CountsAll(n)

\* A request in flight is alone with its session's key.
LEMMA BusyIs ==
  ASSUME TypeOK, NEW q \in Requests, Busy(q)
  PROVE  /\ requests[q] \in Request /\ RequestKey(q) \in Keys
         /\ RequestKey(q)[1] = requests[q].user
         /\ FolderOf(q) \in Users \X RecordingIDs
         /\ Untracked(q) \/ requests[q].step = "tracked"
<1>1. requests[q] \in Request
  BY DEF TypeOK, Busy, NoRequest
<1> QED BY <1>1, PodcastOfAssumption DEF Request, RequestKey, KeyOf, Keys, FolderOf, Untracked

\* It finds the session open until its chunk is tracked.
LEMMA ServedIsOpen ==
  ASSUME TypeOK, OrderlyInvariant, NEW q \in Requests, Untracked(q)
  PROVE  sessions[RequestKey(q)].state \notin {"revoked", "finalizing", "completed"}
<1>1. Busy(q)
  BY DEF Untracked, Busy
<1>2. RequestKey(q) \in Keys /\ RequestKey(q)[1] = requests[q].user
  BY <1>1, BusyIs
<1>3. EndsOnce(RequestKey(q)) /\ ReadsHold(q)
  BY <1>2 DEF OrderlyInvariant
<1> QED BY <1>2, <1>3 DEF EndsOnce, ReadsHold

\* What is cut of a recording depends on its answers and on a request tracked.
LEMMA CutIs ==
  ASSUME TypeOK, OneRequestEach, NEW u \in Users, NEW r \in RecordingIDs
  PROVE  /\ Len(handed[<<u, r>>]) \in Nat /\ ChunksCut(u, r) \in Nat
         /\ Len(handed[<<u, r>>]) <= ChunksCut(u, r)
         /\ ChunksCut(u, r) <= Len(handed[<<u, r>>]) + 1
         /\ \A q \in Requests : Busy(q) /\ FolderOf(q) = <<u, r>> =>
              /\ ChunksCut(u, r) = Len(handed[<<u, r>>])
                                   + IF requests[q].step = "tracked" THEN 1 ELSE 0
              /\ Ended(u, r) <=> \/ HasFinal(u, r)
                                 \/ requests[q].step = "tracked" /\ requests[q].final
         /\ (\A q \in Requests : Busy(q) => FolderOf(q) # <<u, r>>) =>
              /\ ChunksCut(u, r) = Len(handed[<<u, r>>])
              /\ Ended(u, r) <=> HasFinal(u, r)
<1>1. Len(handed[<<u, r>>]) \in Nat
  <2>1. handed[<<u, r>>] \in Seq([index : Nat, final : BOOLEAN])
    BY DEF TypeOK
  <2> QED BY <2>1, LenProperties
<1>2. ASSUME NEW q \in Requests, Busy(q), FolderOf(q) = <<u, r>>
      PROVE  /\ ChunksCut(u, r) = Len(handed[<<u, r>>])
                                  + IF requests[q].step = "tracked" THEN 1 ELSE 0
             /\ Ended(u, r) <=> \/ HasFinal(u, r)
                                \/ requests[q].step = "tracked" /\ requests[q].final
  <2>1. ASSUME NEW o \in Asking(u, r), requests[o].step = "tracked" PROVE o = q
    BY <1>2, <2>1 DEF Asking, OneRequestEach, Busy, RequestKey, FolderOf
  <2>2. q \in Asking(u, r)
    BY <1>2 DEF Asking, FolderOf
  <2> QED BY <2>1, <2>2 DEF ChunksCut, Ended
<1>3. ASSUME \A q \in Requests : Busy(q) => FolderOf(q) # <<u, r>>
      PROVE  /\ ChunksCut(u, r) = Len(handed[<<u, r>>])
             /\ Ended(u, r) <=> HasFinal(u, r)
  <2>1. \A o \in Asking(u, r) : requests[o].step # "tracked"
    BY <1>3 DEF Asking, Busy, FolderOf
  <2>2. ChunksCut(u, r) = Len(handed[<<u, r>>]) + 0
    BY <2>1 DEF ChunksCut
  <2>3. Ended(u, r) <=> HasFinal(u, r)
    BY <2>1 DEF Ended
  <2> QED BY <1>1, <2>2, <2>3
<1>4. \/ ChunksCut(u, r) = Len(handed[<<u, r>>]) + 0
      \/ ChunksCut(u, r) = Len(handed[<<u, r>>]) + 1
  BY DEF ChunksCut
<1>5. /\ ChunksCut(u, r) \in Nat /\ Len(handed[<<u, r>>]) <= ChunksCut(u, r)
      /\ ChunksCut(u, r) <= Len(handed[<<u, r>>]) + 1
  BY <1>1, <1>4
<1> QED BY <1>1, <1>2, <1>3, <1>5

\* A request of another recording changes nothing of what is cut of this one.
LEMMA CutElsewhere ==
  ASSUME NEW u \in Users, NEW r \in RecordingIDs, NEW q \in Requests,
         \A o \in Requests : o # q => requests'[o] = requests[o],
         requests[q].step = "tracked" => FolderOf(q) # <<u, r>>,
         requests'[q].step = "tracked" => FolderOf(q)' # <<u, r>>,
         handed'[<<u, r>>] = handed[<<u, r>>]
  PROVE  /\ ChunksCut(u, r)' = ChunksCut(u, r)
         /\ Ended(u, r)' <=> Ended(u, r)
<1>1. HasFinal(u, r)' <=> HasFinal(u, r)
  BY DEF HasFinal
<1>2. \A o \in Requests :
        requests'[o].step = "tracked" /\ o \in Asking(u, r)'
          <=> requests[o].step = "tracked" /\ o \in Asking(u, r)
  BY DEF Asking, FolderOf
<1>3. \A o \in Requests :
        requests'[o].step = "tracked" /\ o \in Asking(u, r)' => requests'[o] = requests[o]
  BY DEF Asking, FolderOf
<1>4. (\E o \in Asking(u, r)' : requests'[o].step = "tracked")
         <=> \E o \in Asking(u, r) : requests[o].step = "tracked"
  BY <1>2 DEF Asking
<1>5. (\E o \in Asking(u, r)' : requests'[o].step = "tracked" /\ requests'[o].final)
         <=> \E o \in Asking(u, r) : requests[o].step = "tracked" /\ requests[o].final
  BY <1>2, <1>3 DEF Asking
<1> QED BY <1>1, <1>4, <1>5 DEF ChunksCut, Ended

\* A chunk of an orderly client is never refused, and it is one more that is cut.
LEMMA OrderlyTrack ==
  ASSUME TypeOK, OrderlyInvariant, NEW q \in Requests, TrackChunk(q)
  PROVE  OrderlyInvariant'
<1>1. Busy(q) /\ Untracked(q) /\ requests[q].step = "indexed"
  BY DEF TrackChunk, Busy, Untracked
<1>2. PICK u \in Users, r \in RecordingIDs : u = requests[q].user /\ r = requests[q].recording
  BY <1>1, BusyIs DEF Request
<1> DEFINE k == KeyOf(u, r)
           f == <<u, r>>
           s == Opened(sessions[k], r)
           chunk == [recording |-> r, index |-> requests[q].index, final |-> requests[q].final]
           t == Tracked(s, chunk)
           h == handed[f]
<1>3. /\ requests[q] \in Request /\ k \in Keys /\ FolderOf(q) = f /\ RequestKey(q) = k
      /\ sessions[k].state \notin {"revoked", "finalizing", "completed"}
  <2>1. RequestKey(q) = k /\ FolderOf(q) = f
    BY <1>2 DEF RequestKey, FolderOf
  <2> QED BY <1>1, <2>1, ServedIsOpen, BusyIs
<1>4. /\ k[1] = u /\ k[2] = PodcastOf[r] /\ f \in Users \X RecordingIDs /\ chunk \in Chunk
      /\ requests[q].final \in BOOLEAN
  BY <1>2, <1>3 DEF Request, Chunk, KeyOf
<1>5. /\ ~Ended(u, r) /\ requests[q].index = Len(sessions[k].chunks) /\ Len(h) < MaxURLs
      /\ sessions[k].chunks # <<>> => sessions[k].chunks[1].recording = r
  <2>1. ReadsHold(q)
    BY DEF OrderlyInvariant
  <2> QED BY <1>1, <1>2, <1>3, <2>1 DEF ReadsHold
<1>6. /\ s \in OpenSession /\ s.chunks = sessions[k].chunks
      /\ s.state \notin {"revoked", "finalizing", "completed"}
  <2>1. s \in OpenSession
    BY <1>3, <1>4, OpenedType
  <2>2. CASE sessions[k].state = "absent"
    <3>1. sessions[k] = NoSession
      BY <1>3, <2>2 DEF TypeOK, OpenSession
    <3> QED BY <2>1, <2>2, <3>1 DEF Opened, NoSession
  <2>3. CASE sessions[k].state # "absent"
    BY <1>3, <2>1, <2>3 DEF Opened
  <2> QED BY <2>1, <2>2, <2>3
<1>7. /\ t \in OpenSession /\ t.chunks # <<>> /\ Len(s.chunks) \in Nat
      /\ Len(t.chunks) = Len(s.chunks) + 1 /\ t.chunks[1].recording = r
      /\ t.state = IF chunk.final THEN "finalizing" ELSE s.state
  <2>1. /\ t \in OpenSession /\ t.chunks # <<>> /\ Len(s.chunks) \in Nat
        /\ Len(t.chunks) = Len(s.chunks) + 1
        /\ t.chunks[1] = (IF s.chunks = <<>> THEN chunk ELSE s.chunks[1])
        /\ t.state = IF chunk.final THEN "finalizing" ELSE s.state
    BY <1>4, <1>6, TrackedIs
  <2> QED BY <1>5, <1>6, <2>1
<1>8. /\ requests' = [requests EXCEPT ![q].step = "tracked"] /\ handed' = handed
      /\ sessions' = [sessions EXCEPT ![k] = t] /\ cleaners' = cleaners
      /\ monitors' = IF chunk.final THEN [monitors EXCEPT ![k] = @ + 1] ELSE monitors
      /\ queue' \subseteq IF chunk.final THEN queue \cup {EventOf(u, t)} ELSE queue
  BY <1>2, <1>6 DEF TrackChunk, Rejects, NotifyRecordingComplete
<1>9. /\ sessions'[k] = t
      /\ \A j \in Keys : j # k => sessions'[j] = sessions[j] /\ monitors'[j] = monitors[j]
      /\ \A o \in Requests : o # q => requests'[o] = requests[o]
      /\ requests'[q] = [requests[q] EXCEPT !.step = "tracked"]
  BY <1>3, <1>4, <1>8 DEF TypeOK
<1>10. /\ requests'[q].step = "tracked" /\ requests'[q].user = u /\ requests'[q].recording = r
       /\ requests'[q].index = Len(s.chunks) /\ (requests'[q].final <=> chunk.final)
  BY <1>2, <1>3, <1>5, <1>6, <1>9 DEF Request
<1>11. Busy(q)' /\ ~Untracked(q)' /\ FolderOf(q)' = f /\ RequestKey(q)' = k
  BY <1>10 DEF Busy, Untracked, FolderOf, RequestKey, KeyOf
<1>12. OneRequestEach'
  <2> SUFFICES ASSUME NEW o \in Requests, NEW p \in Requests, Busy(o)', Busy(p)',
                      RequestKey(o)' = RequestKey(p)'
               PROVE  o = p
    BY DEF OneRequestEach
  <2>1. \A a \in {o, p} : Busy(a) /\ RequestKey(a)' = RequestKey(a)
    BY <1>1, <1>3, <1>9, <1>11 DEF Busy, RequestKey, KeyOf
  <2> QED BY <2>1 DEF OrderlyInvariant, OneRequestEach
<1>13. Len(h) \in Nat /\ ChunksCut(u, r) = Len(h) /\ ~HasFinal(u, r)
  <2>1. /\ Len(h) \in Nat /\ ChunksCut(u, r) = Len(h) + 0
        /\ HasFinal(u, r) => Ended(u, r)
    BY <1>1, <1>3, CutIs DEF OrderlyInvariant
  <2> QED BY <1>5, <2>1
<1>14. ChunksCut(u, r)' = Len(h) + 1 /\ (Ended(u, r)' <=> chunk.final)
  <2>1. q \in Asking(u, r)' /\ (HasFinal(u, r)' <=> HasFinal(u, r))
    BY <1>8, <1>10 DEF Asking, HasFinal
  <2>2. ASSUME NEW o \in Asking(u, r)', requests'[o].step = "tracked" PROVE o = q
    <3>1. o \in Requests /\ RequestKey(o)' = k /\ Busy(o)'
      BY <2>2 DEF Asking, RequestKey, KeyOf, Busy
    <3> QED BY <1>11, <1>12, <3>1 DEF OneRequestEach
  <2>3. ChunksCut(u, r)' = Len(handed'[f]) + 1
    BY <1>10, <2>1 DEF ChunksCut
  <2>4. Ended(u, r)' <=> requests'[q].final
    BY <1>10, <1>13, <2>1, <2>2 DEF Ended
  <2> QED BY <1>8, <1>10, <2>3, <2>4
<1>15. UpTo(Len(s.chunks), Len(h)) /\ \A i \in DOMAIN h : UpTo(h[i].index, i - 1)
  <2>1. Counted(u, r)
    BY <1>4 DEF OrderlyInvariant
  <2>2. Held(sessions[k], r) = Len(s.chunks)
    BY <1>5, <1>6 DEF Held
  <2> QED BY <1>5, <1>13, <2>1, <2>2 DEF Counted
<1> HIDE DEF k, f, s, t, h, chunk
<1>16. \A v \in Users, w \in RecordingIDs :
         <<v, w>> # f => /\ ChunksCut(v, w)' = ChunksCut(v, w)
                         /\ Ended(v, w)' <=> Ended(v, w)
  BY <1>3, <1>8, <1>9, <1>11, CutElsewhere
<1>17. \A v \in Users, w \in RecordingIDs : Counted(v, w)'
  <2> SUFFICES ASSUME NEW v \in Users, NEW w \in RecordingIDs PROVE Counted(v, w)'
    OBVIOUS
  <2>1. CASE <<v, w>> = f
    <3>1. v = u /\ w = r /\ KeyOf(v, w) = k
      BY <2>1 DEF f, k
    <3>2. Held(t, r) = Len(t.chunks)
      BY <1>7 DEF Held
    <3>3. \A i \in DOMAIN handed'[<<v, w>>] : UpTo(handed'[<<v, w>>][i].index, i - 1)
      BY <1>8, <1>15, <2>1 DEF h
    <3>4. Len(h) + 1 <= MaxURLs
      BY <1>5, <1>13, BoundAssumption
    <3>5. UpTo(Len(t.chunks), Len(h) + 1)
      BY <1>7, <1>13, <1>15 DEF UpTo
    <3>6. sessions'[KeyOf(v, w)] = t
      BY <1>9, <3>1
    <3>7. Counted(v, w)' <=> /\ ChunksCut(v, w)' <= MaxURLs
                             /\ \A i \in DOMAIN handed'[<<v, w>>] : UpTo(handed'[<<v, w>>][i].index, i - 1)
                             /\ ~Ended(v, w)' => UpTo(Held(sessions'[KeyOf(v, w)], w), ChunksCut(v, w)')
      BY DEF Counted, UpTo, KeyOf, Held
    <3> QED BY <1>14, <3>1, <3>2, <3>3, <3>4, <3>5, <3>6, <3>7
  <2>2. CASE <<v, w>> # f
    <3>1. Counted(v, w) /\ KeyOf(v, w) \in Keys
      BY PodcastOfAssumption DEF OrderlyInvariant, KeyOf, Keys
    <3>2. Held(sessions'[KeyOf(v, w)], w) = Held(sessions[KeyOf(v, w)], w)
      <4>1. CASE KeyOf(v, w) # k
        BY <1>9, <3>1, <4>1
      <4>2. CASE KeyOf(v, w) = k
        <5>1. w # r
          BY <1>4, <2>2, <4>2 DEF KeyOf, f
        <5> QED BY <1>5, <1>7, <1>9, <4>2, <5>1 DEF Held
      <4> QED BY <4>1, <4>2
    <3>3. Counted(v, w)' <=> /\ ChunksCut(v, w)' <= MaxURLs
                             /\ \A i \in DOMAIN handed'[<<v, w>>] : UpTo(handed'[<<v, w>>][i].index, i - 1)
                             /\ ~Ended(v, w)' => UpTo(Held(sessions'[KeyOf(v, w)], w), ChunksCut(v, w)')
      BY DEF Counted, UpTo, KeyOf, Held
    <3>4. ChunksCut(v, w)' = ChunksCut(v, w) /\ (Ended(v, w)' <=> Ended(v, w))
      BY <1>16, <2>2
    <3> QED BY <1>8, <3>1, <3>2, <3>3, <3>4 DEF Counted
  <2> QED BY <2>1, <2>2
<1>18. \A v \in Users, w \in RecordingIDs : Ended(v, w) => Ended(v, w)'
  BY <1>5, <1>16 DEF f
<1>19. \A j \in Keys : EndsOnce(j)'
  <2> SUFFICES ASSUME NEW j \in Keys PROVE EndsOnce(j)'
    OBVIOUS
  <2>1. EndsOnce(j) /\ monitors[j] \in Nat
    BY DEF OrderlyInvariant, TypeOK
  <2>2. CASE j = k
    <3>1. sessions[k].state \notin {"finalizing", "completed"} /\ monitors[k] = 0 /\ cleaners[k] = 0
      BY <1>3, <2>1, <2>2 DEF EndsOnce
    <3>2. monitors'[k] = IF chunk.final THEN 1 ELSE 0
      BY <1>3, <1>8, <3>1 DEF TypeOK
    <3> QED BY <1>4, <1>6, <1>7, <1>8, <1>9, <1>14, <2>2, <3>1, <3>2 DEF EndsOnce
  <2>3. CASE j # k
    <3>1. sessions[j].chunks # <<>> => sessions[j].chunks[1].recording \in RecordingIDs
      <4>1. sessions[j] \in OpenSession \/ sessions[j] = NoSession
        BY DEF TypeOK
      <4>2. CASE sessions[j] \in OpenSession
        <5>1. sessions[j].chunks \in Seq(Chunk)
          BY <4>2 DEF OpenSession
        <5>2. ASSUME sessions[j].chunks # <<>> PROVE sessions[j].chunks[1] \in Chunk
          BY <5>1, <5>2, EmptySeq, LenProperties, ElementOfSeq
        <5> QED BY <5>2 DEF Chunk
      <4> QED BY <4>1, <4>2 DEF NoSession
    <3>2. j[1] \in Users
      BY DEF Keys
    <3> QED BY <1>8, <1>9, <1>18, <2>1, <2>3, <3>1, <3>2 DEF EndsOnce
  <2> QED BY <2>2, <2>3
<1>20. \A o \in Requests : ReadsHold(o)'
  <2> SUFFICES ASSUME NEW o \in Requests PROVE ReadsHold(o)'
    OBVIOUS
  <2>1. CASE o = q
    BY <1>8, <1>10, <1>11, <1>15, <2>1 DEF ReadsHold, h
  <2>2. CASE o # q /\ Busy(o)
    <3>1. RequestKey(o) # k
      BY <1>1, <1>3, <2>2 DEF OrderlyInvariant, OneRequestEach
    <3>2. /\ RequestKey(o) \in Keys /\ FolderOf(o) # f
          /\ requests[o].user \in Users /\ requests[o].recording \in RecordingIDs
      BY <2>2, <3>1, BusyIs DEF FolderOf, RequestKey, k, f, Request
    <3>3. /\ sessions'[RequestKey(o)] = sessions[RequestKey(o)] /\ requests'[o] = requests[o]
          /\ Ended(requests[o].user, requests[o].recording)'
               <=> Ended(requests[o].user, requests[o].recording)
      BY <1>9, <1>16, <2>2, <3>1, <3>2 DEF FolderOf, RequestKey
    <3>4. ReadsHold(o) /\ RequestKey(o)' = RequestKey(o) /\ FolderOf(o)' = FolderOf(o)
      BY <3>3 DEF OrderlyInvariant, RequestKey, FolderOf, KeyOf
    <3>5. UpTo(requests[o].index, Len(handed[FolderOf(o)]))'
             <=> UpTo(requests[o].index, Len(handed[FolderOf(o)]))
      BY <1>8, <3>3, <3>4 DEF UpTo
    <3> QED BY <1>8, <3>3, <3>4, <3>5 DEF ReadsHold, Untracked
  <2>3. CASE o # q /\ ~Busy(o)
    BY <1>9, <2>3 DEF ReadsHold, Busy, Untracked
  <2> QED BY <2>1, <2>2, <2>3
<1>21. \A n \in queue' : CountsAll(n)'
  <2> SUFFICES ASSUME NEW n \in queue' PROVE CountsAll(n)'
    OBVIOUS
  <2>1. CASE n \in queue
    <3>1. CountsAll(n) /\ n.user \in Users /\ n.recording \in RecordingIDs
      BY <2>1 DEF OrderlyInvariant, TypeOK, Event
    <3>2. "crash" \notin Faults => <<n.user, n.recording>> # f
      BY <1>5, <3>1 DEF CountsAll, f
    <3> QED BY <1>8, <1>16, <3>1, <3>2 DEF CountsAll
  <2>2. CASE n \notin queue
    <3>1. chunk.final /\ n = EventOf(u, t)
      BY <1>8, <2>2
    <3>2. n.user = u /\ n.recording = r /\ n.total = Len(t.chunks)
      BY <1>7, <3>1 DEF EventOf
    <3>3. handed'[<<u, r>>] = h
      BY <1>8 DEF f, h
    <3>4. n.total \in Nat \ {0} /\ UpTo(n.total, Len(h) + 1) /\ n.total <= MaxURLs
      BY <1>5, <1>7, <1>13, <1>15, <3>2, BoundAssumption DEF UpTo
    <3> QED BY <1>14, <3>1, <3>2, <3>3, <3>4 DEF CountsAll, UpTo
  <2> QED BY <2>1, <2>2
<1> QED BY <1>12, <1>17, <1>19, <1>20, <1>21 DEF OrderlyInvariant

\* A step of a request that cuts nothing: its reads must hold and it must be
\* alone, and what it is answered keeps the order.
LEMMA OrderlyRequest ==
  ASSUME TypeOK, OrderlyInvariant, UNCHANGED <<sessions, monitors, cleaners, queue>>,
         NEW q \in Requests, \A o \in Requests : o # q => requests'[o] = requests[o],
         \A v \in Users, w \in RecordingIDs :
           /\ ChunksCut(v, w)' = ChunksCut(v, w) /\ (Ended(v, w)' <=> Ended(v, w))
           /\ \A i \in DOMAIN handed'[<<v, w>>] : UpTo(handed'[<<v, w>>][i].index, i - 1)
           /\ Len(handed[<<v, w>>]) \in Nat /\ Len(handed'[<<v, w>>]) \in Nat
           /\ Len(handed[<<v, w>>]) <= Len(handed'[<<v, w>>]),
         \A o \in Requests : o # q /\ Busy(o) => handed'[FolderOf(o)] = handed[FolderOf(o)],
         ReadsHold(q)',
         \A o \in Requests : o # q /\ Busy(o) /\ Busy(q)' => RequestKey(o) # RequestKey(q)'
  PROVE  OrderlyInvariant'
<1>1. ASSUME NEW v \in Users, NEW w \in RecordingIDs PROVE Counted(v, w)'
  <2>1. Counted(v, w)
    BY DEF OrderlyInvariant
  <2>2. Counted(v, w)' <=> /\ ChunksCut(v, w)' <= MaxURLs
                           /\ \A i \in DOMAIN handed'[<<v, w>>] : UpTo(handed'[<<v, w>>][i].index, i - 1)
                           /\ ~Ended(v, w)' => UpTo(Held(sessions'[KeyOf(v, w)], w), ChunksCut(v, w)')
    BY DEF Counted, UpTo, KeyOf, Held
  <2> QED BY <2>1, <2>2 DEF Counted
<1>2. ASSUME NEW k \in Keys PROVE EndsOnce(k)'
  <2>1. EndsOnce(k) /\ k[1] \in Users
    BY DEF OrderlyInvariant, Keys
  <2>2. sessions[k].chunks # <<>> => sessions[k].chunks[1].recording \in RecordingIDs
    <3>1. sessions[k] \in OpenSession \/ sessions[k] = NoSession
      BY DEF TypeOK
    <3>2. CASE sessions[k] \in OpenSession
      <4>1. sessions[k].chunks \in Seq(Chunk)
        BY <3>2 DEF OpenSession
      <4>2. ASSUME sessions[k].chunks # <<>> PROVE sessions[k].chunks[1] \in Chunk
        BY <4>1, <4>2, EmptySeq, LenProperties, ElementOfSeq
      <4> QED BY <4>2 DEF Chunk
    <3> QED BY <3>1, <3>2 DEF NoSession
  <2> QED BY <2>1, <2>2 DEF EndsOnce
<1>3. ASSUME NEW n \in queue' PROVE CountsAll(n)'
  <2>1. CountsAll(n) /\ n.user \in Users /\ n.recording \in RecordingIDs /\ n.total \in Nat
    BY DEF OrderlyInvariant, TypeOK, Event
  <2> QED BY <2>1 DEF CountsAll
<1>4. ASSUME NEW o \in Requests, o # q
      PROVE  /\ ReadsHold(o)' /\ (Busy(o)' <=> Busy(o)) /\ RequestKey(o)' = RequestKey(o)
  <2>1. /\ requests'[o] = requests[o] /\ ReadsHold(o) /\ RequestKey(o)' = RequestKey(o)
        /\ FolderOf(o)' = FolderOf(o) /\ (Busy(o)' <=> Busy(o)) /\ (Untracked(o)' <=> Untracked(o))
    BY <1>4 DEF OrderlyInvariant, RequestKey, FolderOf, KeyOf, Busy, Untracked
  <2>2. CASE Busy(o)
    <3>1. handed'[FolderOf(o)] = handed[FolderOf(o)]
      BY <1>4, <2>2
    <3>2. requests[o].user \in Users /\ requests[o].recording \in RecordingIDs
      BY <2>2, BusyIs DEF Request
    <3>3. Ended(requests[o].user, requests[o].recording)'
            <=> Ended(requests[o].user, requests[o].recording)
      BY <2>1, <3>2
    <3>4. UpTo(requests[o].index, Len(handed[FolderOf(o)]))'
             <=> UpTo(requests[o].index, Len(handed[FolderOf(o)]))
      BY <2>1, <3>1 DEF UpTo
    <3> QED BY <2>1, <3>1, <3>3, <3>4 DEF ReadsHold
  <2>3. CASE ~Busy(o)
    BY <2>1, <2>3 DEF ReadsHold, Busy, Untracked
  <2> QED BY <2>1, <2>2, <2>3
<1>5. OneRequestEach'
  <2> SUFFICES ASSUME NEW o \in Requests, NEW p \in Requests, Busy(o)', Busy(p)',
                      RequestKey(o)' = RequestKey(p)', o # p
               PROVE  FALSE
    BY DEF OneRequestEach
  <2>1. CASE o # q /\ p # q
    BY <1>4, <2>1 DEF OrderlyInvariant, OneRequestEach
  <2>2. CASE o = q \/ p = q
    BY <1>4, <2>2
  <2> QED BY <2>1, <2>2
<1>6. \A o \in Requests : ReadsHold(o)'
  BY <1>4
<1> QED BY <1>1, <1>2, <1>3, <1>5, <1>6 DEF OrderlyInvariant

\* If it is not tracked, before or after, and answers nothing, nothing is cut.
LEMMA OrderlyUntracked ==
  ASSUME TypeOK, OrderlyInvariant, UNCHANGED <<handed, sessions, monitors, cleaners, queue>>,
         NEW q \in Requests, \A o \in Requests : o # q => requests'[o] = requests[o],
         requests[q].step # "tracked", requests'[q].step # "tracked",
         ReadsHold(q)',
         \A o \in Requests : o # q /\ Busy(o) /\ Busy(q)' => RequestKey(o) # RequestKey(q)'
  PROVE  OrderlyInvariant'
<1>1. ASSUME NEW v \in Users, NEW w \in RecordingIDs
      PROVE  /\ ChunksCut(v, w)' = ChunksCut(v, w) /\ (Ended(v, w)' <=> Ended(v, w))
             /\ \A i \in DOMAIN handed'[<<v, w>>] : UpTo(handed'[<<v, w>>][i].index, i - 1)
             /\ Len(handed[<<v, w>>]) \in Nat /\ Len(handed'[<<v, w>>]) \in Nat
             /\ Len(handed[<<v, w>>]) <= Len(handed'[<<v, w>>])
  <2>1. ChunksCut(v, w)' = ChunksCut(v, w) /\ (Ended(v, w)' <=> Ended(v, w))
    BY CutElsewhere
  <2>2. handed' = handed /\ Len(handed[<<v, w>>]) \in Nat /\ Counted(v, w)
    BY CutIs DEF OrderlyInvariant
  <2> QED BY <2>1, <2>2 DEF Counted
<1> QED BY <1>1, OrderlyRequest

\* An answer cuts nothing: what it answers was cut when its chunk was tracked.
LEMMA OrderlyAnswer ==
  ASSUME TypeOK, OrderlyInvariant, NEW q \in Requests, Answer(q)
  PROVE  OrderlyInvariant'
<1>1. PICK f : f = FolderOf(q)
  OBVIOUS
<1>2. PICK given : given = [index |-> requests[q].index, final |-> requests[q].final]
  OBVIOUS
<1>3. /\ requests[q] \in Request /\ f \in Users \X RecordingIDs
      /\ given \in [index : Nat, final : BOOLEAN]
      /\ handed' = [handed EXCEPT ![f] = Append(@, given)]
  BY <1>1, <1>2, AnswerIs DEF FolderOf
<1>4. /\ UNCHANGED <<sessions, monitors, cleaners, queue>>
      /\ requests[q].step = "tracked" /\ Busy(q)
      /\ requests'[q] = NoRequest /\ requests'[q].step = "idle"
      /\ \A o \in Requests : o # q => requests'[o] = requests[o]
  BY DEF Answer, Busy, TypeOK, NoRequest
<1> DEFINE h == handed[f]
           g == Append(h, given)
<1>5. /\ handed'[f] = g /\ \A e \in Users \X RecordingIDs : e # f => handed'[e] = handed[e]
      /\ Len(h) \in Nat /\ Len(g) = Len(h) + 1 /\ g[Len(h) + 1] = given
      /\ DOMAIN h = 1..Len(h) /\ DOMAIN g = 1..(Len(h) + 1)
      /\ \A i \in 1..Len(h) : g[i] = h[i]
  <2>1. h \in Seq([index : Nat, final : BOOLEAN])
    BY <1>3 DEF TypeOK
  <2> QED BY <1>3, <2>1, AppendIs DEF TypeOK
<1> HIDE DEF h, g
<1>6. PICK u \in Users, r \in RecordingIDs : f = <<u, r>> /\ u = requests[q].user /\ r = requests[q].recording
  BY <1>1, <1>3 DEF FolderOf, Request
<1>7. ~Busy(q)' /\ ReadsHold(q)'
  BY <1>4 DEF Busy, ReadsHold, Untracked
<1>8. ASSUME NEW o \in Requests, o # q, Busy(o) PROVE FolderOf(o) # f
  BY <1>1, <1>4, <1>8 DEF OrderlyInvariant, OneRequestEach, FolderOf, RequestKey
<1>9. /\ ChunksCut(u, r)' = ChunksCut(u, r) /\ (Ended(u, r)' <=> Ended(u, r))
  <2>1. /\ ChunksCut(u, r) = Len(h) + 1
        /\ Ended(u, r) <=> HasFinal(u, r) \/ requests[q].final
    BY <1>1, <1>4, <1>6, CutIs DEF OrderlyInvariant, h
  <2>2. \A o \in Requests : ~(requests'[o].step = "tracked" /\ o \in Asking(u, r)')
    BY <1>4, <1>6, <1>8 DEF Asking, FolderOf, Busy
  <2>3. ChunksCut(u, r)' = Len(g) + 0 /\ (Ended(u, r)' <=> HasFinal(u, r)')
    BY <1>5, <1>6, <2>2 DEF ChunksCut, Ended, Asking
  <2>4. HasFinal(u, r)' <=> \E i \in DOMAIN g : g[i].final
    BY <1>5, <1>6 DEF HasFinal
  <2>5. HasFinal(u, r) <=> \E i \in DOMAIN h : h[i].final
    BY <1>6 DEF HasFinal, h
  <2>6. (\E i \in DOMAIN g : g[i].final) <=> (\E i \in DOMAIN h : h[i].final) \/ given.final
    BY <1>5
  <2>7. given.final = requests[q].final
    BY <1>2
  <2> QED BY <1>5, <2>1, <2>3, <2>4, <2>5, <2>6, <2>7
<1>10. UpTo(given.index, Len(h)) /\ \A i \in DOMAIN h : UpTo(h[i].index, i - 1)
  <2>1. ReadsHold(q) /\ Counted(u, r)
    BY DEF OrderlyInvariant
  <2> QED BY <1>1, <1>2, <1>4, <1>6, <2>1 DEF ReadsHold, Counted, h
<1>11. ASSUME NEW v \in Users, NEW w \in RecordingIDs
       PROVE  /\ ChunksCut(v, w)' = ChunksCut(v, w) /\ (Ended(v, w)' <=> Ended(v, w))
              /\ \A i \in DOMAIN handed'[<<v, w>>] : UpTo(handed'[<<v, w>>][i].index, i - 1)
              /\ Len(handed[<<v, w>>]) \in Nat /\ Len(handed'[<<v, w>>]) \in Nat
              /\ Len(handed[<<v, w>>]) <= Len(handed'[<<v, w>>])
  <2>1. CASE <<v, w>> = f
    <3>1. v = u /\ w = r
      BY <1>6, <2>1
    <3>2. ASSUME NEW i \in 1..(Len(h) + 1) PROVE UpTo(g[i].index, i - 1)
      <4>1. CASE i = Len(h) + 1
        <5>1. i - 1 = Len(h)
          BY <1>5, <4>1
        <5> QED BY <1>5, <1>10, <4>1, <5>1
      <4>2. CASE i # Len(h) + 1
        <5>1. i \in 1..Len(h)
          BY <1>5, <4>2
        <5> QED BY <1>5, <1>10, <5>1
      <4> QED BY <4>1, <4>2
    <3>3. handed'[<<v, w>>] = g /\ handed[<<v, w>>] = h
      BY <1>5, <2>1 DEF h
    <3>4. Len(h) \in Nat /\ Len(g) \in Nat /\ Len(h) <= Len(g)
      BY <1>5
    <3> QED BY <1>5, <1>9, <3>1, <3>2, <3>3, <3>4
  <2>2. CASE <<v, w>> # f
    <3>1. handed'[<<v, w>>] = handed[<<v, w>>]
      BY <1>5, <2>2
    <3>2. ChunksCut(v, w)' = ChunksCut(v, w) /\ (Ended(v, w)' <=> Ended(v, w))
      BY <1>1, <1>4, <2>2, <3>1, CutElsewhere
    <3>3. Counted(v, w) /\ Len(handed[<<v, w>>]) \in Nat
      BY CutIs DEF OrderlyInvariant
    <3> QED BY <3>1, <3>2, <3>3 DEF Counted
  <2> QED BY <2>1, <2>2
<1>12. \A o \in Requests : o # q /\ Busy(o) => handed'[FolderOf(o)] = handed[FolderOf(o)]
  BY <1>5, <1>8, BusyIs
<1> QED BY <1>4, <1>7, <1>11, <1>12, OrderlyRequest

\* A step of one session that no untracked request speaks of and that keeps the
\* counts.
LEMMA OrderlySession ==
  ASSUME TypeOK, OrderlyInvariant, UNCHANGED <<requests, handed, queue>>,
         NEW k \in Keys,
         \A j \in Keys \ {k} : /\ sessions'[j] = sessions[j] /\ monitors'[j] = monitors[j]
                               /\ cleaners'[j] = cleaners[j],
         EndsOnce(k)',
         \A r \in RecordingIDs :
           Ended(k[1], r) \/ Held(sessions'[k], r) = Held(sessions[k], r),
         \A q \in Requests :
           Untracked(q) /\ RequestKey(q) = k => sessions'[k].chunks = sessions[k].chunks
  PROVE  OrderlyInvariant'
<1>1. ASSUME NEW v \in Users, NEW w \in RecordingIDs PROVE Counted(v, w)'
  <2>1. KeyOf(v, w) \in Keys /\ KeyOf(v, w)[1] = v /\ Counted(v, w)
    BY PodcastOfAssumption DEF KeyOf, Keys, OrderlyInvariant
  <2>2. Ended(v, w) \/ Held(sessions'[KeyOf(v, w)], w) = Held(sessions[KeyOf(v, w)], w)
    BY <2>1
  <2> QED BY <2>1, <2>2 DEF Counted, Ended, ChunksCut, Asking, HasFinal, Held
<1>2. ASSUME NEW j \in Keys PROVE EndsOnce(j)'
  BY DEF OrderlyInvariant, EndsOnce, Ended, Asking, HasFinal
<1>3. ASSUME NEW n \in queue' PROVE CountsAll(n)'
  <2>1. CountsAll(n)
    BY DEF OrderlyInvariant
  <2>2. Ended(n.user, n.recording)' <=> Ended(n.user, n.recording)
    BY DEF Ended, Asking, HasFinal
  <2>3. ChunksCut(n.user, n.recording)' = ChunksCut(n.user, n.recording)
    BY DEF ChunksCut, Asking
  <2> QED BY <2>1, <2>2, <2>3 DEF CountsAll
<1>4. ASSUME NEW q \in Requests PROVE ReadsHold(q)'
  <2>1. ReadsHold(q)
    BY DEF OrderlyInvariant
  <2>2. CASE Untracked(q)
    <3>1. RequestKey(q) \in Keys
      BY <2>2, BusyIs DEF Untracked, Busy
    <3>2. sessions'[RequestKey(q)].chunks = sessions[RequestKey(q)].chunks
      BY <2>2, <3>1
    <3> QED BY <2>1, <2>2, <3>2
            DEF ReadsHold, Ended, Asking, HasFinal, Untracked, FolderOf, RequestKey, KeyOf, UpTo
  <2>3. CASE ~Untracked(q)
    BY <2>1, <2>3 DEF ReadsHold, Untracked, FolderOf, UpTo
  <2> QED BY <2>2, <2>3
<1>5. OneRequestEach'
  BY DEF OrderlyInvariant, OneRequestEach, Busy, RequestKey, KeyOf
<1> QED BY <1>1, <1>2, <1>3, <1>4, <1>5 DEF OrderlyInvariant

LEMMA OrderlyStep ==
  ASSUME Orderly, TypeOK, TypeOK', OrderlyInvariant, [Next]_vars
  PROVE  OrderlyInvariant'
<1>1. ASSUME UNCHANGED <<requests, handed, sessions, monitors, cleaners, queue>>
      PROVE  OrderlyInvariant'
  <2>1. \A v \in Users, w \in RecordingIDs : Counted(v, w)'
    BY <1>1 DEF OrderlyInvariant, Counted, Ended, ChunksCut, Asking, HasFinal
  <2>2. \A k \in Keys : EndsOnce(k)'
    BY <1>1 DEF OrderlyInvariant, EndsOnce, Ended, Asking, HasFinal
  <2>3. \A n \in queue' : CountsAll(n)'
    BY <1>1 DEF OrderlyInvariant, CountsAll, Ended, ChunksCut, Asking, HasFinal
  <2>4. OneRequestEach'
    BY <1>1 DEF OrderlyInvariant, OneRequestEach, Busy, RequestKey, KeyOf
  <2>5. \A q \in Requests : ReadsHold(q)'
    BY <1>1 DEF OrderlyInvariant, ReadsHold, Ended, Asking, HasFinal, Untracked, FolderOf,
                RequestKey, KeyOf, UpTo
  <2> QED BY <2>1, <2>2, <2>3, <2>4, <2>5 DEF OrderlyInvariant
<1>2. ASSUME NEW r \in RecordingIDs, RecordingStarts(r) \/ RecordingEnds(r) \/ GraceEnds(r)
      PROVE  OrderlyInvariant'
  BY <1>1, <1>2 DEF RecordingStarts, RecordingEnds, GraceEnds, Turn
<1>3. ASSUME NEW q \in Requests, NEW u \in Users, NEW r \in RecordingIDs, NEW final \in BOOLEAN,
             NEW asked \in AskedIndexes, Permit(q, u, r, final, asked)
      PROVE  OrderlyInvariant'
  <2> DEFINE k == KeyOf(u, r)
  <2>1. /\ UNCHANGED <<handed, sessions, monitors, cleaners, queue>>
        /\ requests[q].step = "idle"
        /\ requests'[q] = [step |-> "permitted", user |-> u, recording |-> r,
                           final |-> final, index |-> 0]
        /\ \A o \in Requests : o # q => requests'[o] = requests[o]
    BY <1>3 DEF Permit, TypeOK, Orderly
  <2>2. /\ ~HasFinal(u, r)
        /\ \A i \in DOMAIN sessions[k].chunks : sessions[k].chunks[i].recording = r
        /\ \A s \in RecordingIDs : PodcastOf[s] = PodcastOf[r] => Asking(u, s) = {}
        /\ Len(handed[<<u, r>>]) < MaxURLs
    <3>1. /\ ~HasFinal(u, r)
          /\ \A i \in DOMAIN sessions[k].chunks : sessions[k].chunks[i].recording = r
          /\ \A s \in RecordingIDs : PodcastOf[s] = PodcastOf[r] => Asking(u, s) = {}
          /\ Len(handed[<<u, r>>]) + Cardinality(Asking(u, r)) < MaxURLs
      BY <1>3 DEF Permit, ClientAsks, Orderly
    <3>2. Cardinality(Asking(u, r)) = 0
      BY <3>1, FS_EmptySet
    <3>3. handed[<<u, r>>] \in Seq([index : Nat, final : BOOLEAN])
      BY DEF TypeOK
    <3>4. Len(handed[<<u, r>>]) \in Nat
      BY <3>3, LenProperties
    <3> QED BY <3>1, <3>2, <3>4
  <2>3. sessions[k].chunks # <<>> => sessions[k].chunks[1].recording = r
    <3>1. k \in Keys
      BY PodcastOfAssumption DEF KeyOf, Keys
    <3>2. CASE sessions[k] \in OpenSession
      <4>1. sessions[k].chunks \in Seq(Chunk)
        BY <3>2 DEF OpenSession
      <4>2. sessions[k].chunks # <<>> => 1 \in DOMAIN sessions[k].chunks
        BY <4>1, EmptySeq, LenProperties
      <4> QED BY <2>2, <4>2
    <3>3. CASE sessions[k] = NoSession
      BY <3>3 DEF NoSession
    <3> QED BY <3>1, <3>2, <3>3 DEF TypeOK
  <2>4. ~Ended(u, r)'
    <3>1. ~Ended(u, r)
      BY <2>2 DEF Ended
    <3>2. Ended(u, r)' <=> Ended(u, r)
      BY <2>1, CutElsewhere
    <3> QED BY <3>1, <3>2
  <2>5. ReadsHold(q)'
    BY <2>1, <2>2, <2>3, <2>4 DEF ReadsHold, RequestKey, FolderOf, Untracked, KeyOf
  <2>6. ASSUME NEW o \in Requests, o # q, Busy(o) PROVE RequestKey(o) # RequestKey(q)'
    <3>1. requests[o] \in Request
      BY <2>6, BusyIs
    <3>2. o \in Asking(requests[o].user, requests[o].recording)
      BY DEF Asking
    <3>3. RequestKey(q)' = k
      BY <2>1 DEF RequestKey, KeyOf
    <3> QED BY <2>2, <3>1, <3>2, <3>3 DEF RequestKey, KeyOf, Request
  <2> QED BY <2>1, <2>5, <2>6, OrderlyUntracked
<1>4. ASSUME NEW q \in Requests, ReadIndex(q) PROVE OrderlyInvariant'
  <2>1. /\ UNCHANGED <<handed, sessions, monitors, cleaners, queue>> /\ Busy(q) /\ Untracked(q)
        /\ requests[q].step = "permitted"
        /\ \A o \in Requests : o # q => requests'[o] = requests[o]
    BY <1>4 DEF ReadIndex, TypeOK, Busy, Untracked
  <2>2. requests[q] \in Request /\ ReadsHold(q) /\ requests[q].index = 0
    BY <2>1, BusyIs DEF OrderlyInvariant, ReadsHold
  <2>3. requests'[q] = [requests[q] EXCEPT !.step = "indexed",
                          !.index = Len(sessions[RequestKey(q)].chunks)]
    BY <1>4, <2>2 DEF ReadIndex, ActualIndex, TypeOK, RequestKey
  <2>4. /\ requests'[q].step = "indexed" /\ requests'[q].user = requests[q].user
        /\ requests'[q].recording = requests[q].recording
        /\ requests'[q].index = Len(sessions[RequestKey(q)].chunks)
    BY <2>2, <2>3 DEF Request
  <2>5. RequestKey(q)' = RequestKey(q) /\ FolderOf(q)' = FolderOf(q)
    BY <2>4 DEF RequestKey, KeyOf, FolderOf
  <2>6. ReadsHold(q)'
    <3>1. Ended(requests[q].user, requests[q].recording)'
            <=> Ended(requests[q].user, requests[q].recording)
      BY <2>1, <2>2, <2>4, CutElsewhere DEF Request
    <3> QED BY <2>1, <2>2, <2>4, <2>5, <3>1 DEF ReadsHold
  <2>7. \A o \in Requests : o # q /\ Busy(o) => RequestKey(o) # RequestKey(q)'
    BY <2>1, <2>5 DEF OrderlyInvariant, OneRequestEach
  <2> QED BY <2>1, <2>4, <2>6, <2>7, OrderlyUntracked
<1>5. ASSUME NEW q \in Requests, PresignFails(q) PROVE OrderlyInvariant'
  <2>1. /\ UNCHANGED <<handed, sessions, monitors, cleaners, queue>> /\ ~Busy(q)'
        /\ requests[q].step # "tracked" /\ requests'[q].step = "idle"
        /\ \A o \in Requests : o # q => requests'[o] = requests[o]
    BY <1>5 DEF PresignFails, TypeOK, Busy, NoRequest
  <2>2. ReadsHold(q)'
    BY <2>1 DEF ReadsHold, Untracked
  <2> QED BY <2>1, <2>2, OrderlyUntracked
<1>6. ASSUME NEW u \in Users, NEW p \in Podcasts, NEW id \in UploadIDs, StartUploadSession(u, p, id)
      PROVE  OrderlyInvariant'
  <2> DEFINE k == <<u, p>>
             fresh == [id |-> id, state |-> "", complete |-> FALSE, chunks |-> <<>>]
  <2>1. k \in Keys /\ sessions[k] = NoSession
    BY <1>6 DEF Keys, StartUploadSession, TypeOK, OpenSession
  <2>2. /\ UNCHANGED <<requests, handed, queue, monitors, cleaners>>
        /\ sessions'[k] = fresh /\ \A j \in Keys \ {k} : sessions'[j] = sessions[j]
    BY <1>6, <2>1 DEF StartUploadSession, TypeOK
  <2>3. /\ fresh.chunks = <<>> /\ fresh.state = ""
        /\ NoSession.chunks = <<>> /\ NoSession.state = "absent"
    BY DEF NoSession
  <2> HIDE DEF k, fresh
  <2>4. EndsOnce(k)' /\ sessions'[k].chunks = sessions[k].chunks
    <3>1. EndsOnce(k)
      BY <2>1 DEF OrderlyInvariant
    <3> QED BY <2>1, <2>2, <2>3, <3>1 DEF EndsOnce
  <2>5. \A r \in RecordingIDs : Held(sessions'[k], r) = Held(sessions[k], r)
    BY <2>4 DEF Held
  <2> QED BY <2>1, <2>2, <2>4, <2>5, OrderlySession
<1>7. ASSUME NEW k \in Keys, MonitorGracePeriod(k) PROVE OrderlyInvariant'
  <2>1. EndsOnce(k) /\ monitors[k] \in Nat /\ cleaners[k] \in Nat
    BY DEF OrderlyInvariant, TypeOK
  <2>2. sessions[k].state = "finalizing" /\ monitors[k] = 1 /\ cleaners[k] = 0
    BY <1>7, <2>1 DEF EndsOnce, MonitorGracePeriod
  <2>3. /\ UNCHANGED <<requests, handed, queue>> /\ monitors'[k] = 0 /\ cleaners'[k] = 1
        /\ \A j \in Keys \ {k} : /\ sessions'[j] = sessions[j] /\ monitors'[j] = monitors[j]
                                 /\ cleaners'[j] = cleaners[j]
    BY <1>7, <2>2 DEF MonitorGracePeriod, Ends, Arranged, TypeOK
  <2>4. sessions'[k].state = "completed" /\ sessions'[k].chunks = sessions[k].chunks
    BY <1>7, <2>2, OthersAre
  <2>5. EndsOnce(k)'
    BY <2>1, <2>2, <2>3, <2>4 DEF EndsOnce, Ended, Asking, HasFinal
  <2>6. \A r \in RecordingIDs : Held(sessions'[k], r) = Held(sessions[k], r)
    BY <2>4 DEF Held
  <2> QED BY <2>3, <2>4, <2>5, <2>6, OrderlySession
<1>8. ASSUME NEW k \in Keys, CleanUp(k) PROVE OrderlyInvariant'
  <2>1. EndsOnce(k) /\ cleaners[k] \in Nat
    BY DEF OrderlyInvariant, TypeOK
  <2>2. sessions[k].state = "completed" /\ monitors[k] = 0 /\ cleaners[k] = 1
    BY <1>8, <2>1 DEF EndsOnce, CleanUp
  <2>3. /\ UNCHANGED <<requests, handed, queue, monitors>> /\ cleaners'[k] = 0
        /\ sessions'[k] = NoSession
        /\ \A j \in Keys \ {k} : sessions'[j] = sessions[j] /\ cleaners'[j] = cleaners[j]
    BY <1>8, <2>2 DEF CleanUp, Without, TypeOK
  <2>4. EndsOnce(k)'
    BY <2>2, <2>3 DEF EndsOnce, NoSession
  <2>5. \A r \in RecordingIDs : Ended(k[1], r) \/ Held(sessions'[k], r) = Held(sessions[k], r)
    BY <2>1, <2>2, <2>3 DEF EndsOnce, Held, NoSession
  <2>6. \A q \in Requests : ~(Untracked(q) /\ RequestKey(q) = k)
    BY <2>2, ServedIsOpen
  <2> QED BY <2>3, <2>4, <2>5, <2>6, OrderlySession
<1>9. ASSUME \E k \in Keys : RevokeSession(k) PROVE FALSE
  BY <1>9 DEF RevokeSession, Orderly
<1>11. CASE Crash
  <2>1. /\ \A k \in Keys : sessions'[k] = NoSession /\ monitors'[k] = 0 /\ cleaners'[k] = 0
        /\ \A q \in Requests : requests'[q].step = "idle"
        /\ handed' = handed /\ queue' = queue /\ "crash" \in Faults
    BY <1>11 DEF Crash, NoRequest
  <2>2. \A k \in Keys : EndsOnce(k)'
    BY <2>1 DEF EndsOnce, NoSession
  <2>3. ASSUME NEW u \in Users, NEW r \in RecordingIDs PROVE Counted(u, r)'
    <3>1. /\ KeyOf(u, r) \in Keys /\ Counted(u, r) /\ Len(handed[<<u, r>>]) \in Nat
          /\ ChunksCut(u, r) \in Nat /\ Len(handed[<<u, r>>]) <= ChunksCut(u, r)
      BY PodcastOfAssumption, CutIs DEF KeyOf, Keys, OrderlyInvariant
    <3>2. Held(sessions'[KeyOf(u, r)], r) = 0
      BY <2>1, <3>1 DEF Held, NoSession
    <3>3. ChunksCut(u, r)' = Len(handed[<<u, r>>]) + 0
      BY <2>1 DEF ChunksCut, Asking
    <3>5. ChunksCut(u, r)' <= MaxURLs /\ UpTo(0, ChunksCut(u, r)')
      <4>1. ChunksCut(u, r) <= MaxURLs
        BY <3>1 DEF Counted
      <4> QED BY <2>1, <3>1, <3>3, <4>1, BoundAssumption DEF UpTo
    <3>6. Counted(u, r)' <=> /\ ChunksCut(u, r)' <= MaxURLs
                             /\ \A i \in DOMAIN handed'[<<u, r>>] : UpTo(handed'[<<u, r>>][i].index, i - 1)
                             /\ ~Ended(u, r)' => UpTo(Held(sessions'[KeyOf(u, r)], r), ChunksCut(u, r)')
      BY DEF Counted, UpTo, KeyOf, Held
    <3> QED BY <2>1, <3>1, <3>2, <3>5, <3>6 DEF Counted
  <2>4. (\A q \in Requests : ReadsHold(q)') /\ OneRequestEach'
    BY <2>1 DEF ReadsHold, OneRequestEach, Busy, Untracked
  <2>5. \A n \in queue' : CountsAll(n)'
    BY <2>1 DEF OrderlyInvariant, CountsAll
  <2> QED BY <2>2, <2>3, <2>4, <2>5 DEF OrderlyInvariant
<1>10. CASE UNCHANGED vars
  BY <1>1, <1>10 DEF vars
<1> QED BY <1>2, <1>3, <1>4, <1>5, <1>6, <1>7, <1>8, <1>9, <1>10, <1>11, OrderlyTrack, OrderlyAnswer DEF Next

LEMMA OrderlyInvariantHolds == Orderly => (Spec => [](TypeOK /\ OrderlyInvariant))
<1> SUFFICES ASSUME Orderly PROVE Spec => [](TypeOK /\ OrderlyInvariant)
  OBVIOUS
<1>1. Init => OrderlyInvariant
  <2> SUFFICES ASSUME Init PROVE OrderlyInvariant
    OBVIOUS
  <2>1. /\ \A k \in Keys : sessions[k] = NoSession /\ monitors[k] = 0 /\ cleaners[k] = 0
        /\ \A q \in Requests : requests[q].step = "idle"
        /\ \A f \in Users \X RecordingIDs : handed[f] = <<>>
        /\ queue = {}
    BY DEF Init, NoRequest
  <2>2. \A k \in Keys : EndsOnce(k)
    BY <2>1 DEF EndsOnce, NoSession
  <2>3. ASSUME NEW u \in Users, NEW r \in RecordingIDs PROVE Counted(u, r)
    <3>1. KeyOf(u, r) \in Keys
      BY PodcastOfAssumption DEF KeyOf, Keys
    <3>2. Held(sessions[KeyOf(u, r)], r) = 0
      BY <2>1, <3>1 DEF Held, NoSession
    <3>3. handed[<<u, r>>] = <<>>
      BY <2>1
    <3>4. ChunksCut(u, r) = 0
      BY <2>1, <3>3 DEF ChunksCut, Asking
    <3>5. UpTo(0, 0)
      BY DEF UpTo
    <3> QED BY <3>2, <3>3, <3>4, <3>5, BoundAssumption DEF Counted
  <2> QED BY <2>1, <2>2, <2>3 DEF OrderlyInvariant, ReadsHold, OneRequestEach, Busy, Untracked
<1>2. TypeOK /\ TypeOK' /\ OrderlyInvariant /\ [Next]_vars => OrderlyInvariant'
  BY OrderlyStep
<1> QED BY <1>1, <1>2, UploadTypeInvariant, PTL DEF Spec

\* For clients that do nothing of what Habits lists, and while the service runs,
\* every event counts all the chunks its user has cut of the recording, and
\* the indexes answered are 0, 1, 2, ..., whatever Redis refuses and whichever
\* requests fail (GetPreSignedURL's read of the count, TrackChunk, the answer).
THEOREM AnnouncesWholeHolds == Orderly /\ "crash" \notin Faults => (Spec => []AnnouncesWhole)
<1> SUFFICES ASSUME Orderly, "crash" \notin Faults PROVE Spec => []AnnouncesWhole
  OBVIOUS
<1>1. TypeOK /\ OrderlyInvariant => AnnouncesWhole
  <2> SUFFICES ASSUME TypeOK, OrderlyInvariant, NEW n \in queue
               PROVE  LET given == handed[<<n.user, n.recording>>] IN
                        /\ n.total = ChunksCut(n.user, n.recording)
                        /\ \A i \in DOMAIN given : given[i].index = i - 1
    BY DEF AnnouncesWhole
  <2>1. n.user \in Users /\ n.recording \in RecordingIDs
    BY DEF TypeOK, Event
  <2>2. CountsAll(n) /\ Counted(n.user, n.recording)
    BY <2>1 DEF OrderlyInvariant
  <2> QED BY <2>2 DEF CountsAll, Counted, UpTo
<1> QED BY <1>1, OrderlyInvariantHolds, PTL

\* An event counts one URL at most that its user was not given, and no index
\* runs ahead.
CountsNoMore ==
  /\ \A n \in queue : /\ n.total \in 1..(Len(handed[<<n.user, n.recording>>]) + 1)
                      /\ n.total <= MaxURLs
  /\ \A f \in Users \X RecordingIDs : \A i \in DOMAIN handed[f] : handed[f][i].index < i

\* For such clients, however often the service restarts, an event counts at
\* least one URL and at most one more than its user was given: the final one,
\* on its way or lost by a restart between TrackChunk and the answer.  The
\* index of the i-th answer is below i.  So a restart may shorten a count, give
\* an index twice and have a recording announced again, but what is announced
\* is never more than that one chunk longer than what was cut.
THEOREM CountsNoMoreHolds == Orderly => (Spec => []CountsNoMore)
<1> SUFFICES ASSUME Orderly PROVE Spec => []CountsNoMore
  OBVIOUS
<1>1. TypeOK /\ OrderlyInvariant => CountsNoMore
  <2> SUFFICES ASSUME TypeOK, OrderlyInvariant PROVE CountsNoMore
    OBVIOUS
  <2>1. ASSUME NEW f \in Users \X RecordingIDs
        PROVE  handed[f] \in Seq([index : Nat, final : BOOLEAN]) /\ Len(handed[f]) \in Nat
               /\ DOMAIN handed[f] = 1..Len(handed[f])
               /\ \A i \in DOMAIN handed[f] : UpTo(handed[f][i].index, i - 1)
    <3>1. handed[f] \in Seq([index : Nat, final : BOOLEAN])
      BY DEF TypeOK
    <3>2. f = <<f[1], f[2]>> /\ f[1] \in Users /\ f[2] \in RecordingIDs
      OBVIOUS
    <3>3. Counted(f[1], f[2])
      BY <3>2 DEF OrderlyInvariant
    <3> QED BY <3>1, <3>2, <3>3, LenProperties DEF Counted
  <2>2. ASSUME NEW n \in queue
        PROVE  /\ n.total \in 1..(Len(handed[<<n.user, n.recording>>]) + 1)
               /\ n.total <= MaxURLs
    <3>1. <<n.user, n.recording>> \in Users \X RecordingIDs /\ CountsAll(n)
      BY DEF TypeOK, Event, OrderlyInvariant
    <3> QED BY <2>1, <3>1 DEF CountsAll
  <2>3. ASSUME NEW f \in Users \X RecordingIDs, NEW i \in DOMAIN handed[f] PROVE handed[f][i].index < i
    <3>1. i \in 1..Len(handed[f]) /\ handed[f] \in Seq([index : Nat, final : BOOLEAN])
      BY <2>1
    <3>2. handed[f][i] \in [index : Nat, final : BOOLEAN]
      BY <3>1, ElementOfSeq
    <3>3. handed[f][i].index \in Nat /\ i \in Nat
      BY <3>1, <3>2
    <3> QED BY <2>1, <3>3 DEF UpTo
  <2> QED BY <2>2, <2>3 DEF CountsNoMore
<1> QED BY <1>1, OrderlyInvariantHolds, PTL

\* What a step does that users see, while the service runs.  A recording that
\* was not announced is, with one chunk more than the user was given, under a
\* session of which no other recording of the user's was announced; or a URL is
\* given, of a recording not announced or announced with more chunks.
Announces(f) ==
  /\ handed' = handed
  /\ \A n \in queue : <<n.user, n.recording>> # f
  /\ \E n \in Event :
       /\ queue' = queue \cup {n} /\ <<n.user, n.recording>> = f
       /\ n.total = Len(handed[f]) + 1
       /\ \A m \in queue : <<m.user, m.session>> # <<n.user, n.session>>
Gives(f) ==
  /\ queue' = queue
  /\ \A n \in queue : <<n.user, n.recording>> = f => Len(handed[f]) < n.total
  /\ Len(handed'[f]) = Len(handed[f]) + 1
  /\ \A g \in Users \X RecordingIDs : g # f => handed'[g] = handed[g]

LEMMA AnnouncesOrNot ==
  ASSUME Orderly, "crash" \notin Faults, TypeOK, TypeOK', OrderlyInvariant, OrderlyInvariant',
         OneRecordingPerJob', NEW q \in Requests, TrackChunk(q)
  PROVE  UNCHANGED <<handed, queue>> \/ \E f \in Users \X RecordingIDs : Announces(f)
<1> DEFINE r == requests[q].recording
           f == <<requests[q].user, r>>
           s == sessions[KeyOf(requests[q].user, r)]
           chunk == [recording |-> r, index |-> requests[q].index, final |-> requests[q].final]
           event == EventOf(requests[q].user, Tracked(Opened(s, r), chunk))
<1>1. Busy(q) /\ Untracked(q) /\ FolderOf(q) = f /\ requests[q].step # "tracked" /\ handed' = handed
  BY DEF TrackChunk, Busy, Untracked, FolderOf
<1>2. /\ requests[q] \in Request /\ f \in Users \X RecordingIDs
      /\ ~Ended(requests[q].user, r) /\ (s.chunks # <<>> => s.chunks[1].recording = r)
  BY <1>1, BusyIs DEF Request, OrderlyInvariant, ReadsHold, RequestKey
<1>3. PICK n : n = event
  OBVIOUS
<1>4. n.user = requests[q].user /\ (queue' = queue \/ queue' = queue \cup {n})
  BY <1>3 DEF TrackChunk, NotifyRecordingComplete, EventOf
<1> HIDE DEF event
<1>5. \A m \in queue : <<m.user, m.recording>> # f
  BY <1>2 DEF OrderlyInvariant, CountsAll
<1>6. CASE queue' # queue
  <2>1. queue' = queue \cup {n} /\ n \in queue' /\ n \notin queue /\ n \in Event
    BY <1>4, <1>6 DEF TypeOK
  <2>2. n.recording = r
    <3>1. chunk \in Chunk /\ KeyOf(requests[q].user, r) \in Keys /\ r \in RecordingIDs
      BY <1>2, PodcastOfAssumption DEF Request, Chunk, KeyOf, Keys
    <3>2. Opened(s, r) \in OpenSession
      BY <3>1, OpenedType
    <3>3. Opened(s, r).chunks = <<>> \/ Opened(s, r) = s
      BY DEF Opened
    <3>4. n.recording = Tracked(Opened(s, r), chunk).chunks[1].recording
      BY <1>3 DEF EventOf, event
    <3> HIDE DEF s, chunk
    <3>5. Tracked(Opened(s, r), chunk).chunks[1]
            = IF Opened(s, r).chunks = <<>> THEN chunk ELSE Opened(s, r).chunks[1]
      BY <1>2, <3>1, <3>2, TrackedIs DEF Request
    <3> QED BY <1>2, <3>3, <3>4, <3>5 DEF chunk
  <2>3. \A m \in queue : <<m.user, m.session>> # <<n.user, n.session>>
    BY <1>4, <1>5, <2>1, <2>2 DEF OneRecordingPerJob
  <2>4. n.total = Len(handed[f]) + 1
    <3>1. CountsAll(n)'
      BY <2>1 DEF OrderlyInvariant
    <3>2. n.total = ChunksCut(n.user, n.recording)'
      BY <3>1 DEF CountsAll
    <3>3. requests' = [requests EXCEPT ![q].step = "tracked"]
      BY DEF TrackChunk
    <3>4. /\ requests'[q].step = "tracked" /\ requests'[q].user = requests[q].user
          /\ requests'[q].recording = r
      BY <1>2, <3>3 DEF TypeOK, Request
    <3>5. q \in Asking(n.user, n.recording)'
      BY <1>4, <2>2, <3>4 DEF Asking
    <3>6. ChunksCut(n.user, n.recording)' = Len(handed'[<<n.user, n.recording>>]) + 1
      BY <3>4, <3>5 DEF ChunksCut
    <3> QED BY <1>1, <1>4, <2>2, <3>2, <3>6
  <2>5. Announces(f)
    BY <1>1, <1>4, <1>5, <2>1, <2>2, <2>3, <2>4 DEF Announces
  <2> QED BY <1>2, <2>5
<1> QED BY <1>1, <1>6

LEMMA GivesOrNot ==
  ASSUME Orderly, "crash" \notin Faults, TypeOK, TypeOK', OrderlyInvariant, OrderlyInvariant',
         OneRecordingPerJob', [Next]_vars
  PROVE  \/ UNCHANGED <<handed, queue>>
         \/ \E f \in Users \X RecordingIDs : Announces(f) \/ Gives(f)
<1>1. ASSUME NEW q \in Requests, TrackChunk(q)
      PROVE  UNCHANGED <<handed, queue>> \/ \E f \in Users \X RecordingIDs : Announces(f)
  BY <1>1, AnnouncesOrNot
<1>2. ASSUME NEW q \in Requests, Answer(q)
      PROVE  \E f \in Users \X RecordingIDs : Gives(f)
  <2>1. PICK f : f = <<requests[q].user, requests[q].recording>>
    OBVIOUS
  <2>2. PICK given : given = [index |-> requests[q].index, final |-> requests[q].final]
    OBVIOUS
  <2>3. /\ requests[q] \in Request /\ f \in Users \X RecordingIDs
        /\ given \in [index : Nat, final : BOOLEAN]
        /\ handed' = [handed EXCEPT ![f] = Append(@, given)]
    BY <1>2, <2>1, <2>2, AnswerIs
  <2>4. queue' = queue /\ requests[q].step = "tracked" /\ Busy(q) /\ FolderOf(q) = f
    BY <1>2, <2>1 DEF Answer, Busy, FolderOf
  <2>5. ASSUME NEW n \in queue, <<n.user, n.recording>> = f PROVE Len(handed[f]) < n.total
    <3>1. n.total = ChunksCut(n.user, n.recording) /\ n.user \in Users /\ n.recording \in RecordingIDs
      BY DEF OrderlyInvariant, CountsAll, TypeOK, Event
    <3>2. Len(handed[f]) \in Nat /\ n.total = Len(handed[f]) + 1
      BY <2>4, <2>5, <3>1, CutIs DEF OrderlyInvariant
    <3> QED BY <3>2
  <2>6. /\ Len(handed'[f]) = Len(handed[f]) + 1
        /\ \A g \in Users \X RecordingIDs : g # f => handed'[g] = handed[g]
    <3>1. handed[f] \in Seq([index : Nat, final : BOOLEAN])
      BY <2>3 DEF TypeOK
    <3>2. handed'[f] = Append(handed[f], given)
      BY <2>3 DEF TypeOK
    <3>3. Len(Append(handed[f], given)) = Len(handed[f]) + 1
      BY <2>3, <3>1
    <3> QED BY <2>3, <3>2, <3>3 DEF TypeOK
  <2> QED BY <2>3, <2>4, <2>5, <2>6 DEF Gives
<1>3. ASSUME ~\E q \in Requests : TrackChunk(q) \/ Answer(q) PROVE UNCHANGED <<handed, queue>>
  BY <1>3
  DEF Next, vars, RecordingStarts, RecordingEnds, GraceEnds, Turn, Permit, ReadIndex, PresignFails,
      StartUploadSession, RevokeSession, MonitorGracePeriod, CleanUp, Crash
<1> QED BY <1>1, <1>2, <1>3
=============================================================================
