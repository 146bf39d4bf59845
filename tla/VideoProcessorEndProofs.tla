---------------------- MODULE VideoProcessorEndProofs ----------------------
(***************************************************************************)
(* Proofs about what a finished job of VideoProcessor leaves behind: the   *)
(* rows, while the database is there, and the chunks that were deleted,    *)
(* while the service does not restart.                                     *)
(***************************************************************************)
EXTENDS VideoProcessorProofs

-----------------------------------------------------------------------------
(* Rows.  With the database there, only two steps write rows, and only one *)
(* takes a job past the filing of its recording.                           *)

Later == Linking \cup {"saved", "done"}

FiledWhenLater ==
  \A i \in Jobs : jobs[i].step \in Later /\ jobs[i].event.user \notin Podless =>
    recordings[jobs[i].event.recording] # None

Calm ==
  /\ recordings' = recordings /\ links' = links
  /\ \A i \in Jobs :
       /\ jobs'[i].step \in Later /\ jobs'[i].event.user \notin Podless => jobs[i].step \in Later
       /\ jobs'[i].step \in Later => jobs'[i].event = jobs[i].event
  /\ Crash \/ \A i \in Jobs : jobs[i].step \in Linking =>
                jobs'[i].step \in Linking /\ jobs'[i].event = jobs[i].event

LEMMA CalmIfMoves ==
  ASSUME TypeOK, NEW j \in Jobs, NEW step, NEW event, NEW keys, Moves(j, step, event, keys),
         recordings' = recordings, links' = links,
         step \in Later => jobs[j].step \in Later /\ event = jobs[j].event,
         jobs[j].step \in Linking => step \in Linking /\ event = jobs[j].event
  PROVE  Calm
BY DEF Calm, Moves

LEMMA LaterSteps ==
  ASSUME TypeOK, [Next]_vars, "db" \notin Faults
  PROVE  Calm \/ \E j \in Jobs : FileRecording(j) \/ SaveLink(j)
<1> DEFINE Untouched == recordings' = recordings /\ links' = links
<1>1. ASSUME jobs' = jobs, Untouched PROVE Calm
  BY <1>1 DEF Calm
<1>2. ASSUME NEW j \in Jobs, Pop(j) PROVE Calm
  <2>1. Untouched /\ jobs[j].step = "unused"
    BY <1>2 DEF Pop, At
  <2> QED BY <1>2, <2>1, PopMoves, CalmIfMoves DEF Later, Linking
<1>3. ASSUME NEW j \in Jobs, Claim(j) PROVE Calm
  <2>1. Untouched /\ jobs[j].step = "popped"
    BY <1>3 DEF Claim, At
  <2> QED BY <1>3, <2>1, ClaimMoves, CalmIfMoves DEF Later, Linking
<1>4. ASSUME NEW j \in Jobs, jobs[j].step \in {"listing", "downloading", "uploading"}, GiveUp(j)
      PROVE  Calm
  <2>1. Untouched /\ Moves(j, "failed", jobs[j].event, jobs[j].keys)
    BY <1>4, JobGoes DEF GiveUp, Steps
  <2> QED BY <1>4, <2>1, CalmIfMoves DEF Later, Linking
<1>5. ASSUME NEW j \in Jobs, List(j) PROVE Calm
  <2>1. jobs[j].step = "listing"
    BY <1>5 DEF List, At
  <2>2. CASE GiveUp(j)
    BY <1>4, <2>1, <2>2
  <2>3. CASE Reads /\ Moves(j, "listing", jobs[j].event, jobs[j].keys)
    BY <2>1, <2>3, CalmIfMoves DEF Reads, Later, Linking
  <2>4. ASSUME Reads, NEW keys, Moves(j, "downloading", jobs[j].event, keys)
        PROVE  Calm
    BY <2>1, <2>4, CalmIfMoves DEF Reads, Later, Linking
  <2> QED BY <1>5, <2>2, <2>3, <2>4, ListMoves
<1>6. ASSUME NEW j \in Jobs, Download(j) PROVE Calm
  <2>1. jobs[j].step = "downloading"
    BY <1>6 DEF Download, At
  <2>2. CASE GiveUp(j)
    BY <1>4, <2>1, <2>2
  <2>3. CASE ~GiveUp(j)
    <3>1. Goes(j, "uploading") /\ Untouched
      BY <1>6, <2>3 DEF Download
    <3>2. Moves(j, "uploading", jobs[j].event, jobs[j].keys)
      BY <3>1, JobGoes DEF Steps, Working
    <3> QED BY <2>1, <3>1, <3>2, CalmIfMoves DEF Later, Linking
  <2> QED BY <2>2, <2>3
<1>7. ASSUME NEW j \in Jobs, UploadFinalVideo(j) PROVE Calm
  <2>1. Untouched /\ jobs[j].step = "uploading" /\ Goes(j, "finding")
    BY <1>7 DEF UploadFinalVideo, At
  <2>2. Moves(j, "finding", jobs[j].event, jobs[j].keys)
    BY <2>1, JobGoes DEF Steps, Working
  <2> QED BY <2>1, <2>2, CalmIfMoves DEF Later, Linking
<1>8. ASSUME NEW j \in Jobs, FindRecording(j) PROVE Calm
  <2>1. PICK saw \in BOOLEAN : saw = (recordings[jobs[j].event.recording] # None)
    OBVIOUS
  <2>2. /\ jobs' = [jobs EXCEPT ![j].step = "filing", ![j].saw = saw]
        /\ jobs[j].step = "finding" /\ Untouched
    BY <1>8, <2>1 DEF FindRecording, At
  <2>3. Moves(j, "filing", jobs[j].event, jobs[j].keys)
    BY <2>2, SelectMoves DEF Steps, Working
  <2> QED BY <2>2, <2>3, CalmIfMoves DEF Later, Linking
<1>14. ASSUME NEW j \in Jobs, NoPod(j) PROVE Calm
  <2>1. /\ Untouched /\ jobs[j].step = "finding" /\ jobs[j].event.user \in Podless
        /\ Goes(j, "saved")
    BY <1>14 DEF NoPod, At
  <2>2. Moves(j, "saved", jobs[j].event, jobs[j].keys)
    BY <2>1, JobGoes DEF Steps, Working
  <2> QED BY <2>1, <2>2 DEF Calm, Moves, Later, Linking
<1>9. ASSUME NEW j \in Jobs, SeekLink(j) PROVE Calm
  <2>1. PICK saw \in BOOLEAN : saw = (links[Folder(jobs[j].event)] # None)
    OBVIOUS
  <2>2. /\ jobs' = [jobs EXCEPT ![j].step = "linking", ![j].saw = saw]
        /\ jobs[j].step = "seeking" /\ Untouched
    BY <1>9, <2>1 DEF SeekLink, At
  <2>3. Moves(j, "linking", jobs[j].event, jobs[j].keys)
    BY <2>2, SelectMoves DEF Steps, Working
  <2> QED BY <2>2, <2>3, CalmIfMoves DEF Later, Linking
<1>10. ASSUME NEW j \in Jobs, Finish(j) PROVE Calm
  <2>1. Untouched /\ jobs[j].step = "saved"
    BY <1>10 DEF Finish, At
  <2> QED BY <1>10, <2>1, FinishMoves, CalmIfMoves DEF Later, Linking
<1>11. ASSUME NEW j \in Jobs, NEW c \in ChunkNumbers, Sweep(j, c) PROVE Calm
  <2>1. Untouched
    BY <1>11 DEF Sweep
  <2> QED BY <1>11, <2>1, SweepMoves, CalmIfMoves
<1>12. ASSUME NEW j \in Jobs, S3Fails(j) PROVE Calm
  BY <1>4, <1>12 DEF S3Fails
<1>13. CASE Crash
  <2>1. Untouched
    BY <1>13 DEF Crash
  <2>2. \A i \in Jobs : /\ jobs'[i].step \in Later => jobs[i].step = "done"
                        /\ jobs'[i].event = jobs[i].event
    BY <1>13, CrashMoves DEF Later, Linking, Working
  <2> QED BY <1>13, <2>1, <2>2 DEF Calm, Later
<1> QED
  BY <1>1, <1>2, <1>3, <1>5, <1>6, <1>7, <1>8, <1>9, <1>10, <1>11, <1>12, <1>13, <1>14
  DEF Next, JobStep, Announce, ChunkUploaded, DBFails, vars

\* What FileRecording and SaveLink do.
LEMMA FilingIs ==
  ASSUME TypeOK, NEW j \in Jobs, FileRecording(j)
  PROVE  /\ jobs[j].step = "filing" /\ links' = links
         /\ recordings'[jobs[j].event.recording] # None
         /\ \A r \in RecordingIDs : recordings[r] # None => recordings'[r] # None
         /\ \/ /\ recordings[jobs[j].event.recording] = None \/ Filed(j)
               /\ Moves(j, "seeking", jobs[j].event, jobs[j].keys)
               /\ \A r \in RecordingIDs \ {jobs[j].event.recording} : recordings'[r] = recordings[r]
            \/ recordings' = recordings /\ Moves(j, "saved", jobs[j].event, jobs[j].keys)
<1> DEFINE e == jobs[j].event
           row == <<e.user, e.session>>
<1>1. jobs[j].step = "filing" /\ links' = links
  BY DEF FileRecording, At
<1>2. e.recording \in RecordingIDs /\ row \in Users \X SessionIDs /\ row # None
  BY <1>1, EventsAre, ProcessorNoneAssumption DEF Event
<1> HIDE DEF row
<1>3. CASE Filed(j)
  <2>1. recordings' = [recordings EXCEPT ![e.recording] = row] /\ Goes(j, "seeking")
    BY <1>3 DEF FileRecording, row
  <2>2. Moves(j, "seeking", e, jobs[j].keys)
    BY <2>1, JobGoes DEF Steps, Working
  <2>3. /\ recordings'[e.recording] = row
        /\ \A r \in RecordingIDs \ {e.recording} : recordings'[r] = recordings[r]
    BY <1>2, <2>1 DEF TypeOK
  <2> QED BY <1>1, <1>2, <1>3, <2>2, <2>3
<1>4. CASE ~Filed(j)
  <2>1. recordings' = recordings /\ Goes(j, "saved") /\ recordings[e.recording] # None
    BY <1>4 DEF FileRecording, Filed
  <2>2. Moves(j, "saved", e, jobs[j].keys)
    BY <2>1, JobGoes DEF Steps, Working
  <2> QED BY <1>1, <2>1, <2>2
<1> QED BY <1>3, <1>4

LEMMA LinkingIs ==
  ASSUME TypeOK, NEW j \in Jobs, SaveLink(j)
  PROVE  /\ jobs[j].step = "linking" /\ recordings' = recordings
         /\ Moves(j, "saved", jobs[j].event, jobs[j].keys)
         /\ links'[Folder(jobs[j].event)] # None
         /\ \A f \in Folders : links[f] # None => links'[f] # None
<1> DEFINE f == Folder(jobs[j].event)
<1>1. jobs[j].step = "linking" /\ recordings' = recordings /\ Goes(j, "saved")
  BY DEF SaveLink, At
<1>2. f \in Folders /\ jobs[j].event.session \in SessionIDs
  BY <1>1, EventsAre DEF Event
<1>3. jobs[j].event.session # None
  BY <1>2, ProcessorNoneAssumption
<1>4. Moves(j, "saved", jobs[j].event, jobs[j].keys)
  BY <1>1, JobGoes DEF Steps, Working
<1>5. links' = IF jobs[j].saw \/ links[f] = None THEN [links EXCEPT ![f] = jobs[j].event.session] ELSE links
  BY DEF SaveLink
<1> HIDE DEF f
<1>6. links'[f] # None /\ \A g \in Folders : links[g] # None => links'[g] # None
  BY <1>2, <1>3, <1>5 DEF TypeOK
<1> QED BY <1>1, <1>4, <1>6 DEF f

LEMMA FiledStep ==
  ASSUME TypeOK, FiledWhenLater, [Next]_vars, "db" \notin Faults
  PROVE  FiledWhenLater'
<1>1. CASE Calm
  BY <1>1 DEF Calm, FiledWhenLater
<1>2. ASSUME NEW j \in Jobs, FileRecording(j) PROVE FiledWhenLater'
  <2>1. \A i \in Jobs : jobs[i].step \in Later => jobs[i].event.recording \in RecordingIDs
    BY EventsAre DEF Later, Linking
  <2>2. \A i \in Jobs \ {j} : jobs'[i] = jobs[i]
    BY <1>2, FilingIs DEF Moves
  <2>3. jobs'[j].event = jobs[j].event
    BY <1>2, FilingIs DEF Moves
  <2> QED BY <1>2, <2>1, <2>2, <2>3, FilingIs DEF FiledWhenLater
<1>3. ASSUME NEW j \in Jobs, SaveLink(j) PROVE FiledWhenLater'
  BY <1>3, LinkingIs DEF Moves, FiledWhenLater, Later, Linking
<1> QED BY <1>1, <1>2, <1>3, LaterSteps

\* While the database is there, what is done of a user with a pod is filed,
\* though a job may lose the INSERT to another user's.
THEOREM DoneIsFiledHolds == "db" \notin Faults => (Spec => []DoneIsFiled)
<1> SUFFICES ASSUME "db" \notin Faults PROVE Spec => []DoneIsFiled
  OBVIOUS
<1>1. Init => FiledWhenLater
  BY DEF Init, NoJob, FiledWhenLater, Later, Linking
<1>2. TypeOK /\ FiledWhenLater /\ [Next]_vars => FiledWhenLater'
  BY FiledStep
<1>3. FiledWhenLater => DoneIsFiled
  BY DEF FiledWhenLater, DoneIsFiled, Events, Later
<1> QED BY <1>1, <1>2, <1>3, ProcessorTypeInvariant, PTL DEF Spec

-----------------------------------------------------------------------------
(* Links, when every recording has one user.                               *)

OneUserEach == \A d, e \in Announcements : d.recording = e.recording => d.user = e.user

LinkComes(e) ==
  \/ links[Folder(e)] # None
  \/ \E i \in Jobs : jobs[i].step \in Linking /\ Folder(jobs[i].event) = Folder(e)

FiledIsLinked == \A e \in Announcements : recordings[e.recording] # None => LinkComes(e)

LEMMA LinkedStep ==
  ASSUME TypeOK, FiledIsLinked, [Next]_vars, OneUserEach, Faults \cap {"db", "crash"} = {}
  PROVE  FiledIsLinked'
<1>1. CASE Calm
  <2>1. ~Crash
    BY DEF Crash
  <2> QED BY <1>1, <2>1 DEF Calm, FiledIsLinked, LinkComes
<1>2. ASSUME NEW j \in Jobs, FileRecording(j) PROVE FiledIsLinked'
  <2> DEFINE d == jobs[j].event
  <2>1. d \in Announcements /\ jobs[j].step \notin Linking
    BY <1>2, FilingIs, EventsAre DEF Linking
  <2>2. \A i \in Jobs \ {j} : jobs'[i] = jobs[i]
    BY <1>2, FilingIs DEF Moves
  <2>3. ASSUME NEW e \in Announcements, LinkComes(e) PROVE LinkComes(e)'
    BY <1>2, <2>1, <2>2, <2>3, FilingIs DEF LinkComes
  <2>4. ASSUME NEW e \in Announcements, recordings'[e.recording] # None PROVE LinkComes(e)'
    <3>1. CASE recordings[e.recording] # None
      BY <2>3, <2>4, <3>1 DEF FiledIsLinked
    <3>2. CASE recordings[e.recording] = None
      <4>1. e.recording \in RecordingIDs
        BY AnnouncementsAssumption DEF Event
      <4>2. e.recording = d.recording /\ Moves(j, "seeking", d, jobs[j].keys)
        BY <1>2, <2>4, <3>2, <4>1, FilingIs
      <4>3. Folder(e) = Folder(d)
        BY <2>1, <4>2 DEF OneUserEach, Folder
      <4> QED BY <4>2, <4>3 DEF LinkComes, Moves, Linking
    <3> QED BY <3>1, <3>2
  <2> QED BY <2>4 DEF FiledIsLinked
<1>3. ASSUME NEW j \in Jobs, SaveLink(j) PROVE FiledIsLinked'
  <2>1. \A i \in Jobs \ {j} : jobs'[i] = jobs[i]
    BY <1>3, LinkingIs DEF Moves
  <2>2. links'[Folder(jobs[j].event)] # None
    BY <1>3, LinkingIs
  <2>3. \A e \in Announcements : Folder(e) \in Folders
    BY AnnouncementsAssumption DEF Event, Folder, Folders
  <2>4. ASSUME NEW e \in Announcements, LinkComes(e) PROVE LinkComes(e)'
    BY <1>3, <2>1, <2>2, <2>3, <2>4, LinkingIs DEF LinkComes
  <2>5. recordings' = recordings
    BY <1>3, LinkingIs
  <2> QED BY <2>4, <2>5 DEF FiledIsLinked
<1> QED BY <1>1, <1>2, <1>3, LaterSteps

\* With one user, who has a pod, in each recording, and while the database is
\* there and the service runs, what is done is linked or is about to be.
THEOREM DoneIsLinkedHolds ==
  OneUserEach /\ Faults \cap {"db", "crash"} = {} => (Spec => []DoneIsLinked)
<1> SUFFICES ASSUME OneUserEach, Faults \cap {"db", "crash"} = {} PROVE Spec => []DoneIsLinked
  OBVIOUS
<1>1. Init => FiledIsLinked
  <2>1. \A e \in Announcements : e.recording \in RecordingIDs
    BY AnnouncementsAssumption DEF Event
  <2> QED BY <2>1 DEF Init, FiledIsLinked
<1>2. TypeOK /\ FiledIsLinked /\ [Next]_vars => FiledIsLinked'
  BY LinkedStep
<1>3. TypeOK /\ DoneIsFiled /\ FiledIsLinked => DoneIsLinked
  <2> SUFFICES ASSUME TypeOK, DoneIsFiled, FiledIsLinked, NEW e \in Events({"done"}),
                      e.user \notin Podless
               PROVE  \/ links[Folder(e)] # None
                      \/ \E d \in Events(Linking) : Folder(d) = Folder(e)
    BY DEF DoneIsLinked, Linking
  <2>1. e \in Announcements /\ recordings[e.recording] # None
    BY EventsAre DEF Events, DoneIsFiled
  <2>2. LinkComes(e)
    BY <2>1 DEF FiledIsLinked
  <2> QED BY <2>2 DEF LinkComes, Events
<1>4. Spec => []DoneIsFiled
  BY DoneIsFiledHolds
<1> QED BY <1>1, <1>2, <1>3, <1>4, ProcessorTypeInvariant, PTL DEF Spec

-----------------------------------------------------------------------------
(* Deleted chunks, while the service does not restart.  A claim is then    *)
(* for good once its job is done, so nobody overwrites what it uploaded.   *)

Kept == Working \cup {"done"}

\* Who is at work or done holds the claim, alone.
ClaimsLast ==
  /\ \A i \in Jobs : jobs[i].step \in Kept => Key(jobs[i].event) \in processed
  /\ \A i, k \in Jobs : i # k /\ jobs[i].step \in Kept /\ jobs[k].step \in Kept
       => Key(jobs[i].event) # Key(jobs[k].event)

\* A video is what the one job past its upload listed.
VideosAreListed ==
  /\ \A o \in Outputs : videos[o] # {} =>
       \E i \in Jobs : jobs[i].step \in Past /\ Output(jobs[i].event) = o
  /\ \A i \in Jobs : jobs[i].step \in Past => videos[Output(jobs[i].event)] = jobs[i].keys

\* Only a job that is done deletes, and only what it listed.
SweepsListed ==
  \A i \in Jobs :
    jobs[i].sweeping \subseteq jobs[i].keys /\ (jobs[i].sweeping # {} => jobs[i].step = "done")

SweepInvariant == ClaimsLast /\ VideosAreListed /\ SweepsListed /\ SweptIsSaved

LEMMA ClaimsLastStep ==
  ASSUME TypeOK, ClaimsLast, [Next]_vars, "crash" \notin Faults
  PROVE  ClaimsLast'
<1>1. CASE Keeps
  <2>1. \A i \in Jobs : jobs'[i].step \in Kept =>
          jobs[i].step \in Kept /\ jobs'[i].event = jobs[i].event
    BY <1>1 DEF Keeps, Kept
  <2> QED BY <1>1, <2>1 DEF Keeps, ClaimsLast
<1>2. ASSUME NEW j \in Jobs, Begins(j) PROVE ClaimsLast'
  <2>1. \A i \in Jobs \ {j} : jobs'[i] = jobs[i]
    BY <1>2 DEF Begins
  <2>2. /\ Key(jobs[j].event) \notin processed
        /\ processed' = processed \cup {Key(jobs[j].event)} /\ jobs'[j].event = jobs[j].event
    BY <1>2 DEF Begins, Taken
  <2> QED BY <2>1, <2>2 DEF ClaimsLast
<1>3. ASSUME NEW j \in Jobs, Fails(j) PROVE ClaimsLast'
  <2>1. \A i \in Jobs \ {j} : jobs'[i] = jobs[i]
    BY <1>3 DEF Fails
  <2>2. /\ processed' = processed \ {Key(jobs[j].event)}
        /\ jobs'[j].step \notin Kept /\ jobs[j].step \in Kept
    BY <1>3 DEF Fails, Kept, Working
  <2> QED BY <2>1, <2>2 DEF ClaimsLast
<1>4. ~Crash
  BY DEF Crash
<1> QED BY <1>1, <1>2, <1>3, <1>4, ClaimSteps

\* Most steps upload and delete nothing, end no job, and leave those that are
\* past their upload there.
Plain ==
  /\ videos' = videos
  /\ \A f \in Folders : uploaded'[f] \ stored'[f] \subseteq uploaded[f] \ stored[f]
  /\ \A i \in Jobs :
       /\ jobs'[i].step \in Past <=> jobs[i].step \in Past
       /\ jobs[i].step \in Past => jobs'[i].event = jobs[i].event /\ jobs'[i].keys = jobs[i].keys
       /\ jobs[i].step = "done" => jobs'[i] = jobs[i]
       /\ jobs'[i].sweeping = jobs[i].sweeping

LEMMA PlainIfMoves ==
  ASSUME TypeOK, NEW j \in Jobs, NEW step, NEW event, NEW keys, Moves(j, step, event, keys),
         UNCHANGED <<videos, uploaded, stored>>,
         jobs[j].step # "done", step \in Past <=> jobs[j].step \in Past,
         jobs[j].step \in Past => event = jobs[j].event /\ keys = jobs[j].keys,
         jobs'[j].sweeping = jobs[j].sweeping
  PROVE  Plain
BY DEF Plain, Moves

\* Who goes on to another step of the job deletes as much as before.
LEMMA GoesSweeping ==
  ASSUME TypeOK, NEW j \in Jobs, NEW step \in Steps, Goes(j, step)
  PROVE  jobs'[j].sweeping = jobs[j].sweeping
<1>1. jobs[j] \in Job
  BY DEF TypeOK
<1>2. jobs'[j] = [jobs[j] EXCEPT !.step = step]
  BY DEF Goes, TypeOK
<1> QED BY <1>1, <1>2 DEF Job

LEMMA OthersSweeping ==
  ASSUME TypeOK, NEW j \in Jobs,
         \/ Pop(j) \/ FindRecording(j) \/ SeekLink(j)
         \/ (Claim(j) /\ jobs'[j].step # "skipped") \/ (List(j) /\ ~GiveUp(j))
  PROVE  jobs'[j].sweeping = jobs[j].sweeping
<1>1. jobs[j] \in Job
  BY DEF TypeOK
<1>2. ASSUME NEW a, NEW b, jobs'[j] = [jobs[j] EXCEPT !.step = a, !.event = b]
      PROVE  jobs'[j].sweeping = jobs[j].sweeping
  BY <1>1, <1>2 DEF Job
<1>3. ASSUME NEW a, NEW b, jobs'[j] = [jobs[j] EXCEPT !.step = a, !.saw = b]
      PROVE  jobs'[j].sweeping = jobs[j].sweeping
  BY <1>1, <1>3 DEF Job
<1>4. ASSUME NEW a, NEW b, jobs'[j] = [jobs[j] EXCEPT !.step = a, !.attempt = b]
      PROVE  jobs'[j].sweeping = jobs[j].sweeping
  BY <1>1, <1>4 DEF Job
<1>5. ASSUME NEW a, NEW b, jobs'[j] = [jobs[j] EXCEPT !.step = a, !.keys = b]
      PROVE  jobs'[j].sweeping = jobs[j].sweeping
  BY <1>1, <1>5 DEF Job
<1>6. ASSUME NEW b, jobs'[j] = [jobs[j] EXCEPT !.attempt = b]
      PROVE  jobs'[j].sweeping = jobs[j].sweeping
  BY <1>1, <1>6 DEF Job
<1>7. CASE Pop(j)
  <2>1. \E b : jobs'[j] = [jobs[j] EXCEPT !.step = "popped", !.event = b]
    BY <1>7 DEF Pop, TypeOK
  <2> QED BY <1>2, <2>1
<1>8. CASE FindRecording(j)
  <2>1. \E b : jobs'[j] = [jobs[j] EXCEPT !.step = "filing", !.saw = b]
    BY <1>8 DEF FindRecording, TypeOK
  <2> QED BY <1>3, <2>1
<1>9. CASE SeekLink(j)
  <2>1. \E b : jobs'[j] = [jobs[j] EXCEPT !.step = "linking", !.saw = b]
    BY <1>9 DEF SeekLink, TypeOK
  <2> QED BY <1>3, <2>1
<1>10. CASE Claim(j) /\ jobs'[j].step # "skipped"
  <2>1. CASE Goes(j, "skipped")
    BY <1>10, <2>1, JobGoes DEF Moves, Steps
  <2>2. CASE jobs' = [jobs EXCEPT ![j].step = "listing", ![j].attempt = 1]
    <3>1. jobs'[j] = [jobs[j] EXCEPT !.step = "listing", !.attempt = 1]
      BY <2>2 DEF TypeOK
    <3> QED BY <1>4, <3>1
  <2> QED BY <1>10, <2>1, <2>2 DEF Claim
<1>11. CASE List(j) /\ ~GiveUp(j)
  <2>1. CASE jobs' = NextAttempt(j)
    <3>1. \E b : jobs'[j] = [jobs[j] EXCEPT !.attempt = b]
      BY <2>1 DEF NextAttempt, TypeOK
    <3> QED BY <1>6, <3>1
  <2>2. CASE \E b : jobs' = [jobs EXCEPT ![j].step = "downloading", ![j].keys = b]
    <3>1. \E b : jobs'[j] = [jobs[j] EXCEPT !.step = "downloading", !.keys = b]
      BY <2>2 DEF TypeOK
    <3> QED BY <1>5, <3>1
  <2> QED BY <1>11, <2>1, <2>2 DEF List
<1> QED BY <1>7, <1>8, <1>9, <1>10, <1>11

LEMMA PlainSteps ==
  ASSUME TypeOK, [Next]_vars, "crash" \notin Faults
  PROVE  Plain \/ \E j \in Jobs : \/ UploadFinalVideo(j) \/ Finish(j)
                                  \/ \E c \in ChunkNumbers : Sweep(j, c)
<1> DEFINE Untouched == UNCHANGED <<videos, uploaded, stored>>
<1>1. ASSUME jobs' = jobs, Untouched PROVE Plain
  BY <1>1 DEF Plain
<1>2. ASSUME NEW f \in Folders, NEW c \in ChunkNumbers, ChunkUploaded(f, c) PROVE Plain
  BY <1>2 DEF ChunkUploaded, Plain, TypeOK
<1>3. ASSUME NEW j \in Jobs, NEW step \in Steps, Goes(j, step), Untouched, jobs[j].step # "done",
             step \in Past <=> jobs[j].step \in Past
      PROVE  Plain
  BY <1>3, JobGoes, GoesSweeping, PlainIfMoves
<1>4. ASSUME NEW j \in Jobs, Pop(j) PROVE Plain
  <2>1. Untouched /\ jobs[j].step = "unused"
    BY <1>4 DEF Pop, At
  <2> QED BY <1>4, <2>1, PopMoves, OthersSweeping, PlainIfMoves DEF Past
<1>5. ASSUME NEW j \in Jobs, Claim(j) PROVE Plain
  <2>1. Untouched /\ jobs[j].step = "popped"
    BY <1>5 DEF Claim, At
  <2>2. CASE Goes(j, "skipped")
    BY <1>3, <2>1, <2>2 DEF Past, Steps
  <2>3. CASE ~Goes(j, "skipped")
    <3>1. Moves(j, "listing", jobs[j].event, jobs[j].keys)
      <4>1. ~Taken(jobs[j].event)
        BY <1>5, <2>3 DEF Claim
      <4>2. processed' # processed
        BY <1>5, <2>3, <4>1 DEF Claim, Taken
      <4> QED BY <1>5, <4>2, ClaimMoves
    <3>2. jobs'[j].step # "skipped"
      BY <3>1 DEF Moves
    <3> QED BY <1>5, <2>1, <3>1, <3>2, OthersSweeping, PlainIfMoves DEF Past
  <2> QED BY <2>2, <2>3
<1>6. ASSUME NEW j \in Jobs, jobs[j].step \in {"listing", "downloading", "uploading"}, GiveUp(j)
      PROVE  Plain
  <2>1. Untouched /\ Goes(j, "failed")
    BY <1>6 DEF GiveUp
  <2> QED BY <1>3, <1>6, <2>1 DEF Past, Steps
<1>7. ASSUME NEW j \in Jobs, List(j) PROVE Plain
  <2>1. jobs[j].step = "listing"
    BY <1>7 DEF List, At
  <2>2. CASE GiveUp(j)
    BY <1>6, <2>1, <2>2
  <2>3. CASE ~GiveUp(j)
    <3>1. jobs'[j].sweeping = jobs[j].sweeping
      BY <1>7, <2>3, OthersSweeping
    <3>2. Untouched /\ \E step \in {"listing", "downloading"} : \E keys : Moves(j, step, jobs[j].event, keys)
      BY <1>7, <2>3, ListMoves DEF Reads
    <3> QED BY <2>1, <3>1, <3>2, PlainIfMoves DEF Past
  <2> QED BY <2>2, <2>3
<1>8. ASSUME NEW j \in Jobs, Download(j) PROVE Plain
  <2>1. jobs[j].step = "downloading"
    BY <1>8 DEF Download, At
  <2>2. CASE GiveUp(j)
    BY <1>6, <2>1, <2>2
  <2>3. CASE ~GiveUp(j)
    <3>1. Goes(j, "uploading") /\ Untouched
      BY <1>8, <2>3 DEF Download
    <3> QED BY <1>3, <2>1, <3>1 DEF Past, Steps, Working
  <2> QED BY <2>2, <2>3
<1>9. ASSUME NEW j \in Jobs, FindRecording(j) PROVE Plain
  <2>1. PICK saw \in BOOLEAN : saw = (recordings[jobs[j].event.recording] # None)
    OBVIOUS
  <2>2. /\ jobs' = [jobs EXCEPT ![j].step = "filing", ![j].saw = saw]
        /\ jobs[j].step = "finding" /\ Untouched
    BY <1>9, <2>1 DEF FindRecording, At
  <2>3. Moves(j, "filing", jobs[j].event, jobs[j].keys)
    BY <2>2, SelectMoves DEF Steps, Working
  <2> QED BY <1>9, <2>2, <2>3, OthersSweeping, PlainIfMoves DEF Past
<1>10. ASSUME NEW j \in Jobs, SeekLink(j) PROVE Plain
  <2>1. PICK saw \in BOOLEAN : saw = (links[Folder(jobs[j].event)] # None)
    OBVIOUS
  <2>2. /\ jobs' = [jobs EXCEPT ![j].step = "linking", ![j].saw = saw]
        /\ jobs[j].step = "seeking" /\ Untouched
    BY <1>10, <2>1 DEF SeekLink, At
  <2>3. Moves(j, "linking", jobs[j].event, jobs[j].keys)
    BY <2>2, SelectMoves DEF Steps, Working
  <2> QED BY <1>10, <2>2, <2>3, OthersSweeping, PlainIfMoves DEF Past
<1>11. ASSUME NEW j \in Jobs, FileRecording(j) \/ SaveLink(j) \/ NoPod(j) \/ DBFails(j) PROVE Plain
  <2>1. /\ Untouched /\ jobs[j].step \in Past \ {"done"}
        /\ Goes(j, "seeking") \/ Goes(j, "saved")
    BY <1>11 DEF FileRecording, SaveLink, NoPod, DBFails, At, Past
  <2> QED BY <1>3, <2>1 DEF Past, Steps, Working
<1>12. ASSUME NEW j \in Jobs, S3Fails(j) PROVE Plain
  BY <1>6, <1>12 DEF S3Fails
<1> QED
  BY <1>1, <1>2, <1>4, <1>5, <1>7, <1>8, <1>9, <1>10, <1>11, <1>12
  DEF Next, JobStep, Announce, Crash, vars

LEMMA FinishIs ==
  ASSUME TypeOK, NEW j \in Jobs, Finish(j)
  PROVE  /\ jobs[j].step = "saved" /\ UNCHANGED <<videos, uploaded, stored>>
         /\ jobs'[j].sweeping \subseteq jobs[j].keys
<1>1. jobs[j] \in Job
  BY DEF TypeOK
<1>2. PICK swept : swept = IF CleanupChunks THEN Swept(j) ELSE {}
  OBVIOUS
<1>3. swept \subseteq jobs[j].keys
  BY <1>2 DEF Swept
<1>4. jobs'[j] = [jobs[j] EXCEPT !.step = "done", !.sweeping = swept]
  BY <1>2 DEF Finish, TypeOK
<1>5. jobs'[j].sweeping = swept
  BY <1>1, <1>4 DEF Job
<1> QED BY <1>3, <1>5 DEF Finish, At

LEMMA SweepIs ==
  ASSUME TypeOK, NEW j \in Jobs, NEW c, Sweep(j, c)
  PROVE  /\ c \in jobs[j].sweeping /\ jobs'[j].sweeping = jobs[j].sweeping \ {c}
         /\ videos' = videos /\ uploaded' = uploaded
         /\ \A f \in Folders : f # Folder(jobs[j].event) => stored'[f] = stored[f]
         /\ \A f \in Folders : stored[f] \subseteq stored'[f] \cup {c}
<1>1. jobs[j] \in Job
  BY DEF TypeOK
<1>2. jobs'[j] = [jobs[j] EXCEPT !.sweeping = @ \ {c}]
  BY DEF Sweep, TypeOK
<1>3. jobs'[j].sweeping = jobs[j].sweeping \ {c}
  BY <1>1, <1>2 DEF Job
<1>4. PICK f : f = Folder(jobs[j].event)
  OBVIOUS
<1>5. stored' \in {stored, [stored EXCEPT ![f] = @ \ {c}]}
  BY <1>4 DEF Sweep
<1>6. /\ \A g \in Folders : g # f => stored'[g] = stored[g]
      /\ \A g \in Folders : stored[g] \subseteq stored'[g] \cup {c}
  BY <1>5 DEF TypeOK
<1> QED BY <1>3, <1>4, <1>6 DEF Sweep

LEMMA SweepStep ==
  ASSUME TypeOK, TypeOK', SweepInvariant, ClaimsLast', [Next]_vars, "crash" \notin Faults
  PROVE  SweepInvariant'
<1> USE DEF SweepInvariant
<1> DEFINE Saved(f) == uploaded[f] \ stored[f] \subseteq UNION {videos[<<f, s>>] : s \in SessionIDs}
<1>0. \A i \in Jobs : jobs[i].step \in Past => Output(jobs[i].event) \in Outputs
  BY EventsAre DEF Past
<1>1. CASE Plain
  <2>1. VideosAreListed'
    BY <1>1 DEF Plain, VideosAreListed
  <2>2. SweepsListed'
    <3>1. ASSUME NEW i \in Jobs
          PROVE  /\ jobs'[i].sweeping \subseteq jobs'[i].keys
                 /\ jobs'[i].sweeping # {} => jobs'[i].step = "done"
      <4>1. CASE jobs[i].sweeping = {}
        BY <1>1, <4>1 DEF Plain
      <4>2. CASE jobs[i].sweeping # {}
        BY <1>1, <4>2 DEF Plain, SweepsListed
      <4> QED BY <4>1, <4>2
    <3> QED BY <3>1 DEF SweepsListed
  <2>3. SweptIsSaved'
    <3>1. ASSUME NEW f \in Folders PROVE Saved(f)'
      <4>1. uploaded'[f] \ stored'[f] \subseteq uploaded[f] \ stored[f] /\ videos' = videos
        BY <1>1 DEF Plain
      <4>2. Saved(f)
        BY DEF SweptIsSaved
      <4> QED BY <4>1, <4>2
    <3> QED BY <3>1 DEF SweptIsSaved
  <2> QED BY <2>1, <2>2, <2>3
<1>2. ASSUME NEW j \in Jobs, UploadFinalVideo(j) PROVE SweepInvariant'
  <2> DEFINE o == Output(jobs[j].event)
  <2>1. /\ jobs[j].step = "uploading" /\ Goes(j, "finding") /\ UNCHANGED <<uploaded, stored>>
        /\ videos' = [videos EXCEPT ![o] = jobs[j].keys]
    BY <1>2 DEF UploadFinalVideo, Concatenated, At
  <2>2. Moves(j, "finding", jobs[j].event, jobs[j].keys) /\ jobs'[j].sweeping = jobs[j].sweeping
    BY <2>1, JobGoes, GoesSweeping DEF Steps, Working
  <2>3. o \in Outputs
    BY <2>1, EventsAre
  <2>4. ASSUME NEW i \in Jobs, jobs[i].step \in Past PROVE Output(jobs[i].event) # o
    <3>1. i # j /\ jobs[i].step \in Kept /\ jobs[j].step \in Kept
      BY <2>1, <2>4 DEF Past, Kept, Working
    <3>2. Key(jobs[i].event) # Key(jobs[j].event)
      BY <3>1 DEF ClaimsLast
    <3>3. jobs[i].step # "unused" /\ jobs[j].step # "unused"
      BY <2>1, <2>4 DEF Past
    <3>4. jobs[i].event \in Event /\ jobs[j].event \in Event
      BY <3>3, EventsAre
    <3> QED BY <3>2, <3>4 DEF Key, Output, Folder, Event
  <2>5. videos[o] = {}
    BY <2>3, <2>4 DEF VideosAreListed
  <2> HIDE DEF o
  <2>6. videos'[o] = jobs[j].keys /\ \A p \in Outputs : p # o => videos'[p] = videos[p]
    BY <2>1, <2>3 DEF TypeOK
  <2>7. VideosAreListed'
    <3>1. ASSUME NEW p \in Outputs, videos'[p] # {}
          PROVE  \E i \in Jobs : jobs'[i].step \in Past /\ Output(jobs'[i].event) = p
      <4>1. CASE p = o
        BY <2>2, <4>1 DEF Moves, Past, o
      <4>2. CASE p # o
        <5>1. PICK i \in Jobs : jobs[i].step \in Past /\ Output(jobs[i].event) = p
          BY <2>6, <3>1, <4>2 DEF VideosAreListed
        <5>2. i # j
          BY <2>1, <5>1 DEF Past
        <5> QED BY <2>2, <5>1, <5>2 DEF Moves
      <4> QED BY <4>1, <4>2
    <3>2. ASSUME NEW i \in Jobs, jobs'[i].step \in Past
          PROVE  videos'[Output(jobs'[i].event)] = jobs'[i].keys
      <4>1. CASE i = j
        BY <2>2, <2>6, <4>1 DEF Moves, o
      <4>2. CASE i # j
        <5>1. jobs'[i] = jobs[i]
          BY <2>2, <4>2 DEF Moves
        <5> QED BY <1>0, <2>4, <2>6, <3>2, <5>1 DEF VideosAreListed
      <4> QED BY <4>1, <4>2
    <3> QED BY <3>1, <3>2 DEF VideosAreListed
  <2>8. SweepsListed'
    BY <2>1, <2>2 DEF Moves, SweepsListed
  <2>9. SweptIsSaved'
    <3>1. ASSUME NEW f \in Folders PROVE Saved(f)'
      <4>1. Saved(f)
        BY DEF SweptIsSaved
      <4>2. \A s \in SessionIDs : videos[<<f, s>>] \subseteq videos'[<<f, s>>]
        BY <2>5, <2>6 DEF Outputs
      <4>3. UNION {videos[<<f, s>>] : s \in SessionIDs} \subseteq UNION {videos'[<<f, s>>] : s \in SessionIDs}
        BY <4>2
      <4> QED BY <2>1, <4>1, <4>3
    <3> QED BY <3>1 DEF SweptIsSaved
  <2> QED BY <2>7, <2>8, <2>9
<1>3. ASSUME NEW j \in Jobs, Finish(j) PROVE SweepInvariant'
  <2>1. Moves(j, "done", jobs[j].event, jobs[j].keys)
    BY <1>3, FinishMoves
  <2>2. /\ jobs[j].step = "saved" /\ UNCHANGED <<videos, uploaded, stored>>
        /\ jobs'[j].sweeping \subseteq jobs[j].keys
    BY <1>3, FinishIs
  <2>3. VideosAreListed'
    BY <2>1, <2>2 DEF Moves, VideosAreListed, Past
  <2>4. SweepsListed'
    BY <2>1, <2>2 DEF Moves, SweepsListed
  <2>5. SweptIsSaved'
    BY <2>2 DEF SweptIsSaved
  <2> QED BY <2>3, <2>4, <2>5
<1>4. ASSUME NEW j \in Jobs, NEW c \in ChunkNumbers, Sweep(j, c) PROVE SweepInvariant'
  <2> DEFINE e == jobs[j].event
  <2>1. Moves(j, jobs[j].step, e, jobs[j].keys)
    BY <1>4, SweepMoves
  <2>2. /\ c \in jobs[j].sweeping /\ jobs'[j].sweeping = jobs[j].sweeping \ {c}
        /\ videos' = videos /\ uploaded' = uploaded
    BY <1>4, SweepIs
  <2>3. jobs[j].step = "done" /\ c \in jobs[j].keys
    BY <2>2 DEF SweepsListed
  <2>4. VideosAreListed'
    BY <2>1, <2>2 DEF Moves, VideosAreListed
  <2>5. SweepsListed'
    BY <2>1, <2>2 DEF Moves, SweepsListed
  <2>6. c \in videos[<<Folder(e), e.session>>] /\ e.session \in SessionIDs
    BY <2>3, EventsAre DEF VideosAreListed, Output, Past, Event
  <2>7. ASSUME NEW f \in Folders PROVE Saved(f)'
    <3>1. Saved(f)
      BY DEF SweptIsSaved
    <3>2. CASE f # Folder(e)
      BY <1>4, <2>2, <3>1, <3>2, SweepIs
    <3>3. CASE f = Folder(e)
      <4>1. uploaded'[f] \ stored'[f] \subseteq (uploaded[f] \ stored[f]) \cup {c}
        BY <1>4, <2>2, SweepIs
      <4> QED BY <2>2, <2>6, <3>1, <3>3, <4>1
    <3> QED BY <3>2, <3>3
  <2>8. SweptIsSaved'
    BY <2>7 DEF SweptIsSaved
  <2> QED BY <2>4, <2>5, <2>8
<1> QED BY <1>1, <1>2, <1>3, <1>4, PlainSteps

\* While the service does not restart, a chunk that was deleted is in a video
\* of its folder, whatever jobs fail, repeat or share the folder.
THEOREM SweptIsSavedHolds == "crash" \notin Faults => (Spec => []SweptIsSaved)
<1> SUFFICES ASSUME "crash" \notin Faults PROVE Spec => []SweptIsSaved
  OBVIOUS
<1>1. Init => SweepInvariant
  <2> SUFFICES ASSUME Init PROVE SweepInvariant
    OBVIOUS
  <2>1. \A j \in Jobs : jobs[j].step = "unused" /\ jobs[j].sweeping = {}
    BY DEF Init, NoJob
  <2>2. ClaimsLast
    BY <2>1 DEF ClaimsLast, Kept, Working
  <2>3. VideosAreListed
    BY <2>1 DEF Init, VideosAreListed, Past
  <2>4. SweepsListed
    BY <2>1 DEF SweepsListed
  <2>5. SweptIsSaved
    BY DEF Init, SweptIsSaved
  <2> QED BY <2>2, <2>3, <2>4, <2>5 DEF SweepInvariant
<1>2. TypeOK /\ SweepInvariant /\ [Next]_vars => SweepInvariant'
  <2> SUFFICES ASSUME TypeOK, SweepInvariant, [Next]_vars PROVE SweepInvariant'
    OBVIOUS
  <2>1. TypeOK'
    BY ProcessorTypeStep
  <2>2. ClaimsLast'
    BY ClaimsLastStep DEF SweepInvariant
  <2> QED BY <2>1, <2>2, SweepStep
<1>3. SweepInvariant => SweptIsSaved
  BY DEF SweepInvariant
<1> QED BY <1>1, <1>2, <1>3, ProcessorTypeInvariant, PTL DEF Spec

-----------------------------------------------------------------------------
(* What a video is made of.                                                *)

\* S3 and the videos have only chunks that clients put in the folder.
VideosAreFed ==
  /\ \A f \in Folders : stored[f] \subseteq uploaded[f]
  /\ \A o \in Outputs : videos[o] \subseteq uploaded[o[1]]

KeysAreFed ==
  \A i \in Jobs : jobs[i].step \in Holding => jobs[i].keys \subseteq uploaded[Folder(jobs[i].event)]

LEMMA FedIfMoves ==
  ASSUME TypeOK, VideosAreFed, KeysAreFed, UNCHANGED <<videos, uploaded, stored>>,
         NEW j \in Jobs, NEW step, NEW event, NEW keys, Moves(j, step, event, keys),
         step \in Holding => keys \subseteq uploaded[Folder(event)]
  PROVE  VideosAreFed' /\ KeysAreFed'
<1>1. VideosAreFed'
  BY DEF VideosAreFed
<1>2. KeysAreFed'
  BY DEF KeysAreFed, Moves
<1> QED BY <1>1, <1>2

LEMMA FedStep ==
  ASSUME TypeOK, VideosAreFed, KeysAreFed, [Next]_vars
  PROVE  VideosAreFed' /\ KeysAreFed'
<1> DEFINE Fed == VideosAreFed /\ KeysAreFed
           Untouched == UNCHANGED <<videos, uploaded, stored>>
<1>1. ASSUME jobs' = jobs, Untouched PROVE Fed'
  BY <1>1 DEF VideosAreFed, KeysAreFed
<1>2. ASSUME NEW f \in Folders, NEW c \in ChunkNumbers, ChunkUploaded(f, c) PROVE Fed'
  <2>1. /\ \A g \in Folders : uploaded[g] \subseteq uploaded'[g]
        /\ \A g \in Folders : stored'[g] \subseteq uploaded'[g]
        /\ videos' = videos /\ jobs' = jobs
    BY <1>2 DEF ChunkUploaded, VideosAreFed, TypeOK
  <2>2. VideosAreFed'
    BY <2>1 DEF VideosAreFed, Outputs
  <2>3. KeysAreFed'
    <3>1. ASSUME NEW i \in Jobs, jobs[i].step \in Holding PROVE Folder(jobs[i].event) \in Folders
      BY <3>1, EventsAre DEF Holding
    <3> QED BY <2>1, <3>1 DEF KeysAreFed
  <2> QED BY <2>2, <2>3
<1>3. ASSUME NEW j \in Jobs, NEW step \in Steps \ Holding, Goes(j, step), Untouched PROVE Fed'
  BY <1>3, JobGoes, FedIfMoves
<1>4. ASSUME NEW j \in Jobs, GiveUp(j) PROVE Fed'
  BY <1>3, <1>4 DEF GiveUp, Steps, Holding
<1>5. ASSUME NEW j \in Jobs, NEW step, step \notin Holding, NEW event, NEW keys,
             Moves(j, step, event, keys), Untouched
      PROVE  Fed'
  BY <1>5, FedIfMoves
<1>6. ASSUME NEW j \in Jobs, Pop(j) \/ Claim(j) \/ Finish(j) PROVE Fed'
  <2>1. Untouched
    BY <1>6 DEF Pop, Claim, Finish
  <2>2. \E step, event, keys : step \notin Holding /\ Moves(j, step, event, keys)
    BY <1>6, PopMoves, ClaimMoves, FinishMoves DEF Holding
  <2> QED BY <1>5, <2>1, <2>2
<1>7. ASSUME NEW j \in Jobs, List(j) PROVE Fed'
  <2>1. CASE GiveUp(j)
    BY <1>4, <2>1
  <2>2. CASE ~GiveUp(j)
    <3>1. Untouched /\ jobs[j] \in Job /\ jobs[j].step = "listing"
      BY <1>7, <2>2 DEF List, At, TypeOK
    <3>2. PICK step, keys : Moves(j, step, jobs[j].event, keys)
      BY <1>7, <2>2, ListMoves
    <3>3. CASE jobs' = NextAttempt(j)
      <4>1. jobs'[j].step = "listing"
        BY <3>1, <3>3 DEF NextAttempt, TypeOK, Job
      <4> QED BY <1>5, <3>1, <3>2, <4>1 DEF Moves, Holding
    <3>4. CASE jobs' = [jobs EXCEPT ![j].step = "downloading", ![j].keys = stored[Folder(jobs[j].event)]]
      <4>1. jobs'[j].keys = stored[Folder(jobs[j].event)]
        BY <3>1, <3>4 DEF TypeOK, Job
      <4>2. keys \subseteq uploaded[Folder(jobs[j].event)]
        BY <3>1, <3>2, <4>1, EventsAre DEF Moves, VideosAreFed
      <4> QED BY <3>1, <3>2, <4>2, FedIfMoves
    <3> QED BY <1>7, <2>2, <3>3, <3>4 DEF List
  <2> QED BY <2>1, <2>2
<1>8. ASSUME NEW j \in Jobs, Download(j) PROVE Fed'
  <2>1. CASE GiveUp(j)
    BY <1>4, <2>1
  <2>2. CASE ~GiveUp(j)
    <3>1. Goes(j, "uploading") /\ Untouched /\ jobs[j].step = "downloading"
      BY <1>8, <2>2 DEF Download, At
    <3>2. Moves(j, "uploading", jobs[j].event, jobs[j].keys)
      BY <3>1, JobGoes DEF Steps, Working
    <3> QED BY <3>1, <3>2, FedIfMoves DEF KeysAreFed, Holding
  <2> QED BY <2>1, <2>2
<1>9. ASSUME NEW j \in Jobs, UploadFinalVideo(j) PROVE Fed'
  <2>1. /\ jobs[j].step = "uploading" /\ Goes(j, "finding") /\ UNCHANGED <<uploaded, stored>>
        /\ videos' = [videos EXCEPT ![Output(jobs[j].event)] = jobs[j].keys]
    BY <1>9 DEF UploadFinalVideo, Concatenated, At
  <2>2. Moves(j, "finding", jobs[j].event, jobs[j].keys)
    BY <2>1, JobGoes DEF Steps, Working
  <2>3. KeysAreFed'
    BY <2>1, <2>2 DEF Moves, KeysAreFed, Holding
  <2>4. jobs[j].keys \subseteq uploaded[Output(jobs[j].event)[1]]
    BY <2>1 DEF KeysAreFed, Holding, Output
  <2>5. VideosAreFed'
    BY <2>1, <2>4 DEF VideosAreFed, TypeOK
  <2> QED BY <2>3, <2>5
<1>10. ASSUME NEW j \in Jobs, FindRecording(j) \/ SeekLink(j) PROVE Fed'
  <2>1. PICK saw \in BOOLEAN, step \in {"filing", "linking"} :
          jobs' = [jobs EXCEPT ![j].step = step, ![j].saw = saw]
    <3>1. ASSUME FindRecording(j)
          PROVE  \E saw \in BOOLEAN : jobs' = [jobs EXCEPT ![j].step = "filing", ![j].saw = saw]
      BY <3>1 DEF FindRecording
    <3>2. ASSUME SeekLink(j)
          PROVE  \E saw \in BOOLEAN : jobs' = [jobs EXCEPT ![j].step = "linking", ![j].saw = saw]
      BY <3>2 DEF SeekLink
    <3> QED BY <1>10, <3>1, <3>2
  <2>2. Moves(j, step, jobs[j].event, jobs[j].keys)
    BY <2>1, SelectMoves DEF Steps, Working
  <2>3. Untouched
    BY <1>10 DEF FindRecording, SeekLink
  <2> QED BY <1>5, <2>2, <2>3 DEF Holding
<1>11. ASSUME NEW j \in Jobs, FileRecording(j) \/ SaveLink(j) \/ NoPod(j) \/ DBFails(j) PROVE Fed'
  <2>1. Untouched /\ (Goes(j, "seeking") \/ Goes(j, "saved"))
    BY <1>11 DEF FileRecording, SaveLink, NoPod, DBFails
  <2> QED BY <1>3, <2>1 DEF Steps, Working, Holding
<1>12. ASSUME NEW j \in Jobs, NEW c \in ChunkNumbers, Sweep(j, c) PROVE Fed'
  <2>1. Moves(j, jobs[j].step, jobs[j].event, jobs[j].keys)
    BY <1>12, SweepMoves
  <2>2. uploaded' = uploaded /\ videos' = videos /\ \A f \in Folders : stored'[f] \subseteq stored[f]
    <3>1. PICK f : f = Folder(jobs[j].event)
      OBVIOUS
    <3>2. stored' \in {stored, [stored EXCEPT ![f] = @ \ {c}]}
      BY <1>12, <3>1 DEF Sweep
    <3> QED BY <1>12, <3>2 DEF Sweep, TypeOK
  <2>3. VideosAreFed'
    BY <2>2 DEF VideosAreFed
  <2>4. KeysAreFed'
    BY <2>1, <2>2 DEF Moves, KeysAreFed
  <2> QED BY <2>3, <2>4
<1>13. CASE Crash
  <2>1. Untouched
    BY <1>13 DEF Crash
  <2>2. \A i \in Jobs : jobs'[i].step \notin Holding
    BY <1>13, CrashMoves DEF Holding, Working
  <2> QED BY <2>1, <2>2 DEF VideosAreFed, KeysAreFed
<1> QED
  BY <1>1, <1>2, <1>4, <1>6, <1>7, <1>8, <1>9, <1>10, <1>11, <1>12, <1>13
  DEF Next, JobStep, Announce, S3Fails, vars

LEMMA FedHolds == Spec => [](VideosAreFed /\ KeysAreFed)
<1>1. Init => VideosAreFed /\ KeysAreFed
  BY DEF Init, NoJob, VideosAreFed, KeysAreFed, Holding, Outputs
<1>2. TypeOK /\ VideosAreFed /\ KeysAreFed /\ [Next]_vars => VideosAreFed' /\ KeysAreFed'
  BY FedStep
<1> QED BY <1>1, <1>2, ProcessorTypeInvariant, PTL DEF Spec

\* A video has no chunk that was not put in its folder, whatever fails,
\* restarts, is swept or arrives while the job runs.
THEOREM VideosAreFedHolds == Spec => []VideosAreFed
BY FedHolds, PTL

-----------------------------------------------------------------------------
(* Folders that are announced once.  Then nothing is made, filed or linked *)
(* twice, whatever fails and however often the service restarts: an event  *)
(* is popped once, and a job never goes back.                              *)

Known(i) == jobs[i].step # "unused"

\* What is announced has a folder of its own.
Fresh ==
  \A e \in Announcements : Announce(e) =>
    /\ \A a \in 1..Len(queue) : Folder(queue[a]) # Folder(e)
    /\ \A i \in Jobs : Known(i) => Folder(jobs[i].event) # Folder(e)

FoldersOnce ==
  /\ \A a, b \in 1..Len(queue) : a # b => Folder(queue[a]) # Folder(queue[b])
  /\ \A a \in 1..Len(queue), i \in Jobs : Known(i) => Folder(queue[a]) # Folder(jobs[i].event)
  /\ \A i, k \in Jobs : i # k /\ Known(i) /\ Known(k) => Folder(jobs[i].event) # Folder(jobs[k].event)

\* Where a job is once it can no longer upload, file or link.
Sent == Steps \ {"unused", "popped", "listing", "downloading", "uploading"}
FiledOrNot == Sent \ {"finding", "filing"}
LinkedOrNot == FiledOrNot \ {"seeking", "linking"}

\* Who made what there is.
MadeBySent ==
  /\ \A o \in Outputs : videos[o] # {} =>
       \E i \in Jobs : jobs[i].step \in Sent /\ Output(jobs[i].event) = o
  /\ \A r \in RecordingIDs : recordings[r] # None =>
       \E i \in Jobs : /\ jobs[i].step \in FiledOrNot /\ jobs[i].event.recording = r
                       /\ recordings[r] = <<jobs[i].event.user, jobs[i].event.session>>
  /\ \A f \in Folders : links[f] # None =>
       \E i \in Jobs : jobs[i].step \in LinkedOrNot /\ Folder(jobs[i].event) = f

OnceInvariant == FoldersOnce /\ MadeBySent

\* A job keeps its event and does not go back.
GoesOn(i) ==
  Known(i) =>
    /\ Known(i)' /\ jobs'[i].event = jobs[i].event
    /\ jobs[i].step \in Sent => jobs'[i].step \in Sent
    /\ jobs[i].step \in FiledOrNot => jobs'[i].step \in FiledOrNot
    /\ jobs[i].step \in LinkedOrNot => jobs'[i].step \in LinkedOrNot

Works(j) == JobStep(j) \/ S3Fails(j) \/ DBFails(j)

\* What the steps of a job have in common.
LEMMA WorksIs ==
  ASSUME TypeOK, NEW j \in Jobs, Works(j)
  PROVE  /\ queue' = queue /\ uploaded' = uploaded
         /\ \A i \in Jobs : GoesOn(i) /\ (Known(i)' => Known(i))
<1> DEFINE Apart == queue' = queue /\ uploaded' = uploaded
           On(step) == /\ Apart /\ (Known(j) <=> step # "unused")
                       /\ \E keys : Moves(j, step, jobs[j].event, keys)
                       /\ jobs[j].step \in Sent => step \in Sent
                       /\ jobs[j].step \in FiledOrNot => step \in FiledOrNot
                       /\ jobs[j].step \in LinkedOrNot => step \in LinkedOrNot
<1> USE DEF Known
<1>1. ASSUME NEW step, On(step)
      PROVE  Apart /\ \A i \in Jobs : GoesOn(i) /\ (Known(i)' => Known(i))
  BY <1>1 DEF Moves, GoesOn
<1>2. ASSUME NEW step \in Steps, Goes(j, step), Apart, Known(j), step # "unused",
             step \in LinkedOrNot \/ jobs[j].step \notin Sent
             \/ (jobs[j].step \notin FiledOrNot /\ step \in Sent)
      PROVE  On(step)
  BY <1>2, JobGoes DEF FiledOrNot, LinkedOrNot
<1>3. Claim(j) => \E step : On(step)
  BY ClaimMoves DEF Claim, At, Sent, FiledOrNot, LinkedOrNot, Steps, Working
<1>4. GiveUp(j) /\ Known(j) => On("failed")
  BY <1>2 DEF GiveUp, Sent, FiledOrNot, LinkedOrNot, Steps
<1>5. List(j) => \E step : On(step)
  <2> SUFFICES ASSUME List(j), ~GiveUp(j) PROVE \E step : On(step)
    BY <1>4 DEF List, At
  <2>1. jobs[j].step = "listing" /\ Apart
    BY DEF List, At
  <2>2. \E step \in {"listing", "downloading"} : \E keys : Moves(j, step, jobs[j].event, keys)
    BY ListMoves
  <2> QED BY <2>1, <2>2 DEF Sent, FiledOrNot, LinkedOrNot, Steps, Working
<1>6. Download(j) => \E step : On(step)
  BY <1>2, <1>4 DEF Download, At, Sent, Steps, Working
<1>7. UploadFinalVideo(j) => \E step : On(step)
  BY <1>2 DEF UploadFinalVideo, At, Sent, Steps, Working
<1>8. FindRecording(j) => \E step : On(step)
  <2> SUFFICES ASSUME FindRecording(j) PROVE On("filing")
    OBVIOUS
  <2>1. PICK saw \in BOOLEAN : saw = (recordings[jobs[j].event.recording] # None)
    OBVIOUS
  <2>2. /\ jobs' = [jobs EXCEPT ![j].step = "filing", ![j].saw = saw]
        /\ jobs[j].step = "finding" /\ Apart
    BY <2>1 DEF FindRecording, At
  <2>3. Moves(j, "filing", jobs[j].event, jobs[j].keys)
    BY <2>2, SelectMoves DEF Steps, Working
  <2> QED BY <2>2, <2>3 DEF Sent, FiledOrNot, LinkedOrNot, Steps, Working
<1>9. FileRecording(j) => \E step : On(step)
  BY <1>2 DEF FileRecording, At, Sent, FiledOrNot, Steps, Working
<1>10. SeekLink(j) => \E step : On(step)
  <2> SUFFICES ASSUME SeekLink(j) PROVE On("linking")
    OBVIOUS
  <2>1. PICK saw \in BOOLEAN : saw = (links[Folder(jobs[j].event)] # None)
    OBVIOUS
  <2>2. /\ jobs' = [jobs EXCEPT ![j].step = "linking", ![j].saw = saw]
        /\ jobs[j].step = "seeking" /\ Apart
    BY <2>1 DEF SeekLink, At
  <2>3. Moves(j, "linking", jobs[j].event, jobs[j].keys)
    BY <2>2, SelectMoves DEF Steps, Working
  <2> QED BY <2>2, <2>3 DEF Sent, FiledOrNot, LinkedOrNot, Steps, Working
<1>11. SaveLink(j) => \E step : On(step)
  BY <1>2 DEF SaveLink, At, Sent, FiledOrNot, LinkedOrNot, Steps, Working
<1>12. Finish(j) => \E step : On(step)
  <2> SUFFICES ASSUME Finish(j) PROVE On("done")
    OBVIOUS
  <2>1. Apart /\ Known(j) /\ \E keys : Moves(j, "done", jobs[j].event, keys)
    BY FinishMoves DEF Finish, At
  <2> QED BY <2>1 DEF Sent, FiledOrNot, LinkedOrNot, Steps
<1>13. ASSUME NEW c \in ChunkNumbers, Sweep(j, c) PROVE \E step : On(step)
  <2>1. Apart
    BY <1>13 DEF Sweep
  <2>2. Moves(j, jobs[j].step, jobs[j].event, jobs[j].keys)
    BY <1>13, SweepMoves
  <2>3. On(jobs[j].step)
    BY <2>1, <2>2
  <2> QED BY <2>3
<1>14. S3Fails(j) \/ NoPod(j) \/ DBFails(j) => \E step : On(step)
  BY <1>2, <1>4 DEF S3Fails, NoPod, DBFails, At, Sent, FiledOrNot, LinkedOrNot, Steps, Working
<1>15. \E step : On(step)
  BY <1>3, <1>5, <1>6, <1>7, <1>8, <1>9, <1>10, <1>11, <1>12, <1>13, <1>14 DEF Works, JobStep
<1> QED BY <1>1, <1>15

LEMMA AllGoOn ==
  ASSUME TypeOK, [Next]_vars
  PROVE  \A i \in Jobs : GoesOn(i)
<1>1. ASSUME jobs' = jobs PROVE \A i \in Jobs : GoesOn(i)
  BY <1>1 DEF GoesOn, Known
<1>2. ASSUME NEW j \in Jobs, Pop(j) PROVE \A i \in Jobs : GoesOn(i)
  <2>1. ~Known(j) /\ \A i \in Jobs \ {j} : jobs'[i] = jobs[i]
    BY <1>2, PopMoves DEF Pop, At, Known, Moves
  <2> QED BY <2>1 DEF GoesOn, Known
<1>3. CASE Crash
  <2>1. \A i \in Jobs : /\ jobs'[i].event = jobs[i].event
                        /\ jobs'[i].step \in {jobs[i].step, "lost"}
    BY <1>3, CrashMoves
  <2> QED BY <2>1 DEF GoesOn, Known, Sent, FiledOrNot, LinkedOrNot, Steps
<1> QED BY <1>1, <1>2, <1>3, WorksIs DEF Next, Announce, ChunkUploaded, Works, vars

\* Where the events come from that are in the queue and in the jobs.
LEMMA EventsCome ==
  ASSUME TypeOK, [Next]_vars
  PROVE  /\ \A a \in 1..Len(queue') :
              \/ \E b \in 1..Len(queue) : queue'[a] = queue[b]
              \/ \E e \in Announcements : Announce(e) /\ queue'[a] = e
         /\ \A i \in Jobs : Known(i)' =>
              \/ Known(i) /\ jobs'[i].event = jobs[i].event
              \/ \E b \in 1..Len(queue) : jobs'[i].event = queue[b]
<1>1. queue \in Seq(Announcements) /\ Len(queue) \in Nat
  BY LenProperties DEF TypeOK
<1>2. ASSUME NEW e \in Announcements, Announce(e)
      PROVE  /\ Len(queue') = Len(queue) + 1 /\ queue'[Len(queue) + 1] = e
             /\ \A a \in 1..Len(queue) : queue'[a] = queue[a]
             /\ jobs' = jobs
  BY <1>1, <1>2, AppendProperties DEF Announce
<1>3. ASSUME NEW j \in Jobs, Pop(j)
      PROVE  /\ \A a \in 1..Len(queue') : a + 1 \in 1..Len(queue) /\ queue'[a] = queue[a + 1]
             /\ 1 \in 1..Len(queue) /\ jobs'[j].event = queue[1]
             /\ \A i \in Jobs \ {j} : jobs'[i] = jobs[i]
  <2>1. queue # <<>> /\ queue' = Tail(queue)
    BY <1>3 DEF Pop
  <2>2. /\ Len(queue') = Len(queue) - 1 /\ Len(queue) \geq 1 /\ Head(queue) = queue[1]
        /\ \A a \in 1..Len(queue') : queue'[a] = queue[a + 1]
    BY <1>1, <2>1, HeadTailProperties
  <2>3. /\ jobs'[j].event = queue[1]
        /\ \A i \in Jobs \ {j} : jobs'[i] = jobs[i]
    BY <1>3, <2>2, PopMoves DEF Moves
  <2> QED BY <1>1, <2>2, <2>3
<1>4. \/ \E e \in Announcements : Announce(e)
      \/ \E j \in Jobs : Pop(j)
      \/ queue' = queue /\ \A i \in Jobs : Known(i)' => Known(i) /\ jobs'[i].event = jobs[i].event
  <2>1. CASE Crash
    <3>1. \A i \in Jobs : /\ jobs'[i].event = jobs[i].event
                          /\ jobs'[i].step \in {jobs[i].step, "lost"}
                          /\ jobs'[i].step = "lost" => jobs[i].step \in Working \cup {"popped", "lost"}
      BY <2>1, CrashMoves
    <3>2. \A i \in Jobs : Known(i)' => Known(i)
      BY <3>1 DEF Known, Working
    <3> QED BY <2>1, <3>1, <3>2 DEF Crash
  <2>2. ASSUME NEW j \in Jobs, Works(j)
        PROVE  queue' = queue /\ \A i \in Jobs : Known(i)' => Known(i) /\ jobs'[i].event = jobs[i].event
    BY <2>2, WorksIs DEF GoesOn
  <2>3. ASSUME queue' = queue, jobs' = jobs
        PROVE  \A i \in Jobs : Known(i)' => Known(i) /\ jobs'[i].event = jobs[i].event
    BY <2>3 DEF Known
  <2> QED BY <2>1, <2>2, <2>3 DEF Next, ChunkUploaded, Works, vars
<1>5. CASE \E e \in Announcements : Announce(e)
  <2>1. PICK e \in Announcements : Announce(e)
    BY <1>5
  <2>2. \A a \in 1..Len(queue') : a \in 1..Len(queue) \/ a = Len(queue) + 1
    BY <1>1, <1>2, <2>1
  <2>3. \A i \in Jobs : Known(i)' => Known(i) /\ jobs'[i].event = jobs[i].event
    BY <1>2, <2>1 DEF Known
  <2> QED BY <1>2, <2>1, <2>2, <2>3
<1>6. CASE \E j \in Jobs : Pop(j)
  <2>1. PICK j \in Jobs : Pop(j)
    BY <1>6
  <2>2. \A i \in Jobs \ {j} : Known(i)' => Known(i) /\ jobs'[i].event = jobs[i].event
    BY <1>3, <2>1 DEF Known
  <2> QED BY <1>3, <2>1, <2>2
<1> QED BY <1>4, <1>5, <1>6

LEMMA MadeStep ==
  ASSUME TypeOK, MadeBySent, [Next]_vars
  PROVE  MadeBySent'
<1> DEFINE Videos == \A o \in Outputs : videos[o] # {} =>
             \E i \in Jobs : jobs[i].step \in Sent /\ Output(jobs[i].event) = o
           Rows == \A r \in RecordingIDs : recordings[r] # None =>
             \E i \in Jobs : /\ jobs[i].step \in FiledOrNot /\ jobs[i].event.recording = r
                             /\ recordings[r] = <<jobs[i].event.user, jobs[i].event.session>>
           Links == \A f \in Folders : links[f] # None =>
             \E i \in Jobs : jobs[i].step \in LinkedOrNot /\ Folder(jobs[i].event) = f
<1>1. Videos /\ Rows /\ Links
  BY DEF MadeBySent
<1> SUFFICES Videos' /\ Rows' /\ Links'
  BY DEF MadeBySent
<1>2. \A i \in Jobs :
        /\ jobs[i].step \in Sent =>
             jobs'[i].step \in Sent /\ jobs'[i].event = jobs[i].event
        /\ jobs[i].step \in FiledOrNot =>
             jobs'[i].step \in FiledOrNot /\ jobs'[i].event = jobs[i].event
        /\ jobs[i].step \in LinkedOrNot =>
             jobs'[i].step \in LinkedOrNot /\ jobs'[i].event = jobs[i].event
  BY AllGoOn DEF GoesOn, Known, Sent, FiledOrNot, LinkedOrNot
<1>3. videos' = videos => Videos'
  BY <1>1, <1>2
<1>4. recordings' = recordings => Rows'
  BY <1>1, <1>2
<1>5. links' = links => Links'
  BY <1>1, <1>2
<1>6. ASSUME NEW j \in Jobs, UploadFinalVideo(j) PROVE Videos' /\ Rows' /\ Links'
  <2> DEFINE made == Output(jobs[j].event)
  <2>1. /\ jobs[j].step = "uploading" /\ Goes(j, "finding") /\ recordings' = recordings
        /\ links' = links /\ videos' = [videos EXCEPT ![made] = jobs[j].keys]
    BY <1>6 DEF UploadFinalVideo, Concatenated, At
  <2>2. Moves(j, "finding", jobs[j].event, jobs[j].keys)
    BY <2>1, JobGoes DEF Steps, Working
  <2>3. jobs'[j].step \in Sent /\ Output(jobs'[j].event) = made
    BY <2>2 DEF Moves, Sent, Steps, Working
  <2> HIDE DEF made
  <2>4. \A o \in Outputs : o = made \/ videos'[o] = videos[o]
    BY <2>1 DEF TypeOK
  <2>5. Videos'
    BY <1>1, <1>2, <2>3, <2>4
  <2> QED BY <1>4, <1>5, <2>1, <2>5
<1>7. ASSUME NEW j \in Jobs, FileRecording(j) PROVE Videos' /\ Rows' /\ Links'
  <2> DEFINE e == jobs[j].event
             row == <<e.user, e.session>>
  <2>1. jobs[j].step = "filing" /\ videos' = videos /\ links' = links
    BY <1>7 DEF FileRecording, At
  <2>2. CASE Filed(j)
    <3>1. recordings' = [recordings EXCEPT ![e.recording] = row] /\ Goes(j, "seeking")
      BY <1>7, <2>2 DEF FileRecording
    <3>2. Moves(j, "seeking", e, jobs[j].keys)
      BY <3>1, JobGoes DEF Steps, Working
    <3>3. jobs'[j].step \in FiledOrNot /\ jobs'[j].event = e
      BY <3>2 DEF Moves, FiledOrNot, Sent, Steps, Working
    <3>4. \A r \in RecordingIDs : (r = e.recording /\ recordings'[r] = row) \/ recordings'[r] = recordings[r]
      BY <3>1 DEF TypeOK
    <3>5. Rows'
      BY <1>1, <1>2, <3>3, <3>4
    <3> QED BY <1>3, <1>5, <2>1, <3>5
  <2>3. CASE ~Filed(j)
    BY <1>3, <1>4, <1>5, <1>7, <2>1, <2>3 DEF FileRecording
  <2> QED BY <2>2, <2>3
<1>8. ASSUME NEW j \in Jobs, SaveLink(j) PROVE Videos' /\ Rows' /\ Links'
  <2> DEFINE linked == Folder(jobs[j].event)
  <2>1. Moves(j, "saved", jobs[j].event, jobs[j].keys) /\ recordings' = recordings
    BY <1>8, LinkingIs
  <2>2. /\ videos' = videos
        /\ links' \in {links, [links EXCEPT ![linked] = jobs[j].event.session]}
    BY <1>8 DEF SaveLink
  <2>3. jobs'[j].step \in LinkedOrNot /\ Folder(jobs'[j].event) = linked
    BY <2>1 DEF Moves, LinkedOrNot, FiledOrNot, Sent, Steps, Working
  <2> HIDE DEF linked
  <2>4. \A f \in Folders : f = linked \/ links'[f] = links[f]
    BY <2>2 DEF TypeOK
  <2>5. Links'
    BY <1>1, <1>2, <2>3, <2>4
  <2> QED BY <1>3, <1>4, <2>1, <2>2, <2>5
<1>9. CASE Quiet
  BY <1>3, <1>4, <1>5, <1>9 DEF Quiet
<1> QED BY <1>6, <1>7, <1>8, <1>9, DataSteps

LEMMA FoldersStep ==
  ASSUME TypeOK, FoldersOnce, [Next]_vars, Fresh
  PROVE  FoldersOnce'
<1>1. queue \in Seq(Announcements) /\ Len(queue) \in Nat
  BY LenProperties DEF TypeOK
<1>2. ASSUME queue' = queue, \A i \in Jobs : Known(i)' => Known(i) /\ jobs'[i].event = jobs[i].event
      PROVE  FoldersOnce'
  BY <1>2 DEF FoldersOnce
<1>3. ASSUME NEW e \in Announcements, Announce(e) PROVE FoldersOnce'
  <2>1. queue' = Append(queue, e) /\ jobs' = jobs
    BY <1>3 DEF Announce
  <2>2. /\ Len(queue') = Len(queue) + 1 /\ queue'[Len(queue) + 1] = e
        /\ \A a \in 1..Len(queue) : queue'[a] = queue[a]
    BY <1>1, <2>1, AppendProperties
  <2>3. /\ \A a \in 1..Len(queue) : Folder(queue[a]) # Folder(e)
        /\ \A i \in Jobs : Known(i) => Folder(jobs[i].event) # Folder(e)
    BY <1>3 DEF Fresh
  <2>4. \A a \in 1..Len(queue') : a = Len(queue) + 1 \/ a \in 1..Len(queue)
    BY <1>1, <2>2
  <2>5. \A i \in Jobs : Known(i)' <=> Known(i)
    BY <2>1 DEF Known
  <2> QED BY <2>1, <2>2, <2>3, <2>4, <2>5 DEF FoldersOnce
<1>4. ASSUME NEW j \in Jobs, Pop(j) PROVE FoldersOnce'
  <2>1. queue # <<>> /\ queue' = Tail(queue) /\ ~Known(j)
    BY <1>4 DEF Pop, At, Known
  <2>2. /\ Len(queue') = Len(queue) - 1 /\ Len(queue) \geq 1 /\ Head(queue) = queue[1]
        /\ \A a \in 1..Len(queue') : queue'[a] = queue[a + 1]
    BY <1>1, <2>1, HeadTailProperties
  <2>3. /\ jobs'[j].event = queue[1]
        /\ \A i \in Jobs \ {j} : jobs'[i] = jobs[i]
    BY <1>4, <2>2, PopMoves DEF Moves
  <2>4. \A i \in Jobs \ {j} : Known(i)' => Known(i) /\ jobs'[i].event = jobs[i].event
    BY <2>3 DEF Known
  <2>5. 1 \in 1..Len(queue) /\ \A a \in 1..Len(queue') : a + 1 \in 1..Len(queue) /\ a + 1 # 1
    BY <1>1, <2>2
  <2>6. \A a, b \in 1..Len(queue') : a # b => Folder(queue'[a]) # Folder(queue'[b])
    <3>1. \A a, b \in 1..Len(queue') : a # b => a + 1 # b + 1
      BY <1>1, <2>2
    <3> QED BY <2>2, <2>5, <3>1 DEF FoldersOnce
  <2>7. \A a \in 1..Len(queue'), i \in Jobs : Known(i)' => Folder(queue'[a]) # Folder(jobs'[i].event)
    BY <2>2, <2>3, <2>4, <2>5 DEF FoldersOnce
  <2>8. \A i, k \in Jobs : i # k /\ Known(i)' /\ Known(k)' => Folder(jobs'[i].event) # Folder(jobs'[k].event)
    BY <2>3, <2>4, <2>5 DEF FoldersOnce
  <2> QED BY <2>6, <2>7, <2>8 DEF FoldersOnce
<1>5. ASSUME NEW j \in Jobs, Works(j) PROVE FoldersOnce'
  BY <1>2, <1>5, WorksIs DEF GoesOn
<1>6. CASE Crash
  <2>1. queue' = queue
    BY <1>6 DEF Crash
  <2>2. \A i \in Jobs : /\ jobs'[i].event = jobs[i].event
                        /\ jobs'[i].step \in {jobs[i].step, "lost"}
                        /\ jobs'[i].step = "lost" => jobs[i].step \in Working \cup {"popped", "lost"}
    BY <1>6, CrashMoves
  <2>3. \A i \in Jobs : Known(i)' => Known(i)
    BY <2>2 DEF Known, Working
  <2> QED BY <1>2, <2>1, <2>2, <2>3
<1>7. ASSUME queue' = queue, jobs' = jobs PROVE FoldersOnce'
  BY <1>2, <1>7 DEF Known
<1> QED BY <1>3, <1>4, <1>5, <1>6, <1>7 DEF Next, ChunkUploaded, Works, vars

LEMMA OnceStep ==
  ASSUME TypeOK, OnceInvariant, [Next]_vars, Fresh
  PROVE  OnceInvariant'
BY FoldersStep, MadeStep DEF OnceInvariant

\* What a job makes, files and links, when nobody did before.
Makes(j, e) ==
  /\ videos[Output(e)] = {} /\ jobs[j].keys # {} /\ jobs[j].keys \subseteq uploaded[Folder(e)]
  /\ videos' = [videos EXCEPT ![Output(e)] = jobs[j].keys]
  /\ UNCHANGED <<recordings, links>>

Files(e) ==
  /\ videos[Output(e)] # {} /\ recordings[e.recording] # <<e.user, e.session>>
  /\ recordings' = [recordings EXCEPT ![e.recording] = <<e.user, e.session>>]
  /\ UNCHANGED <<videos, links>>

Links(e) ==
  /\ videos[Output(e)] # {} /\ recordings[e.recording] # None /\ links[Folder(e)] = None
  /\ links' = [links EXCEPT ![Folder(e)] = e.session]
  /\ UNCHANGED <<videos, recordings>>

LEMMA MadeOnce ==
  ASSUME TypeOK, ProcessorInvariant, KeysAreFed, OnceInvariant, [Next]_vars
  PROVE  \/ UNCHANGED <<videos, recordings, links>>
         \/ \E j \in Jobs : /\ Known(j)
                            /\ LET e == jobs[j].event IN Makes(j, e) \/ Files(e) \/ Links(e)
<1>1. \A i, k \in Jobs :
        Known(i) /\ Known(k) /\ Folder(jobs[i].event) = Folder(jobs[k].event) => i = k
  <2> SUFFICES ASSUME NEW i \in Jobs, NEW k \in Jobs, Known(i), Known(k), i # k
               PROVE  Folder(jobs[i].event) # Folder(jobs[k].event)
    OBVIOUS
  <2> QED BY DEF OnceInvariant, FoldersOnce
<1>2. ASSUME NEW j \in Jobs, UploadFinalVideo(j) PROVE Makes(j, jobs[j].event)
  <2> DEFINE e == jobs[j].event
  <2>1. /\ jobs[j].step = "uploading" /\ recordings' = recordings /\ links' = links
        /\ videos' = [videos EXCEPT ![Output(e)] = jobs[j].keys]
    BY <1>2 DEF UploadFinalVideo, Concatenated, At
  <2>2. jobs[j].keys # {} /\ jobs[j].keys \subseteq uploaded[Folder(e)]
    BY <2>1 DEF ProcessorInvariant, JobsKnow, KeysAreFed, Holding
  <2>3. Output(e) \in Outputs
    BY <2>1, EventsAre
  <2>4. ASSUME NEW i \in Jobs, jobs[i].step \in Sent, Output(jobs[i].event) = Output(e) PROVE FALSE
    <3>1. Folder(jobs[i].event) = Folder(e) /\ Known(i) /\ Known(j)
      BY <2>1, <2>4 DEF Output, Sent, Known
    <3> QED BY <1>1, <2>1, <2>4, <3>1 DEF Sent
  <2>5. videos[Output(e)] = {}
    BY <2>3, <2>4 DEF OnceInvariant, MadeBySent
  <2> QED BY <2>1, <2>2, <2>5 DEF Makes
<1>3. ASSUME NEW j \in Jobs, jobs[j].step \in {"filing", "linking"}
      PROVE  /\ videos[Output(jobs[j].event)] # {}
             /\ jobs[j].event.recording \in RecordingIDs /\ Folder(jobs[j].event) \in Folders
  BY <1>3, EventsAre DEF ProcessorInvariant, UploadedBeforeSaved, Events
<1>4. ASSUME NEW j \in Jobs, FileRecording(j), Filed(j) PROVE Files(jobs[j].event)
  <2> DEFINE e == jobs[j].event
             row == <<e.user, e.session>>
  <2>1. /\ jobs[j].step = "filing" /\ UNCHANGED <<videos, links>>
        /\ recordings' = [recordings EXCEPT ![e.recording] = row]
    BY <1>4 DEF FileRecording, At
  <2>2. row # None
    BY <2>1, EventsAre, ProcessorNoneAssumption DEF Event
  <2>3. ASSUME recordings[e.recording] = row PROVE FALSE
    <3>1. PICK i \in Jobs : /\ jobs[i].step \in FiledOrNot /\ jobs[i].event.recording = e.recording
                            /\ row = <<jobs[i].event.user, jobs[i].event.session>>
      <4>1. e.recording \in RecordingIDs
        BY <1>3, <2>1
      <4>2. recordings[e.recording] # None
        BY <2>2, <2>3
      <4>3. \A r \in RecordingIDs : recordings[r] # None =>
              \E i \in Jobs : /\ jobs[i].step \in FiledOrNot /\ jobs[i].event.recording = r
                              /\ recordings[r] = <<jobs[i].event.user, jobs[i].event.session>>
        BY DEF OnceInvariant, MadeBySent
      <4> HIDE DEF e, row
      <4> QED BY <2>3, <4>1, <4>2, <4>3
    <3>2. Folder(jobs[i].event) = Folder(e) /\ Known(i) /\ Known(j)
      BY <2>1, <3>1 DEF Folder, FiledOrNot, Sent, Known
    <3> QED BY <1>1, <2>1, <3>1, <3>2 DEF FiledOrNot
  <2> QED BY <1>3, <2>1, <2>3 DEF Files
<1>5. ASSUME NEW j \in Jobs, SaveLink(j) PROVE Links(jobs[j].event)
  <2> DEFINE e == jobs[j].event
  <2>1. jobs[j].step = "linking" /\ UNCHANGED <<videos, recordings>>
    BY <1>5 DEF SaveLink, At
  <2>2. recordings[e.recording] # None
    BY <2>1 DEF ProcessorInvariant, JobsKnow
  <2>3. ASSUME links[Folder(e)] # None PROVE FALSE
    <3>1. PICK i \in Jobs : jobs[i].step \in LinkedOrNot /\ Folder(jobs[i].event) = Folder(e)
      BY <1>3, <2>1, <2>3 DEF OnceInvariant, MadeBySent
    <3>2. Known(i) /\ Known(j)
      BY <2>1, <3>1 DEF LinkedOrNot, FiledOrNot, Sent, Known
    <3> QED BY <1>1, <2>1, <3>1, <3>2 DEF LinkedOrNot
  <2>4. links' = [links EXCEPT ![Folder(e)] = e.session]
    BY <1>5, <2>3 DEF SaveLink
  <2> QED BY <1>3, <2>1, <2>2, <2>3, <2>4 DEF Links
<1>6. ASSUME NEW j \in Jobs, UploadFinalVideo(j) \/ FileRecording(j) \/ SaveLink(j)
      PROVE  Known(j)
  BY <1>6 DEF UploadFinalVideo, FileRecording, SaveLink, At, Known
<1>7. ASSUME NEW j \in Jobs, FileRecording(j), ~Filed(j) PROVE UNCHANGED <<videos, recordings, links>>
  BY <1>7 DEF FileRecording
<1>8. CASE Quiet
  BY <1>8 DEF Quiet
<1> QED BY <1>2, <1>4, <1>5, <1>6, <1>7, <1>8, DataSteps

\* With a folder of its own for all that is announced, a video is never made
\* again and a user's link never changes, though events and jobs are lost,
\* repeated and retried, and the service restarts: what a user was led to stays.
MadeStays ==
  /\ \A o \in Outputs : videos[o] # {} => videos'[o] = videos[o]
  /\ \A f \in Folders : links[f] # None => links'[f] = links[f]

LEMMA OnceInit == ASSUME Init PROVE OnceInvariant
<1>1. \A j \in Jobs : ~Known(j)
  BY DEF Init, NoJob, Known
<1>2. FoldersOnce
  BY <1>1 DEF Init, FoldersOnce
<1>3. MadeBySent
  BY DEF Init, MadeBySent
<1> QED BY <1>2, <1>3 DEF OnceInvariant

THEOREM MadeStaysHolds == Spec /\ [][Fresh]_vars => [][MadeStays]_vars
<1>1. Init => OnceInvariant
  BY OnceInit
<1>2. TypeOK /\ OnceInvariant /\ [Next]_vars /\ [Fresh]_vars => OnceInvariant'
  <2>1. ASSUME TypeOK, OnceInvariant, UNCHANGED vars PROVE OnceInvariant'
    BY <2>1 DEF OnceInvariant, FoldersOnce, MadeBySent, Known, vars
  <2> QED BY <2>1, OnceStep
<1>3. TypeOK /\ ProcessorInvariant /\ KeysAreFed /\ OnceInvariant /\ [Next]_vars => [MadeStays]_vars
  <2> SUFFICES ASSUME TypeOK, ProcessorInvariant, KeysAreFed, OnceInvariant, [Next]_vars
               PROVE  MadeStays
    OBVIOUS
  <2>1. CASE UNCHANGED <<videos, recordings, links>>
    BY <2>1 DEF MadeStays
  <2>2. ASSUME NEW j \in Jobs, NEW e, Makes(j, e) \/ Files(e) \/ Links(e) PROVE MadeStays
    <3>1. CASE Makes(j, e)
      <4>1. \A o \in Outputs : o = Output(e) \/ videos'[o] = videos[o]
        BY <3>1 DEF Makes, TypeOK
      <4> QED BY <3>1, <4>1 DEF Makes, MadeStays
    <3>2. CASE Links(e)
      <4>1. \A f \in Folders : f = Folder(e) \/ links'[f] = links[f]
        BY <3>2 DEF Links, TypeOK
      <4> QED BY <3>2, <4>1 DEF Links, MadeStays
    <3>3. CASE Files(e)
      BY <3>3 DEF Files, MadeStays
    <3> QED BY <2>2, <3>1, <3>2, <3>3
  <2> QED BY <2>1, <2>2, MadeOnce
<1> QED BY <1>1, <1>2, <1>3, FedHolds, ProcessorInvariantIs, PTL DEF Spec
=============================================================================
