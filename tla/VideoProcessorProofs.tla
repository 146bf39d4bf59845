------------------------ MODULE VideoProcessorProofs ------------------------
(***************************************************************************)
(* Proofs about VideoProcessor, for every set of users, recordings and     *)
(* sessions, any finite number of jobs, any number of chunks and attempts, *)
(* with and without deletion of chunks and with any faults.                *)
(***************************************************************************)
EXTENDS VideoProcessor, SequenceTheorems, TLAPS

-----------------------------------------------------------------------------
(* What a step does to the job that takes it.                              *)

Moves(j, step, event, keys) ==
  /\ jobs' \in [Jobs -> Job]
  /\ \A i \in Jobs \ {j} : jobs'[i] = jobs[i]
  /\ jobs'[j].step = step /\ jobs'[j].event = event /\ jobs'[j].keys = keys

LEMMA JobMoves ==
  ASSUME TypeOK, NEW j \in Jobs, NEW job \in Job, jobs' = [jobs EXCEPT ![j] = job]
  PROVE  Moves(j, job.step, job.event, job.keys)
BY DEF TypeOK, Moves

LEMMA JobGoes ==
  ASSUME TypeOK, NEW j \in Jobs, NEW step \in Steps, Goes(j, step)
  PROVE  Moves(j, step, jobs[j].event, jobs[j].keys)
<1>1. jobs[j] \in Job
  BY DEF TypeOK
<1>2. PICK job : job = [jobs[j] EXCEPT !.step = step]
  OBVIOUS
<1>3. job \in Job /\ job.step = step /\ job.event = jobs[j].event /\ job.keys = jobs[j].keys
  BY <1>1, <1>2 DEF Job
<1>4. jobs' = [jobs EXCEPT ![j] = job]
  BY <1>2 DEF Goes, TypeOK
<1> QED BY <1>3, <1>4, JobMoves

LEMMA PopMoves ==
  ASSUME TypeOK, NEW j \in Jobs, Pop(j)
  PROVE  /\ Head(queue) \in Announcements /\ queue' \in Seq(Announcements)
         /\ Moves(j, "popped", Head(queue), jobs[j].keys)
<1>1. jobs[j] \in Job /\ queue \in Seq(Announcements) /\ queue # <<>> /\ queue' = Tail(queue)
  BY DEF TypeOK, Pop
<1>2. Head(queue) \in Announcements /\ queue' \in Seq(Announcements)
  BY <1>1, HeadTailProperties
<1>3. PICK job : job = [jobs[j] EXCEPT !.step = "popped", !.event = Head(queue)]
  OBVIOUS
<1>4. job \in Job /\ job.step = "popped" /\ job.event = Head(queue) /\ job.keys = jobs[j].keys
  BY <1>1, <1>2, <1>3 DEF Job, Steps
<1>5. jobs' = [jobs EXCEPT ![j] = job]
  BY <1>3 DEF Pop, TypeOK
<1> QED BY <1>2, <1>4, <1>5, JobMoves

\* A claim that is made; the other is a job that is skipped.
Claims(j) == ~Taken(jobs[j].event) /\ Claim(j) /\ processed' = processed \cup {Key(jobs[j].event)}

LEMMA ClaimMoves ==
  ASSUME TypeOK, NEW j \in Jobs, Claim(j)
  PROVE  \/ Claims(j) /\ Moves(j, "listing", jobs[j].event, jobs[j].keys)
         \/ processed' = processed /\ Moves(j, "skipped", jobs[j].event, jobs[j].keys)
<1>1. CASE Taken(jobs[j].event)
  <2>1. Goes(j, "skipped") /\ processed' = processed /\ "skipped" \in Steps
    BY <1>1 DEF Claim, Steps
  <2> QED BY <2>1, JobGoes
<1>2. CASE ~Taken(jobs[j].event)
  <2>1. jobs[j] \in Job /\ 1 \in 0..MaxAttempts
    BY BoundsAssumption DEF TypeOK
  <2>2. PICK job : job = [jobs[j] EXCEPT !.step = "listing", !.attempt = 1]
    OBVIOUS
  <2>3. /\ job \in Job /\ job.step = "listing" /\ job.event = jobs[j].event
        /\ job.keys = jobs[j].keys
    BY <2>1, <2>2 DEF Job, Steps, Working
  <2>4. jobs' = [jobs EXCEPT ![j] = job]
    BY <1>2, <2>2 DEF Claim, TypeOK
  <2>5. Claims(j)
    BY <1>2 DEF Claim, Claims
  <2> QED BY <2>3, <2>4, <2>5, JobMoves
<1> QED BY <1>1, <1>2

\* The variables a step of concatenateVideoChunks leaves alone.
Reads == UNCHANGED <<queue, uploaded, stored, videos, processed, recordings, links>>

LEMMA ListMoves ==
  ASSUME TypeOK, NEW j \in Jobs, List(j)
  PROVE  \/ GiveUp(j)
         \/ Reads /\ Moves(j, "listing", jobs[j].event, jobs[j].keys)
         \/ Reads /\ \E keys \in SUBSET ChunkNumbers :
                       keys # {} /\ Moves(j, "downloading", jobs[j].event, keys)
<1> DEFINE found == stored[Folder(jobs[j].event)]
           complete == Cardinality(found) = jobs[j].event.total
<1>1. jobs[j] \in Job /\ jobs[j].step = "listing" /\ jobs[j].event \in Event
  BY AnnouncementsAssumption DEF TypeOK, List, At, Job
<1>2. found \in SUBSET ChunkNumbers
  BY <1>1 DEF TypeOK, Folder, Folders, Event
<1>3. CASE /\ found # {}
           /\ jobs' = [jobs EXCEPT ![j].step = "downloading", ![j].keys = found]
           /\ Reads
  <2>1. PICK job : job = [jobs[j] EXCEPT !.step = "downloading", !.keys = found]
    OBVIOUS
  <2> HIDE DEF found
  <2>2. /\ job \in Job /\ job.step = "downloading" /\ job.event = jobs[j].event
        /\ job.keys = found
    BY <1>1, <1>2, <2>1 DEF Job, Steps, Working
  <2>3. jobs' = [jobs EXCEPT ![j] = job]
    BY <1>3, <2>1 DEF TypeOK
  <2>4. Moves(j, "downloading", jobs[j].event, found)
    BY <2>2, <2>3, JobMoves
  <2> QED BY <1>2, <1>3, <2>4
<1>4. CASE ~Last(j) /\ jobs' = NextAttempt(j) /\ Reads
  <2>1. jobs[j].attempt + 1 \in 0..MaxAttempts
    BY <1>1, <1>4, BoundsAssumption DEF Job, Last
  <2>2. PICK job : job = [jobs[j] EXCEPT !.attempt = @ + 1]
    OBVIOUS
  <2>3. /\ job \in Job /\ job.step = "listing" /\ job.event = jobs[j].event
        /\ job.keys = jobs[j].keys
    BY <1>1, <2>1, <2>2 DEF Job
  <2>4. jobs' = [jobs EXCEPT ![j] = job]
    BY <1>4, <2>2 DEF NextAttempt, TypeOK
  <2> QED BY <1>4, <2>3, <2>4, JobMoves
<1> HIDE DEF found
<1>5. \/ GiveUp(j) \/ (~Last(j) /\ jobs' = NextAttempt(j) /\ Reads)
      \/ /\ found # {} /\ Reads
         /\ jobs' = [jobs EXCEPT ![j].step = "downloading", ![j].keys = found]
  BY DEF List, Reads, found
<1> QED BY <1>3, <1>4, <1>5

\* A SELECT: the job sees whether there is a row.
LEMMA SelectMoves ==
  ASSUME TypeOK, NEW j \in Jobs, NEW step \in Steps, NEW saw \in BOOLEAN,
         jobs' = [jobs EXCEPT ![j].step = step, ![j].saw = saw]
  PROVE  Moves(j, step, jobs[j].event, jobs[j].keys)
<1>1. jobs[j] \in Job
  BY DEF TypeOK
<1>2. PICK job : job = [jobs[j] EXCEPT !.step = step, !.saw = saw]
  OBVIOUS
<1>3. job \in Job /\ job.step = step /\ job.event = jobs[j].event /\ job.keys = jobs[j].keys
  BY <1>1, <1>2 DEF Job
<1>4. jobs' = [jobs EXCEPT ![j] = job]
  BY <1>2 DEF TypeOK
<1> QED BY <1>3, <1>4, JobMoves

LEMMA FinishMoves ==
  ASSUME TypeOK, NEW j \in Jobs, Finish(j)
  PROVE  Moves(j, "done", jobs[j].event, jobs[j].keys)
<1>1. jobs[j] \in Job
  BY DEF TypeOK
<1>2. PICK swept : swept = IF CleanupChunks THEN Swept(j) ELSE {}
  OBVIOUS
<1>3. swept \in SUBSET ChunkNumbers
  BY <1>1, <1>2 DEF Swept, Job
<1>4. PICK job : job = [jobs[j] EXCEPT !.step = "done", !.sweeping = swept]
  OBVIOUS
<1>5. /\ job \in Job /\ job.step = "done" /\ job.event = jobs[j].event /\ job.keys = jobs[j].keys
  BY <1>1, <1>3, <1>4 DEF Job, Steps
<1>6. jobs' = [jobs EXCEPT ![j] = job]
  BY <1>2, <1>4 DEF Finish, TypeOK
<1> QED BY <1>5, <1>6, JobMoves

LEMMA SweepMoves ==
  ASSUME TypeOK, NEW j \in Jobs, NEW c, Sweep(j, c)
  PROVE  Moves(j, jobs[j].step, jobs[j].event, jobs[j].keys)
<1>1. jobs[j] \in Job
  BY DEF TypeOK
<1>2. PICK job : job = [jobs[j] EXCEPT !.sweeping = @ \ {c}]
  OBVIOUS
<1>3. /\ job \in Job /\ job.step = jobs[j].step /\ job.event = jobs[j].event
      /\ job.keys = jobs[j].keys
  BY <1>1, <1>2 DEF Job
<1>4. jobs' = [jobs EXCEPT ![j] = job]
  BY <1>2 DEF Sweep, TypeOK
<1> QED BY <1>3, <1>4, JobMoves

LEMMA CrashMoves ==
  ASSUME TypeOK, Crash
  PROVE  /\ jobs' \in [Jobs -> Job] /\ processed' = {}
         /\ \A j \in Jobs :
              /\ jobs'[j].event = jobs[j].event
              /\ jobs'[j].step = IF jobs[j].step \in Working \cup {"popped"} THEN "lost"
                                                                           ELSE jobs[j].step
<1> DEFINE After(j) == [jobs[j] EXCEPT !.sweeping = {},
                          !.step = IF @ \in Working \cup {"popped"} THEN "lost" ELSE @]
<1>1. ASSUME NEW j \in Jobs
      PROVE  /\ After(j) \in Job /\ After(j).event = jobs[j].event
             /\ After(j).step = IF jobs[j].step \in Working \cup {"popped"} THEN "lost"
                                                                          ELSE jobs[j].step
  <2>1. jobs[j] \in Job
    BY <1>1 DEF TypeOK
  <2>2. PICK step : step = IF jobs[j].step \in Working \cup {"popped"} THEN "lost" ELSE jobs[j].step
    OBVIOUS
  <2>3. step \in Steps
    BY <2>1, <2>2 DEF Job, Steps
  <2>4. After(j) = [jobs[j] EXCEPT !.sweeping = {}, !.step = step]
    BY <2>2
  <2> HIDE DEF After
  <2>5. After(j) \in Job /\ After(j).event = jobs[j].event /\ After(j).step = step
    BY <2>1, <2>3, <2>4 DEF Job
  <2> QED BY <2>2, <2>5
<1>2. jobs' = [j \in Jobs |-> After(j)] /\ processed' = {}
  BY DEF Crash
<1> HIDE DEF After
<1> QED BY <1>1, <1>2

-----------------------------------------------------------------------------
(* Types.                                                                  *)

\* A job's event stays or, for one that pops, is an event of the queue.
LEMMA MovedJobs ==
  ASSUME TypeOK, NEW j \in Jobs, NEW step, NEW event, NEW keys, Moves(j, step, event, keys),
         event = None <=> step = "unused"
  PROVE  jobs' \in [Jobs -> Job] /\ \A i \in Jobs : jobs'[i].event = None <=> jobs'[i].step = "unused"
BY DEF TypeOK, Moves

LEMMA EventsAre ==
  ASSUME TypeOK, NEW j \in Jobs, jobs[j].step # "unused"
  PROVE  /\ jobs[j].event \in Announcements /\ jobs[j].event # None
         /\ jobs[j].event \in Event /\ Folder(jobs[j].event) \in Folders
         /\ Output(jobs[j].event) \in Outputs /\ Key(jobs[j].event) \in SessionIDs \X Users
         /\ jobs[j].event.recording \in RecordingIDs
<1>1. jobs[j].event \in Announcements /\ jobs[j].event # None
  BY DEF TypeOK, Job
<1>2. jobs[j].event \in Event
  BY <1>1, AnnouncementsAssumption
<1>3. Folder(jobs[j].event) \in Folders
  BY <1>2 DEF Event, Folder, Folders
<1> QED BY <1>1, <1>2, <1>3 DEF Event, Output, Outputs, Key

LEMMA ProcessorTypeStep ==
  ASSUME TypeOK, [Next]_vars
  PROVE  TypeOK'
<1> DEFINE JobsTyped == /\ jobs' \in [Jobs -> Job]
                        /\ \A i \in Jobs : jobs'[i].event = None <=> jobs'[i].step = "unused"
<1>1. ASSUME NEW e \in Announcements, Announce(e) PROVE TypeOK'
  BY <1>1 DEF Announce, TypeOK
<1>2. ASSUME NEW f \in Folders, NEW c \in ChunkNumbers, ChunkUploaded(f, c) PROVE TypeOK'
  <2>1. uploaded[f] \cup {c} \in SUBSET ChunkNumbers /\ stored[f] \cup {c} \in SUBSET ChunkNumbers
    BY <1>2 DEF TypeOK
  <2> QED BY <1>2, <2>1 DEF ChunkUploaded, TypeOK
<1>3. ASSUME NEW j \in Jobs, Pop(j) PROVE TypeOK'
  <2>1. Head(queue) # None
    BY <1>3, PopMoves, ProcessorNoneAssumption
  <2>2. JobsTyped /\ queue' \in Seq(Announcements)
    BY <1>3, <2>1, PopMoves, MovedJobs
  <2> QED BY <1>3, <2>2 DEF Pop, TypeOK
<1>4. ASSUME NEW j \in Jobs, jobs[j].step # "unused", NEW step, step # "unused", NEW keys,
             Moves(j, step, jobs[j].event, keys)
      PROVE  JobsTyped
  <2>1. jobs[j].event # None
    BY <1>4, EventsAre
  <2> QED BY <1>4, <2>1, MovedJobs
<1>5. ASSUME NEW j \in Jobs, Claim(j) PROVE TypeOK'
  <2>1. jobs[j].step # "unused"
    BY <1>5 DEF Claim, At
  <2>2. JobsTyped
    BY <1>4, <1>5, <2>1, ClaimMoves
  <2>3. processed' \subseteq SessionIDs \X Users
    BY <1>5, <2>1, EventsAre DEF Claim, TypeOK
  <2> QED BY <1>5, <2>2, <2>3 DEF Claim, TypeOK
<1>6. ASSUME NEW j \in Jobs, jobs[j].step # "unused", GiveUp(j) PROVE TypeOK'
  <2>1. Moves(j, "failed", jobs[j].event, jobs[j].keys)
    BY <1>6, JobGoes DEF GiveUp, Steps
  <2>2. JobsTyped
    BY <1>4, <1>6, <2>1
  <2> QED BY <1>6, <2>2 DEF GiveUp, Released, TypeOK
<1>7. ASSUME Reads, processed' = processed, JobsTyped PROVE TypeOK'
  BY <1>7 DEF Reads, TypeOK
<1>8. ASSUME NEW j \in Jobs, List(j) PROVE TypeOK'
  <2>1. jobs[j].step # "unused"
    BY <1>8 DEF List, At
  <2>2. CASE GiveUp(j)
    BY <1>6, <2>1, <2>2
  <2>3. CASE ~GiveUp(j)
    <3>1. Reads /\ JobsTyped
      BY <1>4, <1>8, <2>1, <2>3, ListMoves
    <3> QED BY <1>7, <1>8, <2>3, <3>1 DEF List, Reads
  <2> QED BY <2>2, <2>3
<1>9. ASSUME NEW j \in Jobs, Download(j) PROVE TypeOK'
  <2>1. jobs[j].step # "unused"
    BY <1>9 DEF Download, At
  <2>2. CASE GiveUp(j)
    BY <1>6, <2>1, <2>2
  <2>3. CASE ~GiveUp(j)
    <3>1. Reads /\ Goes(j, "uploading") /\ processed' = processed
      BY <1>9, <2>3 DEF Download, Reads
    <3>2. JobsTyped
      BY <1>4, <2>1, <3>1, JobGoes DEF Steps, Working
    <3> QED BY <1>7, <3>1, <3>2
  <2> QED BY <2>2, <2>3
<1>10. ASSUME NEW j \in Jobs, UploadFinalVideo(j) PROVE TypeOK'
  <2>1. jobs[j].step # "unused" /\ Goes(j, "finding")
    BY <1>10 DEF UploadFinalVideo, At
  <2>2. JobsTyped
    BY <1>4, <2>1, JobGoes DEF Steps, Working
  <2>3. videos' \in [Outputs -> SUBSET ChunkNumbers]
    <3>1. jobs[j].keys \in SUBSET ChunkNumbers
      BY <1>10 DEF TypeOK, Job
    <3> QED BY <1>10, <3>1 DEF UploadFinalVideo, Concatenated, TypeOK
  <2> QED BY <1>10, <2>2, <2>3 DEF UploadFinalVideo, TypeOK
<1>11. ASSUME NEW j \in Jobs, FindRecording(j) PROVE TypeOK'
  <2>1. PICK saw \in BOOLEAN : saw = (recordings[jobs[j].event.recording] # None)
    OBVIOUS
  <2>2. /\ jobs' = [jobs EXCEPT ![j].step = "filing", ![j].saw = saw]
        /\ jobs[j].step # "unused" /\ Reads /\ processed' = processed
    BY <1>11, <2>1 DEF FindRecording, Reads, At
  <2>3. JobsTyped
    BY <1>4, <1>11, <2>2, SelectMoves DEF Steps, Working
  <2> QED BY <1>7, <2>2, <2>3
<1>12. ASSUME NEW j \in Jobs, SeekLink(j) PROVE TypeOK'
  <2>1. PICK saw \in BOOLEAN : saw = (links[Folder(jobs[j].event)] # None)
    OBVIOUS
  <2>2. /\ jobs' = [jobs EXCEPT ![j].step = "linking", ![j].saw = saw]
        /\ jobs[j].step # "unused" /\ Reads /\ processed' = processed
    BY <1>12, <2>1 DEF SeekLink, Reads, At
  <2>3. JobsTyped
    BY <1>4, <1>12, <2>2, SelectMoves DEF Steps, Working
  <2> QED BY <1>7, <2>2, <2>3
<1>13. ASSUME NEW j \in Jobs, FileRecording(j) PROVE TypeOK'
  <2>1. jobs[j].step # "unused" /\ (Goes(j, "seeking") \/ Goes(j, "saved"))
    BY <1>13 DEF FileRecording, At
  <2>2. JobsTyped
    BY <1>4, <1>13, <2>1, JobGoes DEF Steps, Working
  <2>3. recordings' \in [RecordingIDs -> (Users \X SessionIDs) \cup {None}]
    <3>1. <<jobs[j].event.user, jobs[j].event.session>> \in Users \X SessionIDs
      BY <1>13, <2>1, EventsAre DEF Event
    <3> QED BY <1>13, <3>1 DEF FileRecording, TypeOK
  <2> QED BY <1>13, <2>2, <2>3 DEF FileRecording, TypeOK
<1>14. ASSUME NEW j \in Jobs, SaveLink(j) PROVE TypeOK'
  <2>1. jobs[j].step # "unused" /\ Goes(j, "saved")
    BY <1>14 DEF SaveLink, At
  <2>2. JobsTyped
    BY <1>4, <1>14, <2>1, JobGoes DEF Steps, Working
  <2>3. links' \in [Folders -> SessionIDs \cup {None}]
    <3>1. jobs[j].event.session \in SessionIDs
      BY <1>14, <2>1, EventsAre DEF Event
    <3> QED BY <1>14, <3>1 DEF SaveLink, TypeOK
  <2> QED BY <1>14, <2>2, <2>3 DEF SaveLink, TypeOK
<1>15. ASSUME NEW j \in Jobs, Finish(j) PROVE TypeOK'
  <2>1. jobs[j].step # "unused" /\ Reads /\ processed' = processed
    BY <1>15 DEF Finish, Reads, At
  <2>2. JobsTyped
    BY <1>4, <1>15, <2>1, FinishMoves
  <2> QED BY <1>7, <2>1, <2>2
<1>16. ASSUME NEW j \in Jobs, NEW c \in ChunkNumbers, Sweep(j, c) PROVE TypeOK'
  <2>1. Moves(j, jobs[j].step, jobs[j].event, jobs[j].keys)
    BY <1>16, SweepMoves
  <2>2. JobsTyped
    BY <1>16, <2>1, MovedJobs DEF TypeOK
  <2>3. stored' \in [Folders -> SUBSET ChunkNumbers]
    <3> DEFINE f == Folder(jobs[j].event)
    <3>1. stored' \in {stored, [stored EXCEPT ![f] = @ \ {c}]}
      BY <1>16 DEF Sweep
    <3> HIDE DEF f
    <3>2. f \in Folders => stored[f] \ {c} \in SUBSET ChunkNumbers
      BY DEF TypeOK
    <3> QED BY <3>1, <3>2 DEF TypeOK
  <2> QED BY <1>16, <2>2, <2>3 DEF Sweep, TypeOK
<1>17. ASSUME NEW j \in Jobs, S3Fails(j) PROVE TypeOK'
  BY <1>6, <1>17 DEF S3Fails
<1>18. ASSUME NEW j \in Jobs, NoPod(j) \/ DBFails(j) PROVE TypeOK'
  <2>1. jobs[j].step # "unused" /\ Goes(j, "saved") /\ Reads /\ processed' = processed
    BY <1>18 DEF NoPod, At, DBFails, Reads
  <2>2. JobsTyped
    BY <1>4, <1>18, <2>1, JobGoes DEF Steps, Working
  <2> QED BY <1>7, <2>1, <2>2
<1>19. CASE Crash
  <2>1. JobsTyped
    BY <1>19, CrashMoves DEF TypeOK, Working
  <2> QED BY <1>19, <2>1 DEF Crash, TypeOK
<1>20. CASE UNCHANGED vars
  BY <1>20 DEF vars, TypeOK
<1> QED BY <1>1, <1>2, <1>3, <1>5, <1>8, <1>9, <1>10, <1>11, <1>12, <1>13, <1>14, <1>15,
           <1>16, <1>17, <1>18, <1>19, <1>20 DEF Next, JobStep

\* The types of the video processor's queue, jobs, stores and tables; a job
\* has an event from the moment it is popped.
THEOREM ProcessorTypeInvariant == Spec => []TypeOK
<1>1. Init => TypeOK
  <2>1. NoJob \in Job
    BY BoundsAssumption DEF NoJob, Job, Steps
  <2>2. NoJob.event = None /\ NoJob.step = "unused"
    BY DEF NoJob
  <2> QED BY <2>1, <2>2 DEF Init, TypeOK
<1> QED BY <1>1, ProcessorTypeStep, PTL DEF Spec

-----------------------------------------------------------------------------
(* Claims.  A step keeps the claims and the jobs at work, or begins a job, *)
(* or ends one that fails, or is a restart.                                *)

Keeps ==
  /\ processed' = processed
  /\ \A i \in Jobs :
       /\ jobs'[i].step \in Working => jobs[i].step \in Working
       /\ jobs'[i].step \in Working \cup {"done"} <=> jobs[i].step \in Working \cup {"done"}
       /\ jobs[i].step \in Working \cup {"done"} => jobs'[i].event = jobs[i].event

Begins(j) ==
  /\ jobs[j].step = "popped" /\ ~Taken(jobs[j].event)
  /\ processed' = processed \cup {Key(jobs[j].event)}
  /\ jobs'[j].step = "listing" /\ jobs'[j].event = jobs[j].event
  /\ \A i \in Jobs \ {j} : jobs'[i] = jobs[i]

Fails(j) ==
  /\ jobs[j].step \in Working
  /\ processed' = processed \ {Key(jobs[j].event)}
  /\ jobs'[j].step = "failed"
  /\ \A i \in Jobs \ {j} : jobs'[i] = jobs[i]

Restarts == processed' = {} /\ \A i \in Jobs : jobs'[i].step \notin Working

LEMMA KeepsIfMoves ==
  ASSUME TypeOK, NEW j \in Jobs, NEW step, NEW event, NEW keys, Moves(j, step, event, keys),
         processed' = processed,
         \/ jobs[j].step \notin Working \cup {"done"} /\ step \notin Working \cup {"done"}
         \/ jobs[j].step \in Working /\ step \in Working \cup {"done"} /\ event = jobs[j].event
         \/ jobs[j].step = step /\ event = jobs[j].event
  PROVE  Keeps
BY DEF Keeps, Moves

LEMMA ClaimSteps ==
  ASSUME TypeOK, [Next]_vars
  PROVE  Keeps \/ (Crash /\ Restarts) \/ \E j \in Jobs : Begins(j) \/ Fails(j)
<1>1. ASSUME jobs' = jobs, processed' = processed PROVE Keeps
  BY <1>1 DEF Keeps
<1>2. ASSUME NEW j \in Jobs, Pop(j) PROVE Keeps
  <2>1. jobs[j].step = "unused" /\ processed' = processed
    BY <1>2 DEF Pop, At
  <2> QED BY <1>2, <2>1, PopMoves, KeepsIfMoves DEF Working
<1>3. ASSUME NEW j \in Jobs, Claim(j) PROVE Keeps \/ Begins(j)
  <2>1. jobs[j].step = "popped"
    BY <1>3 DEF Claim, At
  <2>2. CASE Claims(j) /\ Moves(j, "listing", jobs[j].event, jobs[j].keys)
    BY <2>1, <2>2 DEF Claims, Moves, Begins
  <2>3. CASE processed' = processed /\ Moves(j, "skipped", jobs[j].event, jobs[j].keys)
    BY <2>1, <2>3, KeepsIfMoves DEF Working
  <2> QED BY <1>3, <2>2, <2>3, ClaimMoves
<1>4. ASSUME NEW j \in Jobs, jobs[j].step \in Working, GiveUp(j) PROVE Fails(j)
  <2>1. Moves(j, "failed", jobs[j].event, jobs[j].keys)
    BY <1>4, JobGoes DEF GiveUp, Steps
  <2> QED BY <1>4, <2>1 DEF GiveUp, Released, Moves, Fails
<1>5. ASSUME NEW j \in Jobs, List(j) PROVE Keeps \/ Fails(j)
  <2>1. jobs[j].step = "listing"
    BY <1>5 DEF List, At
  <2>2. CASE GiveUp(j)
    BY <1>4, <2>1, <2>2 DEF Working
  <2>3. CASE ~GiveUp(j)
    BY <1>5, <2>1, <2>3, ListMoves, KeepsIfMoves DEF List, Working
  <2> QED BY <2>2, <2>3
<1>6. ASSUME NEW j \in Jobs, Download(j) PROVE Keeps \/ Fails(j)
  <2>1. jobs[j].step = "downloading"
    BY <1>6 DEF Download, At
  <2>2. CASE GiveUp(j)
    BY <1>4, <2>1, <2>2 DEF Working
  <2>3. CASE ~GiveUp(j)
    <3>1. Goes(j, "uploading") /\ processed' = processed
      BY <1>6, <2>3 DEF Download
    <3> QED BY <2>1, <3>1, JobGoes, KeepsIfMoves DEF Steps, Working
  <2> QED BY <2>2, <2>3
<1>7. ASSUME NEW j \in Jobs, NEW step \in Working, Goes(j, step), processed' = processed,
             jobs[j].step \in Working
      PROVE  Keeps
  BY <1>7, JobGoes, KeepsIfMoves DEF Steps
<1>8. ASSUME NEW j \in Jobs,
             UploadFinalVideo(j) \/ FileRecording(j) \/ SaveLink(j) \/ NoPod(j) \/ DBFails(j)
      PROVE  Keeps
  <2>1. jobs[j].step \in Working /\ processed' = processed
        /\ (Goes(j, "finding") \/ Goes(j, "seeking") \/ Goes(j, "saved"))
    BY <1>8 DEF UploadFinalVideo, FileRecording, SaveLink, NoPod, DBFails, At, Working
  <2> QED BY <1>7, <2>1 DEF Working
<1>9. ASSUME NEW j \in Jobs, FindRecording(j) PROVE Keeps
  <2>1. PICK saw \in BOOLEAN : saw = (recordings[jobs[j].event.recording] # None)
    OBVIOUS
  <2>2. /\ jobs' = [jobs EXCEPT ![j].step = "filing", ![j].saw = saw]
        /\ jobs[j].step \in Working /\ processed' = processed
    BY <1>9, <2>1 DEF FindRecording, At, Working
  <2> QED BY <1>9, <2>2, SelectMoves, KeepsIfMoves DEF Steps, Working
<1>10. ASSUME NEW j \in Jobs, SeekLink(j) PROVE Keeps
  <2>1. PICK saw \in BOOLEAN : saw = (links[Folder(jobs[j].event)] # None)
    OBVIOUS
  <2>2. /\ jobs' = [jobs EXCEPT ![j].step = "linking", ![j].saw = saw]
        /\ jobs[j].step \in Working /\ processed' = processed
    BY <1>10, <2>1 DEF SeekLink, At, Working
  <2> QED BY <1>10, <2>2, SelectMoves, KeepsIfMoves DEF Steps, Working
<1>11. ASSUME NEW j \in Jobs, Finish(j) PROVE Keeps
  <2>1. jobs[j].step \in Working /\ processed' = processed
    BY <1>11 DEF Finish, At, Working
  <2> QED BY <1>11, <2>1, FinishMoves, KeepsIfMoves
<1>12. ASSUME NEW j \in Jobs, NEW c \in ChunkNumbers, Sweep(j, c) PROVE Keeps
  <2>1. processed' = processed
    BY <1>12 DEF Sweep
  <2> QED BY <1>12, <2>1, SweepMoves, KeepsIfMoves
<1>13. ASSUME NEW j \in Jobs, S3Fails(j) PROVE Fails(j)
  BY <1>4, <1>13 DEF S3Fails, Working
<1>14. CASE Crash
  BY <1>14, CrashMoves DEF Restarts, Working
<1> QED
  BY <1>1, <1>2, <1>3, <1>5, <1>6, <1>8, <1>9, <1>10, <1>11, <1>12, <1>13, <1>14
  DEF Next, JobStep, Announce, ChunkUploaded, vars

LEMMA ClaimsStep ==
  ASSUME TypeOK, ClaimsAreHeld, ExclusiveJobs, [Next]_vars
  PROVE  ClaimsAreHeld' /\ ExclusiveJobs'
<1> DEFINE Held == \A i \in Jobs : jobs[i].step \in Working => Key(jobs[i].event) \in processed
           Owned == \A key \in processed : \E i \in Jobs :
                      jobs[i].step \in Working \cup {"done"} /\ Key(jobs[i].event) = key
<1>1. Held /\ Owned
  BY DEF ClaimsAreHeld, Events
<1> SUFFICES Held' /\ Owned' /\ ExclusiveJobs'
  BY DEF ClaimsAreHeld, Events
<1>2. \A i, j \in Jobs : i # j /\ jobs[i].step \in Working /\ jobs[j].step \in Working
        => Key(jobs[i].event) # Key(jobs[j].event)
  BY DEF ExclusiveJobs
<1>3. CASE Keeps
  <2>1. Held'
    BY <1>1, <1>3 DEF Keeps
  <2>2. Owned'
    BY <1>1, <1>3 DEF Keeps
  <2>3. ExclusiveJobs'
    BY <1>2, <1>3 DEF Keeps, ExclusiveJobs
  <2> QED BY <2>1, <2>2, <2>3
<1>4. CASE Restarts
  BY <1>4 DEF Restarts, ExclusiveJobs
<1>5. ASSUME NEW j \in Jobs, Begins(j) PROVE Held' /\ Owned' /\ ExclusiveJobs'
  <2>1. \A i \in Jobs \ {j} : jobs'[i] = jobs[i]
    BY <1>5 DEF Begins
  <2>2. /\ jobs'[j].step \in Working /\ jobs'[j].event = jobs[j].event
        /\ processed' = processed \cup {Key(jobs[j].event)}
        /\ Key(jobs[j].event) \notin processed /\ jobs[j].step \notin Working \cup {"done"}
    BY <1>5 DEF Begins, Taken, Working
  <2>3. Held'
    BY <1>1, <2>1, <2>2
  <2>4. Owned'
    BY <1>1, <1>5, <2>1, <2>2
  <2>5. ExclusiveJobs'
    BY <1>1, <1>2, <2>1, <2>2 DEF ExclusiveJobs
  <2> QED BY <2>3, <2>4, <2>5
<1>6. ASSUME NEW j \in Jobs, Fails(j) PROVE Held' /\ Owned' /\ ExclusiveJobs'
  <2>1. \A i \in Jobs \ {j} : jobs'[i] = jobs[i]
    BY <1>6 DEF Fails
  <2>2. /\ jobs'[j].step \notin Working /\ processed' = processed \ {Key(jobs[j].event)}
        /\ jobs[j].step \in Working
    BY <1>6 DEF Fails, Working
  <2>3. Held'
    BY <1>1, <1>2, <1>6, <2>1, <2>2
  <2>4. Owned'
    BY <1>1, <2>1, <2>2
  <2>5. ExclusiveJobs'
    BY <1>2, <2>1, <2>2 DEF ExclusiveJobs
  <2> QED BY <2>3, <2>4, <2>5
<1> QED BY <1>3, <1>4, <1>5, <1>6, ClaimSteps

-----------------------------------------------------------------------------
(* Videos and rows.  All steps but three write neither, and take no job    *)
(* past its upload, or to the link, that was not there.                    *)

Past == {"finding", "filing", "seeking", "linking", "saved", "done"}
Linking == {"seeking", "linking"}
Holding == {"downloading", "uploading"}

Quiet ==
  /\ UNCHANGED <<videos, recordings, links>>
  /\ \A i \in Jobs :
       /\ jobs'[i].step \in Past => jobs[i].step \in Past /\ jobs'[i].event = jobs[i].event
       /\ jobs'[i].step \in Linking => jobs[i].step \in Linking
       /\ jobs'[i].step \in Holding =>
            jobs'[i].keys # {} \/ (jobs[i].step \in Holding /\ jobs'[i].keys = jobs[i].keys)

LEMMA QuietIfMoves ==
  ASSUME TypeOK, NEW j \in Jobs, NEW step, NEW event, NEW keys, Moves(j, step, event, keys),
         UNCHANGED <<videos, recordings, links>>,
         step \in Past => jobs[j].step \in Past /\ event = jobs[j].event,
         step \in Linking => jobs[j].step \in Linking,
         step \in Holding => keys # {} \/ (jobs[j].step \in Holding /\ keys = jobs[j].keys)
  PROVE  Quiet
BY DEF Quiet, Moves

LEMMA DataSteps ==
  ASSUME TypeOK, [Next]_vars
  PROVE  Quiet \/ \E j \in Jobs : UploadFinalVideo(j) \/ FileRecording(j) \/ SaveLink(j)
<1> DEFINE Untouched == UNCHANGED <<videos, recordings, links>>
<1>1. ASSUME jobs' = jobs, Untouched PROVE Quiet
  BY <1>1 DEF Quiet
<1>2. ASSUME NEW j \in Jobs, Pop(j) PROVE Quiet
  <2>1. Untouched
    BY <1>2 DEF Pop
  <2> QED BY <1>2, <2>1, PopMoves, QuietIfMoves DEF Past, Linking, Holding
<1>3. ASSUME NEW j \in Jobs, Claim(j) PROVE Quiet
  <2>1. Untouched
    BY <1>3 DEF Claim
  <2> QED BY <1>3, <2>1, ClaimMoves, QuietIfMoves DEF Past, Linking, Holding
<1>4. ASSUME NEW j \in Jobs, GiveUp(j) PROVE Quiet
  <2>1. Untouched /\ Moves(j, "failed", jobs[j].event, jobs[j].keys)
    BY <1>4, JobGoes DEF GiveUp, Steps
  <2> QED BY <2>1, QuietIfMoves DEF Past, Linking, Holding
<1>5. ASSUME NEW j \in Jobs, List(j) PROVE Quiet
  <2>1. CASE GiveUp(j)
    BY <1>4, <2>1
  <2>2. CASE Reads /\ Moves(j, "listing", jobs[j].event, jobs[j].keys)
    BY <2>2, QuietIfMoves DEF Reads, Past, Linking, Holding
  <2>3. ASSUME Reads, NEW keys, keys # {}, Moves(j, "downloading", jobs[j].event, keys)
        PROVE  Quiet
    BY <2>3, QuietIfMoves DEF Reads, Past, Linking, Holding
  <2> QED BY <1>5, <2>1, <2>2, <2>3, ListMoves
<1>6. ASSUME NEW j \in Jobs, Download(j) PROVE Quiet
  <2>1. CASE GiveUp(j)
    BY <1>4, <2>1
  <2>2. CASE ~GiveUp(j)
    <3>1. Goes(j, "uploading") /\ Untouched /\ jobs[j].step = "downloading"
      BY <1>6, <2>2 DEF Download, At
    <3>2. Moves(j, "uploading", jobs[j].event, jobs[j].keys)
      BY <3>1, JobGoes DEF Steps, Working
    <3> QED BY <3>1, <3>2, QuietIfMoves DEF Past, Linking, Holding
  <2> QED BY <2>1, <2>2
<1>7. ASSUME NEW j \in Jobs, FindRecording(j) PROVE Quiet
  <2>1. PICK saw \in BOOLEAN : saw = (recordings[jobs[j].event.recording] # None)
    OBVIOUS
  <2>2. /\ jobs' = [jobs EXCEPT ![j].step = "filing", ![j].saw = saw]
        /\ jobs[j].step = "finding" /\ Untouched
    BY <1>7, <2>1 DEF FindRecording, At
  <2>3. Moves(j, "filing", jobs[j].event, jobs[j].keys)
    BY <2>2, SelectMoves DEF Steps, Working
  <2> QED BY <2>2, <2>3, QuietIfMoves DEF Past, Linking, Holding
<1>8. ASSUME NEW j \in Jobs, SeekLink(j) PROVE Quiet
  <2>1. PICK saw \in BOOLEAN : saw = (links[Folder(jobs[j].event)] # None)
    OBVIOUS
  <2>2. /\ jobs' = [jobs EXCEPT ![j].step = "linking", ![j].saw = saw]
        /\ jobs[j].step = "seeking" /\ Untouched
    BY <1>8, <2>1 DEF SeekLink, At
  <2>3. Moves(j, "linking", jobs[j].event, jobs[j].keys)
    BY <2>2, SelectMoves DEF Steps, Working
  <2> QED BY <2>2, <2>3, QuietIfMoves DEF Past, Linking, Holding
<1>9. ASSUME NEW j \in Jobs, Finish(j) PROVE Quiet
  <2>1. Untouched /\ jobs[j].step = "saved"
    BY <1>9 DEF Finish, At
  <2> QED BY <1>9, <2>1, FinishMoves, QuietIfMoves DEF Past, Linking, Holding
<1>10. ASSUME NEW j \in Jobs, NEW c \in ChunkNumbers, Sweep(j, c) PROVE Quiet
  <2>1. Untouched
    BY <1>10 DEF Sweep
  <2> QED BY <1>10, <2>1, SweepMoves, QuietIfMoves
<1>11. ASSUME NEW j \in Jobs, S3Fails(j) PROVE Quiet
  BY <1>4, <1>11 DEF S3Fails
<1>12. ASSUME NEW j \in Jobs, NoPod(j) \/ DBFails(j) PROVE Quiet
  <2>1. Untouched /\ jobs[j].step \in Past /\ Goes(j, "saved")
    BY <1>12 DEF NoPod, DBFails, At, Past
  <2>2. Moves(j, "saved", jobs[j].event, jobs[j].keys)
    BY <2>1, JobGoes DEF Steps, Working
  <2> QED BY <2>1, <2>2, QuietIfMoves DEF Past, Linking, Holding
<1>13. CASE Crash
  <2>1. Untouched
    BY <1>13 DEF Crash
  <2>2. \A i \in Jobs : /\ jobs'[i].step \in Past => jobs'[i].step = "done" /\ jobs[i].step = "done"
                        /\ jobs'[i].step \notin Linking \cup Holding
                        /\ jobs'[i].event = jobs[i].event
    BY <1>13, CrashMoves DEF Past, Linking, Holding, Working
  <2> QED BY <2>1, <2>2 DEF Quiet, Past
<1> QED
  BY <1>1, <1>2, <1>3, <1>5, <1>6, <1>7, <1>8, <1>9, <1>10, <1>11, <1>12, <1>13
  DEF Next, JobStep, Announce, ChunkUploaded, vars

LEMMA RowsStep ==
  ASSUME TypeOK, UploadedBeforeSaved, RowsPointToVideos, JobsKnow, [Next]_vars
  PROVE  UploadedBeforeSaved' /\ RowsPointToVideos' /\ JobsKnow'
<1> DEFINE Saved == \A i \in Jobs : jobs[i].step \in Past => videos[Output(jobs[i].event)] # {}
           Filings == \A r \in RecordingIDs : recordings[r] # None =>
                        videos[<<<<recordings[r][1], r>>, recordings[r][2]>>] # {}
           Links == \A f \in Folders : links[f] # None =>
                      videos[<<f, links[f]>>] # {} /\ recordings[f[2]] # None
           Knows == \A i \in Jobs :
                      /\ jobs[i].step \in Holding => jobs[i].keys # {}
                      /\ jobs[i].step \in Linking => recordings[jobs[i].event.recording] # None
<1>1. Saved /\ Filings /\ Links /\ Knows
  BY DEF UploadedBeforeSaved, Events, RowsPointToVideos, JobsKnow, Past, Linking, Holding
<1> SUFFICES Saved' /\ Filings' /\ Links' /\ Knows'
  BY DEF UploadedBeforeSaved, Events, RowsPointToVideos, JobsKnow, Past, Linking, Holding
<1>2. CASE Quiet
  <2>1. Saved' /\ Filings' /\ Links'
    BY <1>1, <1>2 DEF Quiet
  <2>2. \A i \in Jobs : jobs'[i].step \in Linking => jobs'[i].event = jobs[i].event
    BY <1>2 DEF Quiet, Linking, Past
  <2>3. Knows'
    BY <1>1, <1>2, <2>2 DEF Quiet
  <2> QED BY <2>1, <2>3
<1>3. ASSUME NEW j \in Jobs, UploadFinalVideo(j) PROVE Saved' /\ Filings' /\ Links' /\ Knows'
  <2>1. jobs[j].step = "uploading" /\ Goes(j, "finding") /\ recordings' = recordings /\ links' = links
    BY <1>3 DEF UploadFinalVideo, At
  <2>2. Moves(j, "finding", jobs[j].event, jobs[j].keys)
    BY <2>1, JobGoes DEF Steps, Working
  <2>3. jobs[j].keys # {} /\ Output(jobs[j].event) \in Outputs
    BY <1>1, <2>1, EventsAre DEF Holding
  <2>4. videos' = [videos EXCEPT ![Output(jobs[j].event)] = jobs[j].keys]
    BY <1>3 DEF UploadFinalVideo, Concatenated
  <2>5. videos'[Output(jobs[j].event)] # {} /\ \A o : videos[o] # {} => videos'[o] # {}
    BY <2>3, <2>4 DEF TypeOK
  <2>6. Saved'
    BY <1>1, <2>2, <2>5 DEF Moves
  <2>7. Filings' /\ Links'
    BY <1>1, <2>1, <2>5
  <2>8. Knows'
    BY <1>1, <2>1, <2>2 DEF Moves, Holding, Linking
  <2> QED BY <2>6, <2>7, <2>8
<1>4. ASSUME NEW j \in Jobs, FileRecording(j) PROVE Saved' /\ Filings' /\ Links' /\ Knows'
  <2> DEFINE e == jobs[j].event
             row == <<e.user, e.session>>
  <2>1. jobs[j].step = "filing" /\ videos' = videos /\ links' = links
    BY <1>4 DEF FileRecording, At
  <2>2. /\ e \in Event /\ row \in Users \X SessionIDs /\ e.recording \in RecordingIDs
        /\ videos[<<<<row[1], e.recording>>, row[2]>>] # {}
    BY <1>1, <2>1, EventsAre DEF Event, Past, Output, Folder
  <2>3. row # None
    BY <2>2, ProcessorNoneAssumption
  <2>4. CASE recordings' = [recordings EXCEPT ![e.recording] = row] /\ Goes(j, "seeking")
    <3> HIDE DEF row
    <3>1. Moves(j, "seeking", e, jobs[j].keys)
      BY <2>4, JobGoes DEF Steps, Working
    <3>2. /\ recordings'[e.recording] = row
          /\ \A r \in RecordingIDs \ {e.recording} : recordings'[r] = recordings[r]
      BY <2>2, <2>4 DEF TypeOK
    <3>3. Filings'
      BY <1>1, <2>1, <2>2, <3>2
    <3>4. Links'
      BY <1>1, <2>1, <2>3, <3>2 DEF Folders
    <3>5. Saved'
      BY <1>1, <2>1, <3>1 DEF Moves, Past
    <3>6. Knows'
      <4>1. \A i \in Jobs : jobs[i].step \in Linking => jobs[i].event.recording \in RecordingIDs
        BY EventsAre DEF Linking
      <4> QED BY <1>1, <2>3, <3>1, <3>2, <4>1 DEF Moves, Holding
    <3> QED BY <3>3, <3>4, <3>5, <3>6
  <2>5. CASE recordings' = recordings /\ Goes(j, "saved")
    <3>1. Moves(j, "saved", e, jobs[j].keys)
      BY <2>5, JobGoes DEF Steps, Working
    <3> QED BY <1>1, <2>1, <2>5, <3>1 DEF Moves, Past, Holding, Linking
  <2> QED BY <1>4, <2>4, <2>5 DEF FileRecording
<1>5. ASSUME NEW j \in Jobs, SaveLink(j) PROVE Saved' /\ Filings' /\ Links' /\ Knows'
  <2> DEFINE e == jobs[j].event
  <2>1. /\ jobs[j].step = "linking" /\ videos' = videos /\ recordings' = recordings
        /\ Goes(j, "saved")
    BY <1>5 DEF SaveLink, At
  <2>2. Moves(j, "saved", e, jobs[j].keys)
    BY <2>1, JobGoes DEF Steps, Working
  <2>3. /\ Folder(e) \in Folders /\ recordings[Folder(e)[2]] # None
        /\ videos[<<Folder(e), e.session>>] # {}
    BY <1>1, <2>1, EventsAre DEF Past, Linking, Output, Folder
  <2>4. links' \in {links, [links EXCEPT ![Folder(e)] = e.session]}
    BY <1>5 DEF SaveLink
  <2>5. Links'
    BY <1>1, <2>1, <2>3, <2>4 DEF TypeOK
  <2>6. Saved' /\ Filings' /\ Knows'
    BY <1>1, <2>1, <2>2 DEF Moves, Past, Holding, Linking
  <2> QED BY <2>5, <2>6
<1> QED BY <1>2, <1>3, <1>4, <1>5, DataSteps

-----------------------------------------------------------------------------
(* The theorems.                                                           *)

LEMMA ProcessorInvariantIs == Spec => [](TypeOK /\ ProcessorInvariant)
<1>1. Init => TypeOK /\ ProcessorInvariant
  <2> SUFFICES ASSUME Init PROVE TypeOK /\ ProcessorInvariant
    OBVIOUS
  <2>1. TypeOK
    <3>1. NoJob \in Job
      BY BoundsAssumption DEF NoJob, Job, Steps
    <3>2. NoJob.event = None /\ NoJob.step = "unused"
      BY DEF NoJob
    <3> QED BY <3>1, <3>2 DEF Init, TypeOK
  <2>2. \A j \in Jobs : jobs[j].step = "unused"
    BY DEF Init, NoJob
  <2>3. ClaimsAreHeld /\ ExclusiveJobs /\ UploadedBeforeSaved /\ JobsKnow
    BY <2>2 DEF Init, ClaimsAreHeld, ExclusiveJobs, UploadedBeforeSaved, JobsKnow, Events, Working
  <2>4. RowsPointToVideos
    BY DEF Init, RowsPointToVideos
  <2> QED BY <2>1, <2>3, <2>4 DEF ProcessorInvariant
<1>2. TypeOK /\ ProcessorInvariant /\ [Next]_vars => (TypeOK /\ ProcessorInvariant)'
  BY ProcessorTypeStep, ClaimsStep, RowsStep DEF ProcessorInvariant
<1> QED BY <1>1, <1>2, PTL DEF Spec

\* ProcessRecording's claims are exact, no two jobs at work share one, and
\* no row leads to a video that is not in S3, for any jobs, duplicates,
\* failures of S3 and of the database, restarts and deletions.
THEOREM ProcessorInvariantHolds == Spec => []ProcessorInvariant
BY ProcessorInvariantIs, PTL

\* processedRecordings excludes: two jobs at work have different sessions or
\* users, though claims are given up and forgotten.
THEOREM ExclusiveJobsHolds == Spec => []ExclusiveJobs
<1>1. ProcessorInvariant => ExclusiveJobs
  BY DEF ProcessorInvariant
<1> QED BY <1>1, ProcessorInvariantHolds, PTL
=============================================================================
