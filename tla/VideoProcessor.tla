--------------------------- MODULE VideoProcessor ---------------------------
(***************************************************************************)
(* The video processor: it pops recording_complete events from the Redis   *)
(* queue, and a goroutine for each lists the chunks of a user's recording  *)
(* in S3, downloads and concatenates them, uploads the video and saves two *)
(* rows: the recording, and the user's link to it.                         *)
(*                                                                         *)
(* A job holds the mutex only to claim its recording and to give it up, so *)
(* its steps interleave with those of other jobs, with clients that still  *)
(* upload chunks and with the goroutines that delete chunks.  GORM's       *)
(* FirstOrCreate is two statements, a SELECT and then an INSERT or UPDATE. *)
(* The tables are those of the embedded migrations: a recording id and a   *)
(* pair of user and recording are unique, a link refers to a recording.    *)
(*                                                                         *)
(* Left out: which pod the recording is filed under, and the bytes of a    *)
(* chunk, which is a number: 1 is the first of the folder.                 *)
(***************************************************************************)
EXTENDS Naturals, Sequences, FiniteSets

CONSTANTS
  Users,
  RecordingIDs,
  SessionIDs,
  Announcements,  \* the events the upload service may push
  Jobs,           \* goroutines; bounds the events of a behaviour
  MaxChunks,      \* bound: chunks of a folder
  MaxAttempts,    \* maxRetries of concatenateVideoChunks
  CleanupChunks,  \* whether CLEANUP_CHUNKS is "true"
  Podless,        \* users who may have no pod when a job looks for one
  Faults,         \* a subset of FaultKinds
  None

FaultKinds == {"s3", "db", "crash"}
ChunkNumbers == 1..MaxChunks
Event == [user : Users, session : SessionIDs, recording : RecordingIDs, total : ChunkNumbers]

ASSUME AnnouncementsAssumption == Announcements \subseteq Event
ASSUME BoundsAssumption == MaxChunks \in Nat /\ MaxAttempts \in Nat \ {0}
ASSUME JobsAssumption == IsFiniteSet(Jobs)
ASSUME SwitchAssumption == CleanupChunks \in BOOLEAN /\ Podless \subseteq Users
ASSUME ProcessorFaultsAssumption == Faults \subseteq FaultKinds
ASSUME ProcessorNoneAssumption ==
  None \notin Announcements \cup SessionIDs \cup (Users \X SessionIDs)

\* ChunkFolder names a recording and a user of it; OutputPath the session too.
Folders == Users \X RecordingIDs
Outputs == Folders \X SessionIDs

VARIABLES
  queue,      \* the Redis list "queue", oldest event first
  uploaded,   \* the chunks ever put in a folder
  stored,     \* those S3 has now
  videos,     \* the chunks in the video at an output path, {} for no video
  processed,  \* processedRecordings: pairs of session and user
  jobs,       \* the goroutines of ProcessRecording
  recordings, \* table recordings: the output path in s3_url
  links       \* table user_recording_links: the session in s3_url

vars == <<queue, uploaded, stored, videos, processed, jobs, recordings, links>>

Working == {"listing", "downloading", "uploading", "finding", "filing", "seeking", "linking", "saved"}
Steps == Working \cup {"unused", "popped", "done", "skipped", "failed", "lost"}

\* saw: whether the job's last SELECT found a row; sweeping: the keys its
\* CleanupChunks has still to delete.
Job == [step : Steps, event : Announcements \cup {None}, attempt : 0..MaxAttempts,
        keys : SUBSET ChunkNumbers, saw : BOOLEAN, sweeping : SUBSET ChunkNumbers]
NoJob == [step |-> "unused", event |-> None, attempt |-> 0, keys |-> {}, saw |-> FALSE,
          sweeping |-> {}]

TypeOK ==
  /\ queue \in Seq(Announcements)
  /\ uploaded \in [Folders -> SUBSET ChunkNumbers]
  /\ stored \in [Folders -> SUBSET ChunkNumbers]
  /\ videos \in [Outputs -> SUBSET ChunkNumbers]
  /\ processed \subseteq SessionIDs \X Users
  /\ jobs \in [Jobs -> Job]
  /\ \A j \in Jobs : jobs[j].event = None <=> jobs[j].step = "unused"
  /\ recordings \in [RecordingIDs -> (Users \X SessionIDs) \cup {None}]
  /\ links \in [Folders -> SessionIDs \cup {None}]

Init ==
  /\ queue = <<>>
  /\ uploaded = [f \in Folders |-> {}]
  /\ stored = [f \in Folders |-> {}]
  /\ videos = [o \in Outputs |-> {}]
  /\ processed = {}
  /\ jobs = [j \in Jobs |-> NoJob]
  /\ recordings = [r \in RecordingIDs |-> None]
  /\ links = [f \in Folders |-> None]

Folder(e) == <<e.user, e.recording>>
Output(e) == <<Folder(e), e.session>>
Key(e) == <<e.session, e.user>>
At(j, step) == jobs[j].step = step
Goes(j, step) == jobs' = [jobs EXCEPT ![j].step = step]

-----------------------------------------------------------------------------
(* Outside: the upload service pushes events, clients put chunks in S3.    *)

Unused == {j \in Jobs : At(j, "unused")}

Announce(e) ==
  /\ Len(queue) < Cardinality(Unused)
  /\ queue' = Append(queue, e)
  /\ UNCHANGED <<uploaded, stored, videos, processed, jobs, recordings, links>>

ChunkUploaded(f, c) ==
  /\ c \notin uploaded[f]
  /\ uploaded' = [uploaded EXCEPT ![f] = @ \cup {c}]
  /\ stored' = [stored EXCEPT ![f] = @ \cup {c}]
  /\ UNCHANGED <<queue, videos, processed, jobs, recordings, links>>

-----------------------------------------------------------------------------
(* listenForRecordingEvents: BRPOP removes the event before it is handled. *)

Pop(j) ==
  /\ queue # <<>>
  /\ At(j, "unused")
  /\ queue' = Tail(queue)
  /\ jobs' = [jobs EXCEPT ![j].step = "popped", ![j].event = Head(queue)]
  /\ UNCHANGED <<uploaded, stored, videos, processed, recordings, links>>

-----------------------------------------------------------------------------
(* ProcessRecording                                                        *)

\* Mutant: a claim is made whether or not it was made before.
NeverTaken(e) == FALSE

Taken(e) == Key(e) \in processed

Claim(j) ==
  /\ At(j, "popped")
  /\ \/ /\ Taken(jobs[j].event)
        /\ Goes(j, "skipped")
        /\ UNCHANGED processed
     \/ /\ ~Taken(jobs[j].event)
        /\ processed' = processed \cup {Key(jobs[j].event)}
        /\ jobs' = [jobs EXCEPT ![j].step = "listing", ![j].attempt = 1]
  /\ UNCHANGED <<queue, uploaded, stored, videos, recordings, links>>

\* Mutant: a failed job keeps its claim.
StillClaimed(e) == processed

Released(e) == processed \ {Key(e)}

\* The job fails: the recording may be claimed again.
GiveUp(j) ==
  /\ processed' = Released(jobs[j].event)
  /\ Goes(j, "failed")
  /\ UNCHANGED <<queue, uploaded, stored, videos, recordings, links>>

-----------------------------------------------------------------------------
(* concatenateVideoChunks                                                  *)

\* Mutants: attempts are not limited; the count stops before the limit.
NeverLast(j) == FALSE
CountStops(j) == [jobs EXCEPT ![j].attempt = MaxAttempts - 1]

Last(j) == jobs[j].attempt = MaxAttempts
NextAttempt(j) == [jobs EXCEPT ![j].attempt = @ + 1]

\* With all chunks listed, or at the last attempt with any, the job goes on.
List(j) ==
  LET found == stored[Folder(jobs[j].event)]
      complete == Cardinality(found) = jobs[j].event.total
  IN  /\ At(j, "listing")
      /\ \/ /\ found # {} /\ (complete \/ Last(j))
            /\ jobs' = [jobs EXCEPT ![j].step = "downloading", ![j].keys = found]
            /\ UNCHANGED <<queue, uploaded, stored, videos, processed, recordings, links>>
         \/ /\ ~Last(j) /\ ~complete
            /\ jobs' = NextAttempt(j)
            /\ UNCHANGED <<queue, uploaded, stored, videos, processed, recordings, links>>
         \/ /\ found = {} /\ Last(j)
            /\ GiveUp(j)

\* Every listed chunk is downloaded, or one cannot be in three attempts.
Download(j) ==
  /\ At(j, "downloading")
  /\ \/ /\ jobs[j].keys \subseteq stored[Folder(jobs[j].event)]
        /\ Goes(j, "uploading")
        /\ UNCHANGED <<queue, uploaded, stored, videos, processed, recordings, links>>
     \/ /\ ~(jobs[j].keys \subseteq stored[Folder(jobs[j].event)])
        /\ GiveUp(j)

\* Mutant: the upload is taken for done and is not.
Unwritten(j) == videos

Concatenated(j) == [videos EXCEPT ![Output(jobs[j].event)] = jobs[j].keys]

UploadFinalVideo(j) ==
  /\ At(j, "uploading")
  /\ videos' = Concatenated(j)
  /\ Goes(j, "finding")
  /\ UNCHANGED <<queue, uploaded, stored, processed, recordings, links>>

S3Fails(j) ==
  /\ "s3" \in Faults
  /\ jobs[j].step \in {"listing", "downloading", "uploading"}
  /\ GiveUp(j)

-----------------------------------------------------------------------------
(* saveRecordingToDB.  An error is logged and the job counts as done.      *)

FindRecording(j) ==
  /\ At(j, "finding")
  /\ jobs' = [jobs EXCEPT ![j].step = "filing",
                          ![j].saw = recordings[jobs[j].event.recording] # None]
  /\ UNCHANGED <<queue, uploaded, stored, videos, processed, recordings, links>>

\* A recording without a row is filed under a pod of its user; without one it
\* is not filed, and nor is the user linked to it.
NoPod(j) ==
  /\ At(j, "finding")
  /\ recordings[jobs[j].event.recording] = None
  /\ jobs[j].event.user \in Podless
  /\ Goes(j, "saved")
  /\ UNCHANGED <<queue, uploaded, stored, videos, processed, recordings, links>>

\* Mutant: a row the SELECT did not find is not made.
OnlyUpdated(j) == jobs[j].saw

\* An INSERT is refused when another job made the row since the SELECT.
Filed(j) == jobs[j].saw \/ recordings[jobs[j].event.recording] = None

FileRecording(j) ==
  LET e == jobs[j].event
  IN  /\ At(j, "filing")
      /\ IF Filed(j)
         THEN /\ recordings' = [recordings EXCEPT ![e.recording] = <<e.user, e.session>>]
              /\ Goes(j, "seeking")
         ELSE /\ Goes(j, "saved")
              /\ UNCHANGED recordings
      /\ UNCHANGED <<queue, uploaded, stored, videos, processed, links>>

SeekLink(j) ==
  /\ At(j, "seeking")
  /\ jobs' = [jobs EXCEPT ![j].step = "linking",
                          ![j].saw = links[Folder(jobs[j].event)] # None]
  /\ UNCHANGED <<queue, uploaded, stored, videos, processed, recordings, links>>

SaveLink(j) ==
  LET f == Folder(jobs[j].event)
  IN  /\ At(j, "linking")
      /\ Goes(j, "saved")
      /\ links' = IF jobs[j].saw \/ links[f] = None
                  THEN [links EXCEPT ![f] = jobs[j].event.session]
                  ELSE links
      /\ UNCHANGED <<queue, uploaded, stored, videos, processed, recordings>>

\* The database is away.
DBFails(j) ==
  /\ "db" \in Faults
  /\ jobs[j].step \in {"finding", "filing", "seeking", "linking"}
  /\ Goes(j, "saved")
  /\ UNCHANGED <<queue, uploaded, stored, videos, processed, recordings, links>>

-----------------------------------------------------------------------------
(* The end of a job: it may start a goroutine that deletes the chunks.     *)

\* Mutant: whatever is in the folder is deleted.
WholeFolder(j) == stored[Folder(jobs[j].event)]

Swept(j) == jobs[j].keys

Finish(j) ==
  /\ At(j, "saved")
  /\ jobs' = [jobs EXCEPT ![j].step = "done",
                          ![j].sweeping = IF CleanupChunks THEN Swept(j) ELSE {}]
  /\ UNCHANGED <<queue, uploaded, stored, videos, processed, recordings, links>>

\* A refused deletion is logged and skipped.
Sweep(j, c) ==
  /\ c \in jobs[j].sweeping
  /\ jobs' = [jobs EXCEPT ![j].sweeping = @ \ {c}]
  /\ LET f == Folder(jobs[j].event)
         less == [stored EXCEPT ![f] = @ \ {c}]
     IN  stored' \in IF "s3" \in Faults THEN {stored, less} ELSE {less}
  /\ UNCHANGED <<queue, uploaded, videos, processed, recordings, links>>

\* The service restarts: its map is empty, its goroutines are gone.
Crash ==
  /\ "crash" \in Faults
  /\ processed' = {}
  /\ jobs' = [j \in Jobs |-> [jobs[j] EXCEPT !.sweeping = {},
                !.step = IF @ \in Working \cup {"popped"} THEN "lost" ELSE @]]
  /\ UNCHANGED <<queue, uploaded, stored, videos, recordings, links>>

-----------------------------------------------------------------------------

JobStep(j) ==
  \/ Claim(j) \/ List(j) \/ Download(j) \/ UploadFinalVideo(j)
  \/ FindRecording(j) \/ NoPod(j) \/ FileRecording(j) \/ SeekLink(j) \/ SaveLink(j)
  \/ Finish(j) \/ \E c \in ChunkNumbers : Sweep(j, c)

Next ==
  \/ \E e \in Announcements : Announce(e)
  \/ \E f \in Folders, c \in ChunkNumbers : ChunkUploaded(f, c)
  \/ \E j \in Jobs : Pop(j) \/ JobStep(j) \/ S3Fails(j) \/ DBFails(j)
  \/ Crash

Spec == Init /\ [][Next]_vars

\* The loop keeps popping and every goroutine keeps running; nothing is
\* assumed of the clients, the upload service or the stores.
Fairness == WF_vars(\E j \in Jobs : Pop(j)) /\ \A j \in Jobs : WF_vars(JobStep(j))

FairSpec == Spec /\ Fairness

-----------------------------------------------------------------------------
(* Properties                                                              *)

Events(steps) == {jobs[j].event : j \in {i \in Jobs : jobs[i].step \in steps}}

\* A job at work holds the claim on its recording, and a claim is held by a
\* job at work or one that ended well: a failure never leaves a recording
\* marked as processed that nobody processed.
ClaimsAreHeld ==
  /\ \A e \in Events(Working) : Key(e) \in processed
  /\ \A key \in processed : \E e \in Events(Working \cup {"done"}) : Key(e) = key

\* No two jobs at work have the same session and user, whatever is announced
\* twice, fails, is given up and claimed again, or restarts.
ExclusiveJobs ==
  \A i, j \in Jobs :
    i # j /\ jobs[i].step \in Working /\ jobs[j].step \in Working
    => Key(jobs[i].event) # Key(jobs[j].event)

\* A job past its upload has its video in S3.
UploadedBeforeSaved ==
  \A e \in Events({"finding", "filing", "seeking", "linking", "saved", "done"}) :
    videos[Output(e)] # {}

\* Every row leads to a video that S3 has, and a user's link to a recording
\* that is filed, whoever of its users filed it and whatever fails between
\* the upload and the two rows.
RowsPointToVideos ==
  /\ \A r \in RecordingIDs : recordings[r] # None =>
       videos[<<<<recordings[r][1], r>>, recordings[r][2]>>] # {}
  /\ \A f \in Folders : links[f] # None =>
       videos[<<f, links[f]>>] # {} /\ recordings[f[2]] # None

\* A job that listed chunks has some, and one that filed its recording, or
\* found it filed, can link to it: what the two above rest on.
JobsKnow ==
  \A j \in Jobs :
    /\ jobs[j].step \in {"downloading", "uploading"} => jobs[j].keys # {}
    /\ jobs[j].step \in {"seeking", "linking"} => recordings[jobs[j].event.recording] # None

\* What the proofs show inductive, beside the types.
ProcessorInvariant ==
  /\ ClaimsAreHeld /\ ExclusiveJobs
  /\ UploadedBeforeSaved /\ RowsPointToVideos /\ JobsKnow

\* A chunk that was deleted from S3 is in a video of its folder: a late chunk
\* is never deleted unseen, and two jobs of one folder, under two sessions,
\* do not delete what neither had.  (While the service does not restart: a
\* job started again over half-deleted chunks overwrites the whole video.)
SweptIsSaved ==
  \A f \in Folders : uploaded[f] \ stored[f] \subseteq UNION {videos[<<f, s>>] : s \in SessionIDs}

\* A recording whose job is done is filed, if its user has a pod, though the
\* job that filed it may be another user's that won the INSERT.  (While the
\* database is there.  A user without a pod has a video that no row leads to
\* unless somebody else in the recording has a pod.)
DoneIsFiled ==
  \A e \in Events({"done"}) : e.user \notin Podless => recordings[e.recording] # None

\* With one user in a recording, a job that is done has left the user, who has
\* a pod, a link, or lost the INSERT to a job of the same folder, under another
\* session, that is about to.  (With two users it may have lost it to the
\* other's job, and then nobody makes the link.)
DoneIsLinked ==
  \A e \in Events({"done"}) : e.user \notin Podless =>
    \/ links[Folder(e)] # None
    \/ \E d \in Events({"seeking", "linking"}) : Folder(d) = Folder(e)

\* Every event is popped, every job comes to an end, and every goroutine that
\* deletes chunks does.
JobsEnd ==
  /\ queue # <<>> ~> queue = <<>>
  /\ \A j \in Jobs :
       /\ jobs[j].step \in Working \cup {"popped"} ~> jobs[j].step \in {"done", "skipped", "failed", "lost"}
       /\ jobs[j].sweeping # {} ~> jobs[j].sweeping = {}
=============================================================================
