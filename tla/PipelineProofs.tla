--------------------------- MODULE PipelineProofs ---------------------------
(***************************************************************************)
(* What of the parts holds of the whole: a behaviour of Pipeline is one of *)
(* the upload service and one of the video processor, so their theorems    *)
(* are its own; and what only the whole can say: a video as long as was    *)
(* announced is all the user cut, in order, and the parts keep together    *)
(* what Delivery promises.                                                 *)
(***************************************************************************)
EXTENDS Pipeline, FiniteSetTheorems, SequenceTheorems, TLAPS

U == INSTANCE UploadSessionProofs
       WITH queue <- announced, AskedIndexes <- {0}, Habits <- {}, Faults <- UploadFaults

V == INSTANCE VideoProcessorEndProofs
       WITH recordings <- rows, SessionIDs <- Upload!SessionIDs, MaxChunks <- MaxURLs,
            Announcements <- [user : Users, session : Upload!SessionIDs,
                              recording : RecordingIDs, total : 1..MaxURLs],
            Faults <- ProcessorFaults

-----------------------------------------------------------------------------
(* The upload service.                                                     *)

\* The instance with the theorems is that of Pipeline.
LEMMA UploadStepIs == ASSUME Upload!Next PROVE U!Next
<1>1. ASSUME NEW r \in RecordingIDs, Upload!RecordingStarts(r) \/ Upload!RecordingEnds(r) \/ Upload!GraceEnds(r)
      PROVE  U!RecordingStarts(r) \/ U!RecordingEnds(r) \/ U!GraceEnds(r)
  BY <1>1 DEF Upload!RecordingStarts, Upload!RecordingEnds, Upload!GraceEnds, Upload!Turn,
              U!RecordingStarts, U!RecordingEnds, U!GraceEnds, U!Turn
<1>2. Upload!NoRequest = U!NoRequest /\ Upload!NoSession = U!NoSession /\ Upload!Keys = U!Keys
  BY DEF Upload!NoRequest, U!NoRequest, Upload!NoSession, U!NoSession, Upload!Keys, U!Keys
<1>3. \A u, r : Upload!KeyOf(u, r) = U!KeyOf(u, r)
  BY DEF Upload!KeyOf, U!KeyOf
<1>4. ASSUME NEW q \in Requests, NEW u \in Users, NEW r \in RecordingIDs, NEW final \in BOOLEAN,
             NEW asked \in {0}, Upload!Permit(q, u, r, final, asked)
      PROVE  U!Permit(q, u, r, final, asked)
  <2>0. ASSUME NEW S PROVE Upload!Cardinality(S) = U!Cardinality(S)
    BY DEF Upload!Cardinality, U!Cardinality, Upload!IsFiniteSet, U!IsFiniteSet
  <2>1. Upload!ClientAsks(u, r) <=> U!ClientAsks(u, r)
    BY <1>3, <2>0 DEF Upload!ClientAsks, U!ClientAsks, Upload!Asking, U!Asking, Upload!HasFinal, U!HasFinal
  <2>2. Upload!IsRecordingValid(r, final) <=> U!IsRecordingValid(r, final)
    BY DEF Upload!IsRecordingValid, U!IsRecordingValid
  <2> QED BY <1>4, <2>1, <2>2 DEF Upload!Permit, U!Permit
<1>5. ASSUME NEW q \in Requests, Upload!ReadIndex(q) PROVE U!ReadIndex(q)
  BY <1>3, <1>5 DEF Upload!ReadIndex, U!ReadIndex, Upload!ActualIndex, U!ActualIndex
<1>6. ASSUME NEW q \in Requests, Upload!PresignFails(q) PROVE U!PresignFails(q)
  BY <1>2, <1>6 DEF Upload!PresignFails, U!PresignFails
<1>7. ASSUME NEW q \in Requests, Upload!TrackChunk(q) PROVE U!TrackChunk(q)
  <2>1. \A s, r : Upload!Opened(s, r) = U!Opened(s, r)
    BY DEF Upload!Opened, U!Opened
  <2>2. \A s, final : Upload!Rejects(s, final) <=> U!Rejects(s, final)
    BY DEF Upload!Rejects, U!Rejects
  <2>3. \A s, chunk : Upload!Tracked(s, chunk) = U!Tracked(s, chunk)
    BY DEF Upload!Tracked, U!Tracked
  <2>4. \A u, s : Upload!NotifyRecordingComplete(u, s) <=> U!NotifyRecordingComplete(u, s)
    BY DEF Upload!NotifyRecordingComplete, U!NotifyRecordingComplete, Upload!EventOf, U!EventOf
  <2> QED BY <1>2, <1>3, <1>7, <2>1, <2>2, <2>3, <2>4 DEF Upload!TrackChunk, U!TrackChunk
<1>8. ASSUME NEW u \in Users, NEW p \in Podcasts, NEW id \in UploadIDs, Upload!StartUploadSession(u, p, id)
      PROVE  U!StartUploadSession(u, p, id)
  BY <1>8 DEF Upload!StartUploadSession, U!StartUploadSession
<1>9. ASSUME NEW k \in U!Keys, Upload!RevokeSession(k) \/ Upload!MonitorGracePeriod(k) \/ Upload!CleanUp(k)
      PROVE  U!RevokeSession(k) \/ U!MonitorGracePeriod(k) \/ U!CleanUp(k)
  BY <1>2, <1>9 DEF Upload!RevokeSession, Upload!MonitorGracePeriod, Upload!CleanUp, Upload!Ends, Upload!Arranged, Upload!Without,
                    U!RevokeSession, U!MonitorGracePeriod, U!CleanUp, U!Ends, U!Arranged, U!Without
<1>10. ASSUME Upload!Crash PROVE U!Crash
  BY <1>2, <1>10 DEF Upload!Crash, U!Crash
<1>11. ASSUME NEW q \in Requests, Upload!Answer(q) PROVE U!Answer(q)
  BY <1>2, <1>11 DEF Upload!Answer, U!Answer
<1> QED BY <1>1, <1>2, <1>4, <1>5, <1>6, <1>7, <1>8, <1>9, <1>10, <1>11 DEF Upload!Next, U!Next

\* Nothing the clients or the processor do disturbs the upload service.
THEOREM PipelineUploads == Spec => U!Spec
<1>1. Init => U!Init
  BY DEF Init, Upload!Init, U!Init, Upload!NoRequest, U!NoRequest, Upload!NoSession, U!NoSession,
         Upload!Keys, U!Keys
<1>2. Upload!Next => U!Next
  BY UploadStepIs
<1>3. [Next]_vars => [U!Next]_(U!vars)
  BY <1>2 DEF Next, UploadStep, ChunkUploaded, ProcessorStep, vars, uploadVars, U!vars
<1> QED BY <1>1, <1>3, PTL DEF Spec, U!Spec

\* The assumptions of UploadSession, of Pipeline's constants.
LEMMA UploadAssumptions ==
  /\ PodcastOf \in [RecordingIDs -> Podcasts] /\ RecordingIDs \cap UploadIDs = {}
  /\ MaxURLs \in Nat
  /\ {} \subseteq U!HabitKinds /\ UploadFaults \subseteq U!FaultKinds
  /\ {0} \subseteq Nat
  /\ None \notin Users \cup RecordingIDs \cup UploadIDs
BY PipelineAssumption DEF Upload!FaultKinds, U!FaultKinds, Upload!SessionIDs

\* In the pipeline every event counts all the chunks its user has cut of the
\* recording, and they are numbered 0, 1, 2, ..., whatever the processor does
\* and however late its jobs run, unless the upload service restarts.
THEOREM PipelineAnnounces == "crash" \notin UploadFaults => (Spec => []AnnouncesWhole)
<1>1. U!AnnouncesWhole <=> AnnouncesWhole
  BY DEF AnnouncesWhole, Upload!AnnouncesWhole, U!AnnouncesWhole, Upload!ChunksCut, U!ChunksCut,
         Upload!Asking, U!Asking
<1>2. U!Orderly
  BY DEF U!Orderly
<1>3. U!Orderly /\ "crash" \notin UploadFaults => (U!Spec => []U!AnnouncesWhole)
  BY U!AnnouncesWholeHolds, UploadAssumptions
<1> QED BY <1>1, <1>2, <1>3, PipelineUploads, PTL

-----------------------------------------------------------------------------
(* The video processor.                                                    *)

\* The instance with the theorems is that of Pipeline.
LEMMA ProcessorStepIs ==
  ASSUME NEW j \in Jobs,
         Processor!Pop(j) \/ Processor!JobStep(j) \/ Processor!S3Fails(j) \/ Processor!DBFails(j)
  PROVE  V!Pop(j) \/ V!JobStep(j) \/ V!S3Fails(j) \/ V!DBFails(j)
<1>0. ASSUME NEW S PROVE Processor!Cardinality(S) = V!Cardinality(S)
  BY DEF Processor!Cardinality, V!Cardinality, Processor!IsFiniteSet, V!IsFiniteSet
<1>1. /\ \A e : Processor!Folder(e) = V!Folder(e) /\ Processor!Key(e) = V!Key(e)
      /\ \A e : Processor!Output(e) = V!Output(e)
      /\ \A step : Processor!At(j, step) <=> V!At(j, step)
      /\ \A step : Processor!Goes(j, step) <=> V!Goes(j, step)
  BY DEF Processor!Folder, V!Folder, Processor!Key, V!Key, Processor!Output, V!Output,
         Processor!At, V!At, Processor!Goes, V!Goes
<1>2. Processor!GiveUp(j) <=> V!GiveUp(j)
  BY <1>1 DEF Processor!GiveUp, V!GiveUp, Processor!Released, V!Released
<1>3. Processor!Pop(j) => V!Pop(j)
  BY <1>1 DEF Processor!Pop, V!Pop
<1>4. Processor!S3Fails(j) => V!S3Fails(j)
  BY <1>2 DEF Processor!S3Fails, V!S3Fails
<1>5. Processor!DBFails(j) => V!DBFails(j)
  BY <1>1 DEF Processor!DBFails, V!DBFails
<1>6. Processor!Claim(j) => V!Claim(j)
  BY <1>1 DEF Processor!Claim, V!Claim, Processor!Taken, V!Taken
<1>7. Processor!List(j) => V!List(j)
  BY <1>0, <1>1, <1>2 DEF Processor!List, V!List, Processor!Last, V!Last, Processor!NextAttempt, V!NextAttempt
<1>8. Processor!Download(j) => V!Download(j)
  BY <1>1, <1>2 DEF Processor!Download, V!Download
<1>9. Processor!UploadFinalVideo(j) => V!UploadFinalVideo(j)
  BY <1>1 DEF Processor!UploadFinalVideo, V!UploadFinalVideo, Processor!Concatenated, V!Concatenated
<1>10. /\ Processor!FindRecording(j) => V!FindRecording(j)
       /\ Processor!NoPod(j) => V!NoPod(j)
       /\ Processor!FileRecording(j) => V!FileRecording(j)
  BY <1>1 DEF Processor!FindRecording, V!FindRecording, Processor!NoPod, V!NoPod,
              Processor!FileRecording, V!FileRecording, Processor!Filed, V!Filed
<1>11. /\ Processor!SeekLink(j) => V!SeekLink(j)
       /\ Processor!SaveLink(j) => V!SaveLink(j)
  BY <1>1 DEF Processor!SeekLink, V!SeekLink, Processor!SaveLink, V!SaveLink
<1>12. Processor!Finish(j) => V!Finish(j)
  BY <1>1 DEF Processor!Finish, V!Finish, Processor!Swept, V!Swept
<1>13. ASSUME NEW c \in Processor!ChunkNumbers, Processor!Sweep(j, c)
       PROVE  c \in V!ChunkNumbers /\ V!Sweep(j, c)
  BY <1>1, <1>13 DEF Processor!ChunkNumbers, V!ChunkNumbers, Processor!Sweep, V!Sweep
<1> QED BY <1>3, <1>4, <1>5, <1>6, <1>7, <1>8, <1>9, <1>10, <1>11, <1>12, <1>13
        DEF Processor!JobStep, V!JobStep

\* The assumptions of VideoProcessor, of Pipeline's constants.
LEMMA ProcessorAssumptions ==
  LET events == [user : Users, session : Upload!SessionIDs, recording : RecordingIDs, total : 1..MaxURLs]
  IN  /\ events \subseteq V!Event
      /\ MaxURLs \in Nat /\ MaxAttempts \in Nat \ {0} /\ V!IsFiniteSet(Jobs)
      /\ CleanupChunks \in BOOLEAN /\ ProcessorFaults \subseteq V!FaultKinds
      /\ Podless \subseteq Users
      /\ None \notin events \cup Upload!SessionIDs \cup (Users \X Upload!SessionIDs)
BY PipelineAssumption DEF Processor!FaultKinds, V!FaultKinds, Processor!Event, V!Event,
   Processor!ChunkNumbers, V!ChunkNumbers, IsFiniteSet, V!IsFiniteSet

\* The processor sees only events that VideoProcessor knows of: a count from 1
\* to the bound, for a user and a recording there is.
THEOREM PipelineProcesses == Spec => V!Spec
<1> DEFINE Known == \A n \in announced :
             n \in [user : Users, session : Upload!SessionIDs, recording : RecordingIDs, total : 1..MaxURLs]
<1>1. Init => V!Init
  BY DEF Init, Processor!Init, V!Init, Processor!Folders, V!Folders, Processor!Outputs, V!Outputs,
         Processor!NoJob, V!NoJob
<1>2. Known' /\ [Next]_vars => [V!Next]_(V!vars)
  <2> SUFFICES ASSUME Known', [Next]_vars PROVE V!Next \/ UNCHANGED V!vars
    OBVIOUS
  <2>1. CASE UploadStep
    <3>1. CASE announced' = announced
      BY <2>1, <3>1 DEF UploadStep, processorVars, V!vars
    <3>2. ASSUME NEW n \in announced' \ announced, Processor!Announce(n)
          PROVE  V!Announce(n)
      <4>1. \A S : Processor!Cardinality(S) = V!Cardinality(S)
        BY DEF Processor!Cardinality, V!Cardinality, Processor!IsFiniteSet, V!IsFiniteSet
      <4>2. Processor!Unused = V!Unused
        BY DEF Processor!Unused, V!Unused, Processor!At, V!At
      <4> QED BY <3>2, <4>1, <4>2 DEF Processor!Announce, V!Announce
    <3> QED BY <2>1, <3>1, <3>2 DEF UploadStep, V!Next
  <2>2. ASSUME NEW f \in Processor!Folders, NEW c \in 1..MaxURLs, ChunkUploaded(f, c)
        PROVE  V!Next
    BY <2>2 DEF ChunkUploaded, Processor!ChunkUploaded, V!ChunkUploaded, V!Next,
                Processor!Folders, V!Folders, V!ChunkNumbers
  <2>3. CASE ProcessorStep
    <3>1. Processor!Crash => V!Crash
      BY DEF Processor!Crash, V!Crash, Processor!Working, V!Working
    <3> QED BY <2>3, <3>1, ProcessorStepIs DEF ProcessorStep, V!Next
  <2>4. CASE UNCHANGED vars
    BY <2>4 DEF vars, processorVars, V!vars
  <2> QED BY <2>1, <2>2, <2>3, <2>4 DEF Next
<1>3. Spec => []Known
  <2>1. U!Orderly
    BY DEF U!Orderly
  <2>2. U!Orderly => (U!Spec => []U!CountsNoMore)
    BY U!CountsNoMoreHolds, UploadAssumptions
  <2>3. U!Spec => []U!TypeOK
    BY U!UploadTypeInvariant, UploadAssumptions
  <2>4. U!TypeOK /\ U!CountsNoMore => Known
    <3> SUFFICES ASSUME U!TypeOK, U!CountsNoMore, NEW n \in announced
                 PROVE  n \in [user : Users, session : Upload!SessionIDs,
                               recording : RecordingIDs, total : 1..MaxURLs]
      OBVIOUS
    <3>1. n \in [user : Users, session : Upload!SessionIDs, recording : RecordingIDs, total : Nat]
      BY DEF U!TypeOK, U!Event, U!SessionIDs, Upload!SessionIDs
    <3>2. n.total \geq 1 /\ n.total <= MaxURLs
      <4>1. handed[<<n.user, n.recording>>] \in Seq([index : Nat, final : BOOLEAN])
        BY <3>1 DEF U!TypeOK
      <4>2. Len(handed[<<n.user, n.recording>>]) \in Nat
        BY <4>1, LenProperties
      <4> QED BY <3>1, <4>2 DEF U!CountsNoMore
    <3>3. n.total \in 1..MaxURLs
      BY <3>1, <3>2, PipelineAssumption
    <3> QED BY <3>1, <3>3
  <2> QED BY <2>1, <2>2, <2>3, <2>4, PipelineUploads, PTL
<1> QED BY <1>1, <1>2, <1>3, PTL DEF Spec, V!Spec

-----------------------------------------------------------------------------
(* The video: what only the two together can say.                          *)

\* Only chunks that have a URL are put in S3.
PutWereHanded == \A f \in Users \X RecordingIDs : uploaded[f] \subseteq DOMAIN handed[f]

\* A URL once handed out remains so.
LEMMA HandedGrows ==
  ASSUME U!TypeOK, U!Next
  PROVE  \A f \in Users \X RecordingIDs : DOMAIN handed[f] \subseteq DOMAIN handed'[f]
<1>1. CASE handed' = handed
  BY <1>1
<1>2. ASSUME NEW q \in Requests, U!Answer(q)
      PROVE  \A f \in Users \X RecordingIDs : DOMAIN handed[f] \subseteq DOMAIN handed'[f]
  <2> DEFINE given == [index |-> requests[q].index, final |-> requests[q].final]
             g == <<requests[q].user, requests[q].recording>>
  <2>1. handed' = [handed EXCEPT ![g] = Append(@, given)]
    BY <1>2 DEF U!Answer
  <2>2. handed \in [Users \X RecordingIDs -> Seq([index : Nat, final : BOOLEAN])]
    BY DEF U!TypeOK
  <2> HIDE DEF given, g
  <2>3. ASSUME NEW f \in Users \X RecordingIDs PROVE DOMAIN handed[f] \subseteq DOMAIN handed'[f]
    <3>1. handed[f] \in Seq([index : Nat, final : BOOLEAN])
      BY <2>2
    <3>2. handed'[f] = handed[f] \/ handed'[f] = Append(handed[f], given)
      BY <2>1, <2>2
    <3> QED BY <3>1, <3>2
  <2> QED BY <2>3
<1> QED
  BY <1>1, <1>2
  DEF U!Next, U!RecordingStarts, U!RecordingEnds, U!GraceEnds, U!Turn, U!Permit, U!ReadIndex,
      U!PresignFails, U!TrackChunk, U!StartUploadSession, U!RevokeSession, U!MonitorGracePeriod,
      U!CleanUp, U!Crash

\* A processor's step, other than a client's, puts no chunk.
LEMMA PutByClients ==
  ASSUME Processor!Crash \/ \E j \in Jobs : \/ Processor!Pop(j) \/ Processor!JobStep(j)
                                            \/ Processor!S3Fails(j) \/ Processor!DBFails(j)
  PROVE  uploaded' = uploaded
BY DEF Processor!Crash, Processor!Pop, Processor!JobStep, Processor!S3Fails, Processor!DBFails,
       Processor!Claim, Processor!List, Processor!GiveUp, Processor!Download,
       Processor!UploadFinalVideo, Processor!FindRecording, Processor!NoPod, Processor!FileRecording,
       Processor!SeekLink, Processor!SaveLink, Processor!Finish, Processor!Sweep

LEMMA PutWereHandedHolds == Spec => [](U!TypeOK /\ PutWereHanded)
<1>1. Init => PutWereHanded
  BY DEF Init, Processor!Init, Processor!Folders, PutWereHanded
<1>2. U!TypeOK /\ PutWereHanded /\ [Next]_vars => PutWereHanded'
  <2> SUFFICES ASSUME U!TypeOK, PutWereHanded, [Next]_vars PROVE PutWereHanded'
    OBVIOUS
  <2>1. CASE UploadStep
    <3>1. uploaded' = uploaded
      BY <2>1 DEF UploadStep, processorVars, Processor!Announce
    <3> QED BY <2>1, <3>1, UploadStepIs, HandedGrows DEF UploadStep, PutWereHanded
  <2>2. ASSUME NEW f \in Processor!Folders, NEW c \in 1..MaxURLs, ChunkUploaded(f, c)
        PROVE  PutWereHanded'
    <3>1. c \in DOMAIN handed[f] /\ handed' = handed
          /\ uploaded' = [uploaded EXCEPT ![f] = @ \cup {c}]
      BY <2>2 DEF ChunkUploaded, Processor!ChunkUploaded, uploadVars
    <3>2. \A g : uploaded'[g] \subseteq uploaded[g] \cup {c} /\ (g # f => uploaded'[g] \subseteq uploaded[g])
      BY <3>1
    <3> QED BY <3>1, <3>2 DEF PutWereHanded
  <2>3. CASE ProcessorStep
    BY <2>3, PutByClients DEF ProcessorStep, uploadVars, PutWereHanded
  <2>4. CASE UNCHANGED vars
    BY <2>4 DEF vars, uploadVars, processorVars, PutWereHanded
  <2> QED BY <2>1, <2>2, <2>3, <2>4 DEF Next
<1>3. U!Spec => []U!TypeOK
  BY U!UploadTypeInvariant, UploadAssumptions
<1> QED BY <1>1, <1>2, <1>3, PipelineUploads, PTL DEF Spec

\* A video with as many chunks as announced has all the chunks the user was
\* given URLs for, and none else, and ListChunks orders any two of them as
\* they were cut.
WholeVideos ==
  \A n \in announced :
    LET o == Processor!Output(n) IN
      Cardinality(videos[o]) = n.total =>
        /\ videos[o] = DOMAIN handed[o[1]]
        /\ \A c, d \in videos[o] : Before(S3Key(o[1], c), S3Key(o[1], d)) <=> c < d

\* As many as announced means whole and in order: the count of TrackChunk and
\* the list in S3 are of the same chunks, late ones, failed jobs and deleted
\* chunks notwithstanding, unless the upload service restarts.
THEOREM WholeVideosHolds == "crash" \notin UploadFaults => (Spec => []WholeVideos)
<1>1. U!TypeOK /\ PutWereHanded /\ AnnouncesWhole /\ V!VideosAreFed => WholeVideos
  <2> SUFFICES ASSUME U!TypeOK, PutWereHanded, AnnouncesWhole, V!VideosAreFed,
                      NEW n \in announced, NEW o, o = Processor!Output(n),
                      Cardinality(videos[o]) = n.total
               PROVE  /\ videos[o] = DOMAIN handed[o[1]]
                      /\ \A c, d \in videos[o] : Before(S3Key(o[1], c), S3Key(o[1], d)) <=> c < d
    BY DEF WholeVideos
  <2> DEFINE f == <<n.user, n.recording>>
  <2>1. n.user \in Users /\ n.recording \in RecordingIDs /\ n.session \in Upload!SessionIDs
    BY DEF U!TypeOK, U!Event, U!SessionIDs, Upload!SessionIDs
  <2>2. f \in Users \X RecordingIDs /\ o = <<f, n.session>> /\ o[1] = f /\ o \in V!Outputs
    BY <2>1 DEF Processor!Output, Processor!Folder, V!Outputs, V!Folders
  <2>3. handed[f] \in Seq([index : Nat, final : BOOLEAN])
    BY <2>2 DEF U!TypeOK
  <2>4. /\ n.total = Upload!ChunksCut(n.user, n.recording)
        /\ \A i \in DOMAIN handed[f] : handed[f][i].index = i - 1
    BY DEF AnnouncesWhole, Upload!AnnouncesWhole
  <2>5. /\ Len(handed[f]) \in Nat /\ DOMAIN handed[f] = 1..Len(handed[f])
        /\ n.total = Len(handed[f]) + 0 \/ n.total = Len(handed[f]) + 1
    BY <2>3, <2>4, LenProperties DEF Upload!ChunksCut
  <2>6. videos[o] \subseteq 1..Len(handed[f])
    BY <2>2, <2>5 DEF PutWereHanded, V!VideosAreFed
  <2> HIDE DEF f
  <2>7. videos[o] = 1..Len(handed[f])
    <3>1. IsFiniteSet(1..Len(handed[f])) /\ Cardinality(1..Len(handed[f])) = Len(handed[f])
      BY <2>5, FS_Interval
    <3>2. Len(handed[f]) <= Cardinality(videos[o])
      BY <2>5
    <3>3. /\ IsFiniteSet(videos[o]) /\ Cardinality(videos[o]) <= Len(handed[f])
          /\ Cardinality(videos[o]) = Len(handed[f]) => videos[o] = 1..Len(handed[f])
      BY <2>6, <3>1, FS_Subset
    <3>4. Cardinality(videos[o]) \in Nat
      BY <3>3, FS_CardinalityType
    <3> QED BY <2>5, <3>2, <3>3, <3>4
  <2>8. ASSUME NEW c \in videos[o], NEW d \in videos[o]
        PROVE  Before(S3Key(f, c), S3Key(f, d)) <=> c < d
    <3>1. c \in Nat /\ d \in Nat /\ handed[f][c].index = c - 1 /\ handed[f][d].index = d - 1
      BY <2>4, <2>5, <2>7
    <3> QED BY <3>1 DEF Before, S3Key, FileName, ChunkIndex
  <2> QED BY <2>2, <2>5, <2>7, <2>8
<1>2. V!Spec => []V!VideosAreFed
  BY V!VideosAreFedHolds, ProcessorAssumptions
<1> QED BY <1>1, <1>2, PutWereHandedHolds, PipelineAnnounces, PipelineProcesses, PTL

\* The rank of a chunk among n that sort as they were cut.
LEMMA SortedInOrder ==
  ASSUME NEW f, NEW n \in Nat,
         \A c, d \in 1..n : Before(S3Key(f, c), S3Key(f, d)) <=> c < d
  PROVE  ListChunks(f, 1..n) = [i \in 1..n |-> i]
<1> DEFINE Ahead(c) == {d \in 1..n : Before(S3Key(f, d), S3Key(f, c))}
           Listed(i) == CHOOSE c \in 1..n : Cardinality(Ahead(c)) = i - 1
<1>1. Cardinality(1..n) = n
  BY FS_Interval
<1>2. ASSUME NEW c \in 1..n PROVE Cardinality(Ahead(c)) = c - 1
  <2>1. Ahead(c) = 1..(c - 1)
    OBVIOUS
  <2>2. Cardinality(1..(c - 1)) = c - 1
    BY FS_Interval
  <2> QED BY <2>1, <2>2
<1>3. ASSUME NEW i \in 1..n PROVE Listed(i) = i
  <2> HIDE DEF Ahead
  <2>1. \A c \in 1..n : Cardinality(Ahead(c)) = i - 1 <=> c = i
    BY <1>2
  <2> QED BY <2>1
<1>4. ListChunks(f, 1..n) = [i \in 1..n |-> Listed(i)]
  BY <1>1 DEF ListChunks
<1> HIDE DEF Listed
<1> QED BY <1>3, <1>4

\* In the pipeline a video with as many chunks as were announced plays all the
\* user cut, in the order it was cut, whenever the chunks arrived and however
\* often its job failed or was lost, unless the upload service restarts.
THEOREM VideosAreWholeHolds == "crash" \notin UploadFaults => (Spec => []VideosAreWhole)
<1>1. U!TypeOK /\ WholeVideos => VideosAreWhole
  <2> SUFFICES ASSUME U!TypeOK, WholeVideos,
                      NEW n \in announced, NEW o, o = Processor!Output(n),
                      Cardinality(videos[o]) = n.total
               PROVE  Played(o) = [i \in 1..Len(handed[o[1]]) |-> i]
    BY DEF VideosAreWhole
  <2> DEFINE f == o[1]
  <2>1. f \in Users \X RecordingIDs
    BY DEF U!TypeOK, U!Event, Processor!Output, Processor!Folder
  <2>2. handed[f] \in Seq([index : Nat, final : BOOLEAN])
    BY <2>1 DEF U!TypeOK
  <2>3. Len(handed[f]) \in Nat /\ DOMAIN handed[f] = 1..Len(handed[f])
    BY <2>2, LenProperties
  <2>4. /\ videos[o] = DOMAIN handed[f]
        /\ \A c, d \in videos[o] : Before(S3Key(f, c), S3Key(f, d)) <=> c < d
    BY DEF WholeVideos
  <2> QED BY <2>3, <2>4, SortedInOrder DEF Played
<1>2. U!Spec => []U!TypeOK
  BY U!UploadTypeInvariant, UploadAssumptions
<1> QED BY <1>1, <1>2, WholeVideosHolds, PipelineUploads, PTL

-----------------------------------------------------------------------------
(* Delivery: the parts keep together what it promises.                     *)

\* Of the upload service: what its proofs know of it, in one formula.
Orders == U!TypeOK /\ U!OrderlyInvariant /\ U!OneRecordingPerJob

LEMMA OrdersHold == Spec => []Orders
<1>1. U!Orderly
  BY DEF U!Orderly
<1>2. U!Orderly => (U!Spec => [](U!TypeOK /\ U!OrderlyInvariant))
  BY U!OrderlyInvariantHolds, UploadAssumptions
<1>3. U!Spec => []U!OneRecordingPerJob
  BY U!OneRecordingPerJobHolds, UploadAssumptions
<1> QED BY <1>1, <1>2, <1>3, PipelineUploads, PTL DEF Orders

\* Of the video processor.
Processes == V!TypeOK /\ V!ProcessorInvariant /\ V!KeysAreFed

LEMMA ProcessesHold == Spec => []Processes
<1>1. V!Spec => [](V!TypeOK /\ V!ProcessorInvariant)
  BY V!ProcessorInvariantIs, ProcessorAssumptions
<1>2. V!Spec => [](V!VideosAreFed /\ V!KeysAreFed)
  BY V!FedHolds, ProcessorAssumptions
<1> QED BY <1>1, <1>2, PipelineProcesses, PTL DEF Processes

\* What the processor was told and works on is what was announced.
AnnouncedOnly ==
  /\ \A a \in 1..Len(queue) : queue[a] \in announced
  /\ \A j \in Jobs : V!Known(j) => jobs[j].event \in announced

\* A step of the upload service, as the rest sees it, while it does not restart.
LEMMA UploadStepGives ==
  ASSUME "crash" \notin UploadFaults, Orders, Orders', UploadStep
  PROVE  \/ UNCHANGED <<handed, announced>>
         \/ \E f \in Users \X RecordingIDs : U!Announces(f) \/ U!Gives(f)
<1>1. U!Orderly
  BY DEF U!Orderly
<1>2. [U!Next]_(U!vars)
  BY UploadStepIs DEF UploadStep
<1> QED BY <1>1, <1>2, U!GivesOrNot, UploadAssumptions DEF Orders

\* Only the upload service puts an event in the queue, and it is a new one.
LEMMA AnnouncedIsNew ==
  ASSUME Processes, [Next]_vars, NEW e, V!Announce(e)
  PROVE  UploadStep /\ e \in announced' \ announced
<1>1. queue \in Seq([user : Users, session : Upload!SessionIDs,
                    recording : RecordingIDs, total : 1..MaxURLs])
  BY DEF Processes, V!TypeOK
<1>2. queue' = Append(queue, e)
  BY DEF V!Announce
<1>3. Len(queue) \in Nat /\ Len(queue') = Len(queue) + 1 /\ queue'[Len(queue) + 1] = e
  BY <1>1, <1>2
<1>4. queue' # queue
  BY <1>3
<1>5. ASSUME NEW f, NEW c, ChunkUploaded(f, c) PROVE FALSE
  BY <1>4, <1>5 DEF ChunkUploaded, Processor!ChunkUploaded
<1>6. CASE ProcessorStep
  <2>1. ASSUME NEW j \in Jobs, Processor!Pop(j) PROVE FALSE
    <3>1. queue # <<>> /\ queue' = Tail(queue)
      BY <2>1 DEF Processor!Pop
    <3>2. Len(queue') = Len(queue) - 1
      BY <1>1, <3>1
    <3> QED BY <1>3, <3>2
  <2>2. ASSUME NEW j \in Jobs, Processor!JobStep(j) \/ Processor!S3Fails(j) \/ Processor!DBFails(j)
        PROVE  queue' = queue
    BY <2>2 DEF Processor!JobStep, Processor!S3Fails, Processor!DBFails,
       Processor!Claim, Processor!List, Processor!GiveUp, Processor!Download,
       Processor!UploadFinalVideo, Processor!FindRecording, Processor!NoPod, Processor!FileRecording,
       Processor!SeekLink, Processor!SaveLink, Processor!Finish, Processor!Sweep
  <2>3. Processor!Crash => queue' = queue
    BY DEF Processor!Crash
  <2> QED BY <1>4, <1>6, <2>1, <2>2, <2>3 DEF ProcessorStep
<1>7. ASSUME UploadStep PROVE e \in announced' \ announced
  <2>1. PICK n \in announced' \ announced : Processor!Announce(n)
    BY <1>4, <1>7 DEF UploadStep, processorVars
  <2>2. queue' = Append(queue, n)
    BY <2>1 DEF Processor!Announce
  <2>3. queue'[Len(queue) + 1] = n
    BY <1>1, <2>2
  <2> QED BY <1>3, <2>3
<1> QED BY <1>4, <1>5, <1>6, <1>7 DEF Next, vars, processorVars

\* Nothing announced is taken back.
LEMMA AnnouncedGrows ==
  ASSUME "crash" \notin UploadFaults, Orders, Orders', [Next]_vars
  PROVE  announced \subseteq announced'
<1>1. CASE UploadStep
  BY <1>1, UploadStepGives DEF U!Announces, U!Gives
<1>2. CASE ~UploadStep
  BY <1>2 DEF Next, ChunkUploaded, ProcessorStep, vars, uploadVars
<1> QED BY <1>1, <1>2

LEMMA AnnouncedOnlyStep ==
  ASSUME "crash" \notin UploadFaults, Orders, Orders', Processes, AnnouncedOnly, [Next]_vars, [V!Next]_(V!vars)
  PROVE  AnnouncedOnly'
<1>1. announced \subseteq announced'
  BY AnnouncedGrows
<1>2. \A e : V!Announce(e) => e \in announced'
  BY AnnouncedIsNew
<1>3. /\ \A a \in 1..Len(queue') :
           \/ \E b \in 1..Len(queue) : queue'[a] = queue[b]
           \/ \E e : V!Announce(e) /\ queue'[a] = e
      /\ \A i \in Jobs : V!Known(i)' =>
           \/ V!Known(i) /\ jobs'[i].event = jobs[i].event
           \/ \E b \in 1..Len(queue) : jobs'[i].event = queue[b]
  BY V!EventsCome, ProcessorAssumptions DEF Processes
<1> QED BY <1>1, <1>2, <1>3 DEF AnnouncedOnly

\* What is announced has a folder of its own.
LEMMA AnnouncedIsFresh ==
  ASSUME "crash" \notin UploadFaults, Orders, Orders', Processes, AnnouncedOnly, [Next]_vars
  PROVE  V!Fresh
<1> SUFFICES ASSUME NEW e, V!Announce(e)
             PROVE  \A n \in announced : V!Folder(n) # V!Folder(e)
  BY DEF V!Fresh, AnnouncedOnly
<1>1. UploadStep /\ e \in announced' \ announced
  BY AnnouncedIsNew
<1>2. PICK f : U!Announces(f)
  BY <1>1, UploadStepGives DEF U!Gives
<1>3. PICK n : announced' = announced \cup {n} /\ <<n.user, n.recording>> = f
  BY <1>2 DEF U!Announces
<1>4. V!Folder(e) = f
  BY <1>1, <1>3 DEF V!Folder
<1> QED BY <1>2, <1>4 DEF U!Announces, V!Folder

Kept == AnnouncedOnly /\ V!OnceInvariant

LEMMA KeptHolds == "crash" \notin UploadFaults => (Spec => []Kept)
<1> SUFFICES ASSUME "crash" \notin UploadFaults PROVE Spec => []Kept
  OBVIOUS
<1>1. Init => Kept
  <2> SUFFICES ASSUME Init PROVE Kept
    OBVIOUS
  <2>1. V!Init
    BY DEF Init, Processor!Init, V!Init, Processor!Folders, V!Folders, Processor!Outputs, V!Outputs,
         Processor!NoJob, V!NoJob
  <2>2. V!OnceInvariant
    BY <2>1, V!OnceInit, ProcessorAssumptions
  <2>3. AnnouncedOnly
    BY <2>1 DEF V!Init, V!NoJob, V!Known, AnnouncedOnly
  <2> QED BY <2>2, <2>3 DEF Kept
<1>2. Orders /\ Orders' /\ Processes /\ Kept /\ [Next]_vars /\ [V!Next]_(V!vars) => Kept'
  <2>1. ASSUME Orders, Orders', Processes, Kept, [Next]_vars, [V!Next]_(V!vars)
        PROVE  AnnouncedOnly' /\ V!OnceInvariant'
    <3>1. V!Fresh
      BY <2>1, AnnouncedIsFresh DEF Kept
    <3>2. V!OnceInvariant'
      BY <2>1, <3>1, V!OnceStep, ProcessorAssumptions DEF Kept, Processes
    <3> QED BY <2>1, <3>2, AnnouncedOnlyStep DEF Kept
  <2> QED BY <2>1 DEF Kept
<1> QED BY <1>1, <1>2, OrdersHold, ProcessesHold, PipelineProcesses, PTL DEF Spec, V!Spec

\* How many URLs were given for each folder, which Delivery calls cut.
Given == [f \in Users \X RecordingIDs |-> Len(handed[f])]

LEMMA OneMoreGiven ==
  ASSUME Orders, NEW f \in Users \X RecordingIDs, Len(handed'[f]) = Len(handed[f]) + 1,
         \A g \in Users \X RecordingIDs : g # f => handed'[g] = handed[g]
  PROVE  Given' = [Given EXCEPT ![f] = @ + 1]
BY DEF Given

LEMMA UploadDelivers ==
  ASSUME "crash" \notin UploadFaults, Orders, Orders', UploadStep
  PROVE  Promise!Next \/ UNCHANGED Promise!vars
<1>1. UNCHANGED <<uploaded, videos, rows, links>>
  BY DEF UploadStep, processorVars, Processor!Announce
<1>2. CASE UNCHANGED <<handed, announced>>
  BY <1>1, <1>2 DEF Promise!vars
<1>3. ASSUME NEW f \in Users \X RecordingIDs, U!Announces(f) PROVE Promise!Next
  <2>1. PICK n \in U!Event :
          /\ announced' = announced \cup {n} /\ <<n.user, n.recording>> = f
          /\ n.total = Len(handed[f]) + 1
          /\ \A m \in announced : <<m.user, m.session>> # <<n.user, n.session>>
    BY <1>3 DEF U!Announces
  <2>2. n = [user |-> f[1], session |-> n.session, recording |-> f[2], total |-> Given[f] + 1]
    BY <2>1 DEF U!Event, Given
  <2>3. handed' = handed /\ \A m \in announced : Promise!Folder(m) # f
    BY <1>3 DEF U!Announces, Promise!Folder
  <2>4. Promise!Close(f, n.session)
    BY <1>1, <2>1, <2>2, <2>3 DEF Promise!Close, Promise!Folder, Given
  <2>5. f \in Promise!Folders /\ n.session \in Upload!SessionIDs
    BY DEF Promise!Folders, U!Event, U!SessionIDs, Upload!SessionIDs
  <2> QED BY <2>4, <2>5 DEF Promise!Next, Given
<1>4. ASSUME NEW f \in Users \X RecordingIDs, U!Gives(f) PROVE Promise!Next
  <2>1. Given' = [Given EXCEPT ![f] = @ + 1] /\ Given[f] = Len(handed[f])
    BY <1>4, OneMoreGiven DEF U!Gives, Given
  <2>2. Promise!Cut(f)
    BY <1>1, <1>4, <2>1 DEF U!Gives, Promise!Cut, Promise!Folder, Given
  <2> QED BY <2>2 DEF Promise!Next, Promise!Folders, Given
<1> QED BY <1>2, <1>3, <1>4, UploadStepGives

LEMMA ClientDelivers ==
  ASSUME Orders, NEW f \in Processor!Folders, NEW c \in 1..MaxURLs, ChunkUploaded(f, c)
  PROVE  Promise!Next
<1>1. f \in Users \X RecordingIDs /\ f \in Promise!Folders
  BY DEF Processor!Folders, Promise!Folders
<1>2. Given[f] = Len(handed[f]) /\ DOMAIN handed[f] = 1..Len(handed[f])
  <2>1. handed[f] \in Seq([index : Nat, final : BOOLEAN])
    BY <1>1 DEF Orders, U!TypeOK
  <2> QED BY <1>1, <2>1, LenProperties DEF Given
<1>3. /\ c \in 1..Given[f] \ uploaded[f] /\ uploaded' = [uploaded EXCEPT ![f] = @ \cup {c}]
      /\ UNCHANGED <<handed, announced, videos, rows, links>>
  BY <1>2 DEF ChunkUploaded, Processor!ChunkUploaded, uploadVars
<1>4. Promise!Put(f, c)
  BY <1>3 DEF Promise!Put, Given
<1> QED BY <1>1, <1>3, <1>4 DEF Promise!Next, Given

LEMMA ProcessorDelivers ==
  ASSUME Processes, Kept, ProcessorStep, [V!Next]_(V!vars)
  PROVE  Promise!Next \/ UNCHANGED Promise!vars
<1>1. UNCHANGED <<handed, announced, uploaded>>
  BY PutByClients DEF ProcessorStep, uploadVars
<1>2. CASE UNCHANGED <<videos, rows, links>>
  BY <1>1, <1>2 DEF Promise!vars
<1>3. ASSUME NEW j \in Jobs, NEW e, V!Known(j), e = jobs[j].event,
             V!Makes(j, e) \/ V!Files(e) \/ V!Links(e)
      PROVE  Promise!Next
  <2>1. e \in announced
    BY <1>3 DEF Kept, AnnouncedOnly
  <2>2. Promise!Folder(e) = V!Folder(e) /\ Promise!Output(e) = V!Output(e)
    BY DEF Promise!Folder, V!Folder, Promise!Output, V!Output
  <2>3. CASE V!Makes(j, e)
    <3>1. Promise!Make(e, jobs[j].keys)
      BY <1>1, <2>2, <2>3 DEF V!Makes, Promise!Make
    <3>2. jobs[j].keys \in SUBSET uploaded[Promise!Folder(e)]
      BY <2>2, <2>3 DEF V!Makes
    <3> QED BY <2>1, <3>1, <3>2 DEF Promise!Next
  <2>4. CASE V!Files(e)
    <3>1. Promise!File(e)
      BY <1>1, <2>2, <2>4 DEF V!Files, Promise!File
    <3> QED BY <2>1, <3>1 DEF Promise!Next
  <2>5. CASE V!Links(e)
    <3>1. Promise!Link(e)
      BY <1>1, <2>2, <2>5 DEF V!Links, Promise!Link
    <3> QED BY <2>1, <3>1 DEF Promise!Next
  <2> QED BY <1>3, <2>3, <2>4, <2>5
<1> QED
  <2>1. \/ UNCHANGED <<videos, rows, links>>
        \/ \E j \in Jobs : /\ V!Known(j)
                           /\ LET e == jobs[j].event IN V!Makes(j, e) \/ V!Files(e) \/ V!Links(e)
    BY V!MadeOnce, ProcessorAssumptions DEF Processes, Kept
  <2> QED BY <1>2, <1>3, <2>1

\* Every behaviour of the upload service, S3 and the processor, with refused
\* pushes, failures of S3 and of the database, restarts of the processor and
\* chunks that come late or are deleted, keeps what Delivery promises, while the
\* upload service itself runs: a recording is announced once and made once, of
\* what the user put there, and filed and linked only when it is made.
THEOREM DeliversHolds == "crash" \notin UploadFaults => (Spec => Delivers)
<1> SUFFICES ASSUME "crash" \notin UploadFaults PROVE Spec => Delivers
  OBVIOUS
<1>1. Init => Promise!Init
  BY DEF Init, Upload!Init, Processor!Init, Processor!Folders, Processor!Outputs, Promise!Init,
         Promise!Folders, Promise!Outputs
<1>2. Orders /\ Orders' /\ Processes /\ Kept /\ [Next]_vars /\ [V!Next]_(V!vars)
        => [Promise!Next]_(Promise!vars)
  <2> SUFFICES ASSUME Orders, Orders', Processes, Kept, [Next]_vars, [V!Next]_(V!vars)
               PROVE  Promise!Next \/ UNCHANGED Promise!vars
    OBVIOUS
  <2>1. CASE UNCHANGED vars
    BY <2>1 DEF vars, uploadVars, processorVars, Promise!vars
  <2> QED BY <2>1, UploadDelivers, ClientDelivers, ProcessorDelivers DEF Next
<1> QED
  BY <1>1, <1>2, OrdersHold, ProcessesHold, KeptHolds, PipelineProcesses, PTL
  DEF Spec, V!Spec, Delivers, Promise!Spec
=============================================================================
