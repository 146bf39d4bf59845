------------------------------ MODULE Pipeline ------------------------------
(***************************************************************************)
(* From the clients' chunks to the video: the upload service, S3 and the   *)
(* video processor together.  An event the upload service pushes is popped *)
(* by the processor; a chunk is put in S3 with a URL the upload service    *)
(* handed out, at any time after that, under the name the service fixed;   *)
(* the processor lists the chunks by name and joins them in that order.    *)
(*                                                                         *)
(* The chunks of a folder are numbered as they were cut, which is how the  *)
(* clients here, one request at a time, ask for their URLs.                *)
(***************************************************************************)
EXTENDS Naturals, Sequences, FiniteSets

CONSTANTS
  Users, Podcasts, RecordingIDs, PodcastOf, UploadIDs, Requests, MaxURLs,
  Jobs, MaxAttempts, CleanupChunks, Podless, UploadFaults, ProcessorFaults, None

VARIABLES recordings, requests, handed, sessions, drawn, monitors, cleaners, announced,
          queue, uploaded, stored, videos, processed, jobs, rows, links

uploadVars == <<recordings, requests, handed, sessions, drawn, monitors, cleaners, announced>>
processorVars == <<queue, uploaded, stored, videos, processed, jobs, rows, links>>
vars == <<uploadVars, processorVars>>

\* Clients send index 0 every time and do nothing of what Habits lists.
Upload == INSTANCE UploadSession
            WITH queue <- announced, AskedIndexes <- {0}, Habits <- {}, Faults <- UploadFaults

Processor == INSTANCE VideoProcessor
               WITH recordings <- rows, SessionIDs <- Upload!SessionIDs, MaxChunks <- MaxURLs,
                    Announcements <- [user : Users, session : Upload!SessionIDs,
                                      recording : RecordingIDs, total : 1..MaxURLs],
                    Faults <- ProcessorFaults

ASSUME PipelineAssumption ==
  /\ PodcastOf \in [RecordingIDs -> Podcasts] /\ RecordingIDs \cap UploadIDs = {}
  /\ MaxURLs \in Nat /\ MaxAttempts \in Nat \ {0} /\ IsFiniteSet(Jobs) /\ CleanupChunks \in BOOLEAN
  /\ Podless \subseteq Users
  /\ UploadFaults \subseteq Upload!FaultKinds /\ ProcessorFaults \subseteq Processor!FaultKinds
  /\ None \notin Users \cup Upload!SessionIDs \cup (Users \X Upload!SessionIDs) \cup Processor!Event

Init == Upload!Init /\ Processor!Init

\* What the upload service pushes arrives in the processor's list.
UploadStep ==
  /\ Upload!Next
  /\ IF announced' = announced
     THEN UNCHANGED processorVars
     ELSE \E n \in announced' \ announced : Processor!Announce(n)

\* A client puts the chunk it was given its c-th URL for.
ChunkUploaded(f, c) ==
  /\ c \in DOMAIN handed[f]
  /\ Processor!ChunkUploaded(f, c)
  /\ UNCHANGED uploadVars

ProcessorStep ==
  /\ \/ \E j \in Jobs : Processor!Pop(j) \/ Processor!JobStep(j)
                     \/ Processor!S3Fails(j) \/ Processor!DBFails(j)
     \/ Processor!Crash
  /\ UNCHANGED uploadVars

Next ==
  \/ UploadStep
  \/ \E f \in Processor!Folders, c \in 1..MaxURLs : ChunkUploaded(f, c)
  \/ ProcessorStep

Spec == Init /\ [][Next]_vars

-----------------------------------------------------------------------------
(* The order of a video.                                                   *)

\* chunk_<index>_<stamp>: the index is the one the client was answered, the
\* stamp is the client's and rises from chunk to chunk.
FileName(f, c) == [index |-> handed[f][c].index, stamp |-> c]
S3Key(f, c) == [folder |-> f, file |-> FileName(f, c)]

\* The number that ListChunks reads off a key, and the order of two keys: by
\* that number and, if it is the same, by the key as text.
ChunkIndex(key) == key.file.index
Before(a, b) ==
  \/ ChunkIndex(a) < ChunkIndex(b)
  \/ ChunkIndex(a) = ChunkIndex(b) /\ a.file.stamp < b.file.stamp

\* Sorted: the i-th key is the one that i - 1 of them come before.
ListChunks(f, found) ==
  LET Ahead(c) == {d \in found : Before(S3Key(f, d), S3Key(f, c))}
  IN  [i \in 1..Cardinality(found) |-> CHOOSE c \in found : Cardinality(Ahead(c)) = i - 1]

\* concatenateFiles joins the chunks of a video in the order of the list.
Played(o) == ListChunks(o[1], videos[o])

-----------------------------------------------------------------------------
(* Properties.                                                             *)

\* A video with as many chunks as were announced is the whole of what the user
\* cut, in the order it was cut, whenever the chunks arrived in S3 and however
\* often its job failed or was lost: the counts of TrackChunk and the list in
\* S3 are of the same chunks, and the indexes answered sort as they should.
VideosAreWhole ==
  \A n \in announced :
    LET o == Processor!Output(n) IN
      Cardinality(videos[o]) = n.total => Played(o) = [i \in 1..Len(handed[o[1]]) |-> i]

\* With such clients an event counts all the chunks its user has cut.
AnnouncesWhole == Upload!AnnouncesWhole

\* What the parts promise together while the upload service runs: a user's
\* part of a recording is announced once, with its length, and no URL beyond
\* that is given; its session is that of no other recording of the user; its
\* video is made once, of chunks that were put there; and only a video that is
\* there gets a row and a link.
Promise == INSTANCE Delivery
             WITH SessionIDs <- Upload!SessionIDs, put <- uploaded,
                  cut <- [f \in Users \X RecordingIDs |-> Len(handed[f])]

Delivers == Promise!Spec
=============================================================================
