------------------------------ MODULE Delivery ------------------------------
(***************************************************************************)
(* What the upload service, S3 and the video processor together promise of *)
(* a user's part of a recording, whatever requests, sessions, retries and  *)
(* jobs there are inside: it is announced once, when it has ended, with    *)
(* its length and under a session of its own; its video is made once, of   *)
(* chunks the user put there; its row and its link lead to that video.     *)
(***************************************************************************)
EXTENDS Naturals

CONSTANTS
  Users, RecordingIDs, SessionIDs,
  None

Folders == Users \X RecordingIDs
Outputs == Folders \X SessionIDs

VARIABLES
  cut,        \* how many chunks of the folder were given their URL
  put,        \* the chunks that came to S3
  announced,  \* the recordings that have ended, as announced
  videos,     \* the chunks of the video at an output path, {} for no video
  rows,       \* the user and session of the video a recording is filed with
  links       \* the session of the video a user's link leads to

vars == <<cut, put, announced, videos, rows, links>>

Folder(n) == <<n.user, n.recording>>
Output(n) == <<Folder(n), n.session>>

Init ==
  /\ cut = [f \in Folders |-> 0]
  /\ put = [f \in Folders |-> {}]
  /\ announced = {}
  /\ videos = [o \in Outputs |-> {}]
  /\ rows = [r \in RecordingIDs |-> None]
  /\ links = [f \in Folders |-> None]

\* One more chunk gets its URL: of a recording that has not ended, or the
\* last of one that has.
Cut(f) ==
  /\ \A n \in announced : Folder(n) = f => cut[f] < n.total
  /\ cut' = [cut EXCEPT ![f] = @ + 1]
  /\ UNCHANGED <<put, announced, videos, rows, links>>

\* The last one comes: the recording is announced with it, once, the first of
\* its user's under that session.
Close(f, s) ==
  /\ \A n \in announced : Folder(n) # f /\ <<n.user, n.session>> # <<f[1], s>>
  /\ announced' = announced \cup
       {[user |-> f[1], session |-> s, recording |-> f[2], total |-> cut[f] + 1]}
  /\ UNCHANGED <<cut, put, videos, rows, links>>

Put(f, c) ==
  /\ c \in 1..cut[f] \ put[f]
  /\ put' = [put EXCEPT ![f] = @ \cup {c}]
  /\ UNCHANGED <<cut, announced, videos, rows, links>>

\* The video is made, once, of chunks that came, all of them or some.
Make(n, chunks) ==
  /\ videos[Output(n)] = {}
  /\ chunks # {} /\ chunks \subseteq put[Folder(n)]
  /\ videos' = [videos EXCEPT ![Output(n)] = chunks]
  /\ UNCHANGED <<cut, put, announced, rows, links>>

\* The video is filed, in the place of another user's if there is one.
File(n) ==
  /\ videos[Output(n)] # {} /\ rows[n.recording] # <<n.user, n.session>>
  /\ rows' = [rows EXCEPT ![n.recording] = <<n.user, n.session>>]
  /\ UNCHANGED <<cut, put, announced, videos, links>>

\* The user is linked to it, once, when the recording is filed.
Link(n) ==
  /\ videos[Output(n)] # {} /\ rows[n.recording] # None /\ links[Folder(n)] = None
  /\ links' = [links EXCEPT ![Folder(n)] = n.session]
  /\ UNCHANGED <<cut, put, announced, videos, rows>>

Next ==
  \/ \E f \in Folders : \/ Cut(f)
                        \/ \E s \in SessionIDs : Close(f, s)
                        \/ \E c \in 1..cut[f] : Put(f, c)
  \/ \E n \in announced : \/ \E chunks \in SUBSET put[Folder(n)] : Make(n, chunks)
                          \/ File(n) \/ Link(n)

Spec == Init /\ [][Next]_vars
=============================================================================
