------------------------------ MODULE Library ------------------------------
(***************************************************************************)
(* A user's podcasts and their recordings, as three services keep them:    *)
(* the session service stores a pod and registers the podcast's host in    *)
(* Redis, the video processor files each finished recording under a pod,   *)
(* and the session service shows a user the recordings of their pods.      *)
(*                                                                         *)
(* A pod is the number of its row in the order of creation; it has no      *)
(* trace of the podcast it was created with.  is_active is never cleared   *)
(* and pod_participants never written: the code that would is called for   *)
(* events the consumer cannot parse (module EventConsumer).  Uploads,      *)
(* retries and restarts of the video processor are in VideoProcessor; here *)
(* a job is its saveRecordingToDB.                                         *)
(***************************************************************************)
EXTENDS Naturals, Sequences, FiniteSets

CONSTANTS
  Users,
  Unlucky,       \* those whose statements and commands may fail
  PodcastIDs,    \* texts generatePodcastID may draw
  RecordingIDs,
  MaxPods,       \* bound on the rows of pods
  None

ASSUME UsersAssumption == Unlucky \subseteq Users
ASSUME PodsAssumption == MaxPods \in Nat
ASSUME LibraryNoneAssumption == None \notin Users

VARIABLES
  pods,        \* host_user_id of the rows of pods, oldest first
  creating,    \* users whose CreatePodcast is between the two stores
  hosts,       \* podcast_host:<id> in Redis
  answered,    \* the podcast ids answered to each user
  recordings,  \* table recordings: pod_id, 0 without a row
  links,       \* table user_recording_links
  jobs         \* saveRecordingToDB for a user and a recording

vars == <<pods, creating, hosts, answered, recordings, links, jobs>>

Pods == 1..Len(pods)
JobKeys == Users \X RecordingIDs

\* pod: podID; saw: whether FirstOrCreate's SELECT found the row.
Job == [step : {"none", "waiting", "chosen", "seen", "filed", "linked", "unfiled"},
        pod : 0..MaxPods, saw : BOOLEAN]
NoJob == [step |-> "none", pod |-> 0, saw |-> FALSE]

Init ==
  /\ pods = <<>>
  /\ creating = {}
  /\ hosts = [x \in PodcastIDs |-> None]
  /\ answered = [u \in Users |-> {}]
  /\ recordings = [rec \in RecordingIDs |-> 0]
  /\ links = {}
  /\ jobs = [k \in JobKeys |-> NoJob]

Podcasts == <<pods, creating, hosts, answered>>
Shelves == <<recordings, links>>

-----------------------------------------------------------------------------
(* CreatePodcast and the hosts in Redis.                                   *)

\* podcastRepo.Create: the pod is stored, or the request ends with an error.
UncheckedStore(u) ==
  /\ u \notin creating
  /\ Len(pods) < MaxPods
  /\ \/ pods' = Append(pods, u)
     \/ u \in Unlucky /\ UNCHANGED pods
  /\ creating' = creating \cup {u}
  /\ UNCHANGED <<hosts, answered, Shelves, jobs>>

StorePod(u) ==
  /\ u \notin creating
  /\ Len(pods) < MaxPods
  /\ pods' = Append(pods, u)
  /\ creating' = creating \cup {u}
  /\ UNCHANGED <<hosts, answered, Shelves, jobs>>

\* SetPodcastHost under a fresh id, and the answer; or an error that leaves the
\* pod behind.
RegisterHost(u, x) ==
  /\ u \in creating
  /\ creating' = creating \ {u}
  /\ \/ /\ \A v \in Users : x \notin answered[v]
        /\ hosts' = [hosts EXCEPT ![x] = u]
        /\ answered' = [answered EXCEPT ![u] = @ \cup {x}]
     \/ /\ u \in Unlucky
        /\ UNCHANGED <<hosts, answered>>
  /\ UNCHANGED <<pods, Shelves, jobs>>

\* The key lives for a day.
Expire(x) ==
  /\ hosts[x] # None
  /\ hosts' = [hosts EXCEPT ![x] = None]
  /\ UNCHANGED <<pods, creating, answered, Shelves, jobs>>

-----------------------------------------------------------------------------
(* saveRecordingToDB.                                                      *)

\* What the look-up may find: the newest pod with this host_user_id; 0 for none.
\* The second look-up, over pod_participants, finds nothing.
NewestOfAll(u) == {Len(pods)}
NextSerial(u) == {Len(pods) + 1}
NewestJoined(u) == {0}
PodOf(u) ==
  LET own == {n \in Pods : pods[n] = u}
  IN IF own = {} THEN {0} ELSE {n \in own : \A m \in own : m <= n}

\* A video is made and its job comes to the database.
Finish(k) ==
  /\ jobs[k].step = "none"
  /\ jobs' = [jobs EXCEPT ![k].step = "waiting"]
  /\ UNCHANGED <<Podcasts, Shelves>>

Give(k, step) == jobs' = [jobs EXCEPT ![k].step = step]

\* The pod of the recording's row, else a pod of the user, also when the read of
\* the row failed; without one nothing is saved and the error only logged.
ChoosePod(k) ==
  LET own == PodOf(k[1])
      row == recordings[k[2]]
  IN /\ jobs[k].step = "waiting"
     /\ \E pod \in IF row = 0 THEN own ELSE IF k[1] \in Unlucky THEN {row} \cup own ELSE {row} :
          IF pod = 0 THEN Give(k, "unfiled")
          ELSE jobs' = [jobs EXCEPT ![k].step = "chosen", ![k].pod = pod]
     /\ UNCHANGED <<Podcasts, Shelves>>

\* FirstOrCreate reads the row once more ...
SeekRow(k) ==
  /\ jobs[k].step = "chosen"
  /\ jobs' = [jobs EXCEPT ![k].step = "seen", ![k].saw = recordings[k[2]] # 0]
  /\ UNCHANGED <<Podcasts, Shelves>>

\* ... and updates it, pod_id too, or inserts it under the unique recording_id.
FileRecording(k) ==
  /\ jobs[k].step = "seen"
  /\ IF jobs[k].saw \/ recordings[k[2]] = 0
     THEN /\ recordings' = [recordings EXCEPT ![k[2]] = jobs[k].pod]
          /\ Give(k, "filed")
     ELSE Give(k, "unfiled") /\ UNCHANGED recordings
  /\ UNCHANGED <<Podcasts, links>>

SaveLink(k) ==
  /\ jobs[k].step = "filed"
  /\ links' = links \cup {k}
  /\ Give(k, "linked")
  /\ UNCHANGED <<Podcasts, recordings>>

\* A statement fails; the job is done all the same.
GiveUp(k) ==
  /\ k[1] \in Unlucky
  /\ jobs[k].step \in {"waiting", "chosen", "seen", "filed"}
  /\ Give(k, "unfiled")
  /\ UNCHANGED <<Podcasts, Shelves>>

Save(k) == ChoosePod(k) \/ SeekRow(k) \/ FileRecording(k) \/ SaveLink(k)

Next ==
  \/ \E u \in Users : StorePod(u)
  \/ \E u \in Users, x \in PodcastIDs : RegisterHost(u, x)
  \/ \E x \in PodcastIDs : Expire(x)
  \/ \E k \in JobKeys : Finish(k) \/ Save(k) \/ GiveUp(k)

\* A job runs to its end; nobody has to create or to record anything.
Fairness == \A k \in JobKeys : WF_vars(Save(k))
Spec == Init /\ [][Next]_vars /\ Fairness
-----------------------------------------------------------------------------
(* What the session service shows.                                         *)

GetPodcastHost(x) == hosts[x]
GetByPodID(n) == {rec \in RecordingIDs : recordings[rec] = n}
GetUserLinks(rec) == {k \in links : k[2] = rec}
GetAllByHost(u) == {n \in Pods : pods[n] = u}

\* CheckPodcast: whether a podcast's page opens.
CheckPodcast(x) == GetPodcastHost(x) # None

\* GetPodcastRecordings, of a pod's number.  The podcast ids that clients have
\* are 24 hexadecimal digits, which ParseInt refuses.
GetPodcastRecordings(n) == UNION {GetUserLinks(rec) : rec \in GetByPodID(n)}

\* GetMyPodcasts: the videos under the pods of a user.
GetMyPodcasts(u) == UNION {GetPodcastRecordings(n) : n \in GetAllByHost(u)}

-----------------------------------------------------------------------------
(* Properties.                                                             *)

\* The tables, the keys and the jobs keep their types.
TypeOK ==
  /\ pods \in Seq(Users) /\ Len(pods) <= MaxPods
  /\ creating \subseteq Users
  /\ hosts \in [PodcastIDs -> Users \cup {None}]
  /\ answered \in [Users -> SUBSET PodcastIDs]
  /\ recordings \in [RecordingIDs -> 0..MaxPods]
  /\ links \subseteq JobKeys
  /\ jobs \in [JobKeys -> Job]

\* Whoever opens a podcast finds its host, and its host has a pod for every
\* podcast id they were answered and for the one they are about to be, although
\* the row and the key are written to two stores (CreatePodcast, CheckPodcast).
HostHasPods ==
  /\ \A x \in PodcastIDs : CheckPodcast(x) => x \in answered[GetPodcastHost(x)]
  /\ \A u \in Users :
       Cardinality(answered[u]) + Cardinality({u} \cap creating) <= Cardinality(GetAllByHost(u))

\* A saved video is on the page of one user, who recorded in that recording,
\* although jobs of several hosts may file it at the same time and move it from
\* one's pod to the other's (saveRecordingToDB, GetMyPodcasts).
ShownToOneParticipant ==
  \A k \in links :
    \E u \in Users :
      /\ jobs[<<u, k[2]>>].step # "none"
      /\ \A v \in Users : k \in GetMyPodcasts(v) <=> v = u

\* A recording somebody with a pod took part in gets a row, whoever else's job
\* comes first, fails, finds no pod or loses the race for the row
\* (saveRecordingToDB).
HostsRecordingIsFiled ==
  \A k \in JobKeys :
    (jobs[k].step = "waiting" /\ GetAllByHost(k[1]) # {} /\ k[1] \notin Unlucky)
      ~> recordings[k[2]] # 0
=============================================================================
