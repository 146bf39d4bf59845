---------------------------- MODULE LibraryProofs ----------------------------
(***************************************************************************)
(* Proofs about Library, for every set of users, podcasts and recordings,  *)
(* any number of pods and any failures.                                    *)
(***************************************************************************)
EXTENDS Library, FiniteSetTheorems, TLAPS

\* Somebody with a video of recording rec has the pod n.
PodOfParticipant(n, rec) == n \in Pods /\ jobs[<<pods[n], rec>>].step # "none"

\* A recording is filed under the pod of somebody who took part.
FiledWithParticipant ==
  \A rec \in RecordingIDs : recordings[rec] # 0 => PodOfParticipant(recordings[rec], rec)

\* So is the pod a job has chosen.
ChosenOfParticipant ==
  \A k \in JobKeys : jobs[k].step \in {"chosen", "seen"} => PodOfParticipant(jobs[k].pod, k[2])

\* A linked video, and one about to be, is of a recording with a row.
LinkedIsFiled ==
  /\ \A k \in links : recordings[k[2]] # 0
  /\ \A k \in JobKeys : jobs[k].step = "filed" => recordings[k[2]] # 0

\* The host of a podcast was answered its id.
HostsAnswered == \A x \in PodcastIDs : hosts[x] # None => x \in answered[hosts[x]]

\* A user has a pod for every id answered or about to be.
PodsEnough ==
  \A u \in Users :
    /\ IsFiniteSet(answered[u])
    /\ Cardinality(answered[u]) + Cardinality({u} \cap creating) <= Cardinality(GetAllByHost(u))

LibraryInvariant ==
  /\ TypeOK
  /\ FiledWithParticipant /\ ChosenOfParticipant /\ LinkedIsFiled
  /\ HostsAnswered /\ PodsEnough

-----------------------------------------------------------------------------
(* Types.                                                                  *)

LEMMA NoneIsNoUser == None \notin Users
BY LibraryNoneAssumption

LEMMA PodFound ==
  ASSUME TypeOK, NEW u \in Users, NEW n \in PodOf(u)
  PROVE  n \in 0..MaxPods /\ (n # 0 => n \in Pods /\ pods[n] = u)
BY PodsAssumption DEF PodOf, Pods, TypeOK

LEMMA PodsGrow ==
  ASSUME TypeOK, NEW u \in Users, pods' = Append(pods, u)
  PROVE  /\ pods' \in Seq(Users) /\ Len(pods') = Len(pods) + 1
         /\ pods'[Len(pods) + 1] = u
         /\ \A n \in Pods : n \in Pods' /\ pods'[n] = pods[n]
         /\ Pods' = Pods \cup {Len(pods) + 1} /\ Len(pods) + 1 \notin Pods
BY DEF TypeOK, Pods

\* What a step of a job makes of it.
Goes(k, job) == jobs' = [jobs EXCEPT ![k] = job]

LEMMA GoesIs ==
  ASSUME TypeOK, NEW k \in JobKeys, NEW job \in Job, Goes(k, job)
  PROVE  /\ jobs' \in [JobKeys -> Job]
         /\ jobs'[k] = job /\ \A l \in JobKeys \ {k} : jobs'[l] = jobs[l]
BY DEF Goes, TypeOK

\* The kinds of step of a job.
Moves(k, step) ==
  /\ \E job \in Job : Goes(k, job) /\ job.step = step /\ job.pod = jobs[k].pod
  /\ UNCHANGED <<Podcasts, Shelves>>

Chooses(k) ==
  /\ jobs[k].step = "waiting"
  /\ \E job \in Job : Goes(k, job) /\ job.step = "chosen"
                      /\ job.pod \in PodOf(k[1]) \cup {recordings[k[2]]} /\ job.pod # 0
  /\ UNCHANGED <<Podcasts, Shelves>>

Files(k) ==
  /\ jobs[k].step = "seen"
  /\ recordings' = [recordings EXCEPT ![k[2]] = jobs[k].pod]
  /\ \E job \in Job : Goes(k, job) /\ job.step = "filed"
  /\ UNCHANGED <<Podcasts, links>>

Links(k) ==
  /\ jobs[k].step = "filed"
  /\ links' = links \cup {k}
  /\ \E job \in Job : Goes(k, job) /\ job.step = "linked"
  /\ UNCHANGED <<Podcasts, recordings>>

JobStep(k) ==
  \/ jobs[k].step = "none" /\ Moves(k, "waiting")
  \/ jobs[k].step # "none" /\ Moves(k, "unfiled")
  \/ jobs[k].step = "chosen" /\ Moves(k, "seen")
  \/ Chooses(k) \/ Files(k) \/ Links(k)

LEMMA JobSteps ==
  ASSUME TypeOK, NEW k \in JobKeys, Finish(k) \/ Save(k) \/ GiveUp(k)
  PROVE  JobStep(k)
<1>1. jobs[k] \in Job /\ k[1] \in Users /\ k[2] \in RecordingIDs
  BY DEF TypeOK, JobKeys
<1>2. ASSUME NEW s \in {"waiting", "unfiled"}, Give(k, s), UNCHANGED <<Podcasts, Shelves>>
      PROVE  Moves(k, s)
  <2> DEFINE job == [jobs[k] EXCEPT !.step = s]
  <2>1. job \in Job /\ job.step = s /\ job.pod = jobs[k].pod
    BY <1>1, <1>2 DEF Job
  <2>2. Goes(k, job)
    BY <1>2 DEF Give, Goes
  <2> HIDE DEF job
  <2> QED BY <1>2, <2>1, <2>2 DEF Moves
<1>3. CASE Finish(k)
  BY <1>2, <1>3 DEF Finish, JobStep, Give
<1>4. CASE GiveUp(k)
  BY <1>2, <1>4 DEF GiveUp, JobStep
<1>5. CASE ChoosePod(k)
  <2>1. PICK pod \in PodOf(k[1]) \cup {recordings[k[2]]} :
          IF pod = 0 THEN Give(k, "unfiled")
          ELSE jobs' = [jobs EXCEPT ![k].step = "chosen", ![k].pod = pod]
    BY <1>5 DEF ChoosePod
  <2>2. jobs[k].step = "waiting" /\ UNCHANGED <<Podcasts, Shelves>>
    BY <1>5 DEF ChoosePod
  <2>3. CASE pod = 0
    BY <1>2, <2>1, <2>2, <2>3 DEF JobStep
  <2>4. CASE pod # 0
    <3> DEFINE job == [jobs[k] EXCEPT !.step = "chosen", !.pod = pod]
    <3>1. pod \in 0..MaxPods
      BY <1>1, PodFound DEF TypeOK
    <3>2. job \in Job /\ job.step = "chosen" /\ job.pod = pod
      BY <1>1, <3>1 DEF Job
    <3>3. Goes(k, job)
      BY <2>1, <2>4 DEF Goes, TypeOK
    <3> HIDE DEF job
    <3> QED BY <2>2, <2>4, <3>2, <3>3 DEF Chooses, JobStep
  <2> QED BY <2>3, <2>4
<1>6. CASE SeekRow(k)
  <2> DEFINE job == [jobs[k] EXCEPT !.step = "seen", !.saw = recordings[k[2]] # 0]
  <2>1. job \in Job /\ job.step = "seen" /\ job.pod = jobs[k].pod
    BY <1>1 DEF Job
  <2>2. Goes(k, job)
    BY <1>6 DEF SeekRow, Goes, TypeOK
  <2> HIDE DEF job
  <2> QED BY <1>6, <2>1, <2>2 DEF SeekRow, Moves, JobStep
<1>7. CASE FileRecording(k)
  <2>1. CASE jobs[k].saw \/ recordings[k[2]] = 0
    <3> DEFINE job == [jobs[k] EXCEPT !.step = "filed"]
    <3>1. job \in Job /\ job.step = "filed"
      BY <1>1 DEF Job
    <3>2. Goes(k, job)
      BY <1>7, <2>1 DEF FileRecording, Give, Goes
    <3> HIDE DEF job
    <3> QED BY <1>7, <2>1, <3>1, <3>2 DEF FileRecording, Files, JobStep
  <2>2. CASE ~(jobs[k].saw \/ recordings[k[2]] = 0)
    BY <1>2, <1>7, <2>2 DEF FileRecording, JobStep, Shelves
  <2> QED BY <2>1, <2>2
<1>8. CASE SaveLink(k)
  <2> DEFINE job == [jobs[k] EXCEPT !.step = "linked"]
  <2>1. job \in Job /\ job.step = "linked"
    BY <1>1 DEF Job
  <2>2. Goes(k, job)
    BY <1>8 DEF SaveLink, Give, Goes
  <2> HIDE DEF job
  <2> QED BY <1>8, <2>1, <2>2 DEF SaveLink, Links, JobStep
<1> QED BY <1>3, <1>4, <1>5, <1>6, <1>7, <1>8 DEF Save

LEMMA TypeStep ==
  ASSUME TypeOK, [Next]_vars
  PROVE  TypeOK'
<1>1. ASSUME NEW u \in Users, StorePod(u) PROVE TypeOK'
  <2>1. pods' \in Seq(Users) /\ Len(pods') = Len(pods) + 1
    BY <1>1, PodsGrow DEF StorePod
  <2> QED BY <1>1, <2>1, PodsAssumption DEF StorePod, TypeOK, Shelves
<1>2. ASSUME NEW u \in Users, NEW x \in PodcastIDs, RegisterHost(u, x) PROVE TypeOK'
  BY <1>2 DEF RegisterHost, TypeOK, Shelves
<1>3. ASSUME NEW x \in PodcastIDs, Expire(x) PROVE TypeOK'
  BY <1>3 DEF Expire, TypeOK, Shelves
<1>4. ASSUME NEW k \in JobKeys, Finish(k) \/ Save(k) \/ GiveUp(k) PROVE TypeOK'
  <2>1. JobStep(k) /\ jobs[k] \in Job
    BY <1>4, JobSteps DEF TypeOK
  <2>2. jobs' \in [JobKeys -> Job]
    BY <2>1, GoesIs DEF JobStep, Moves, Chooses, Files, Links
  <2>3. recordings' \in [RecordingIDs -> 0..MaxPods] /\ links' \subseteq JobKeys
    BY <2>1 DEF JobStep, Moves, Chooses, Files, Links, Shelves, TypeOK, Job, JobKeys
  <2>4. UNCHANGED Podcasts
    BY <2>1 DEF JobStep, Moves, Chooses, Files, Links
  <2> QED BY <2>2, <2>3, <2>4 DEF TypeOK, Podcasts
<1>5. CASE UNCHANGED vars
  BY <1>5 DEF vars, TypeOK
<1> QED BY <1>1, <1>2, <1>3, <1>4, <1>5 DEF Next

-----------------------------------------------------------------------------
(* Where recordings are filed.                                             *)

\* A job moves on, the rows and pods others rely on stay.
LEMMA StaysAtWork ==
  ASSUME TypeOK, NEW k \in JobKeys, JobStep(k), NEW l \in JobKeys, jobs[l].step # "none"
  PROVE  jobs'[l].step # "none"
<1>1. CASE l # k
  BY <1>1, GoesIs DEF JobStep, Moves, Chooses, Files, Links
<1>2. CASE l = k
  BY <1>2, GoesIs DEF JobStep, Moves, Chooses, Files, Links
<1> QED BY <1>1, <1>2

LEMMA StaysParticipant ==
  ASSUME TypeOK, [Next]_vars, NEW rec \in RecordingIDs, NEW n, PodOfParticipant(n, rec)
  PROVE  PodOfParticipant(n, rec)'
<1>1. n \in Pods /\ pods[n] \in Users /\ jobs[<<pods[n], rec>>].step # "none"
  BY DEF PodOfParticipant, Pods, TypeOK
<1>2. <<pods[n], rec>> \in JobKeys
  BY <1>1 DEF JobKeys
<1>3. ASSUME NEW u \in Users, StorePod(u) PROVE PodOfParticipant(n, rec)'
  <2>1. CASE pods' = Append(pods, u)
    BY <1>1, <1>3, <2>1, PodsGrow DEF StorePod, PodOfParticipant
  <2> QED BY <1>3, <2>1 DEF StorePod
<1>4. ASSUME NEW k \in JobKeys, Finish(k) \/ Save(k) \/ GiveUp(k) PROVE PodOfParticipant(n, rec)'
  <2>1. JobStep(k)
    BY <1>4, JobSteps
  <2>2. pods' = pods
    BY <2>1 DEF JobStep, Moves, Chooses, Files, Links, Podcasts
  <2> QED BY <1>1, <1>2, <2>1, <2>2, StaysAtWork DEF PodOfParticipant, Pods
<1>5. CASE UNCHANGED <<pods, jobs>>
  BY <1>1, <1>5 DEF PodOfParticipant, Pods
<1>6. (UNCHANGED vars) => UNCHANGED <<pods, jobs>>
  BY DEF vars
<1>7. ASSUME NEW u \in Users, NEW x \in PodcastIDs, RegisterHost(u, x)
      PROVE  UNCHANGED <<pods, jobs>>
  BY <1>7 DEF RegisterHost
<1>8. ASSUME NEW x \in PodcastIDs, Expire(x) PROVE UNCHANGED <<pods, jobs>>
  BY <1>8 DEF Expire
<1> QED BY <1>3, <1>4, <1>5, <1>6, <1>7, <1>8 DEF Next

\* What a step does to rows, links and jobs.
LEMMA ShelfSteps ==
  ASSUME TypeOK, [Next]_vars
  PROVE  (UNCHANGED <<recordings, links, jobs>>) \/ \E k \in JobKeys : JobStep(k)
<1>1. ASSUME NEW u \in Users, StorePod(u) \/ \E x \in PodcastIDs : RegisterHost(u, x)
      PROVE  UNCHANGED <<recordings, links, jobs>>
  BY <1>1 DEF StorePod, RegisterHost, Shelves
<1>2. ASSUME NEW x \in PodcastIDs, Expire(x) PROVE UNCHANGED <<recordings, links, jobs>>
  BY <1>2 DEF Expire, Shelves
<1>3. ASSUME NEW k \in JobKeys, Finish(k) \/ Save(k) \/ GiveUp(k) PROVE JobStep(k)
  BY <1>3, JobSteps
<1>4. (UNCHANGED vars) => UNCHANGED <<recordings, links, jobs>>
  BY DEF vars
<1> QED BY <1>1, <1>2, <1>3, <1>4 DEF Next

LEMMA FiledStep ==
  ASSUME TypeOK, FiledWithParticipant, ChosenOfParticipant, [Next]_vars
  PROVE  FiledWithParticipant'
<1> SUFFICES ASSUME NEW rec \in RecordingIDs, NEW n, n = recordings'[rec], n # 0
             PROVE  PodOfParticipant(n, rec)'
  BY DEF FiledWithParticipant, PodOfParticipant
<1>1. CASE n = recordings[rec]
  BY <1>1, StaysParticipant DEF FiledWithParticipant
<1>2. ASSUME NEW k \in JobKeys, Files(k), n # recordings[rec]
      PROVE  PodOfParticipant(n, rec)'
  <2>1. k[2] = rec /\ n = jobs[k].pod
    BY <1>2 DEF Files, TypeOK
  <2>2. PodOfParticipant(n, rec)
    BY <1>2, <2>1 DEF Files, ChosenOfParticipant
  <2> QED BY <2>2, StaysParticipant
<1> QED BY <1>1, <1>2, ShelfSteps DEF JobStep, Moves, Chooses, Links, Shelves

LEMMA ChosenStep ==
  ASSUME TypeOK, FiledWithParticipant, ChosenOfParticipant, [Next]_vars
  PROVE  ChosenOfParticipant'
<1> SUFFICES ASSUME NEW l \in JobKeys, jobs'[l].step \in {"chosen", "seen"}, NEW n, n = jobs'[l].pod
             PROVE  PodOfParticipant(n, l[2])'
  BY DEF ChosenOfParticipant, PodOfParticipant
<1>1. l[1] \in Users /\ l[2] \in RecordingIDs /\ l = <<l[1], l[2]>>
  BY DEF JobKeys
<1>2. SUFFICES PodOfParticipant(n, l[2])
  BY <1>1, StaysParticipant
<1>3. CASE jobs'[l] = jobs[l]
  BY <1>3 DEF ChosenOfParticipant
<1>4. ASSUME NEW k \in JobKeys, JobStep(k), jobs'[l] # jobs[l] PROVE PodOfParticipant(n, l[2])
  <2>1. l = k
    BY <1>4, GoesIs DEF JobStep, Moves, Chooses, Files, Links
  <2>2. CASE jobs[k].step = "chosen" /\ Moves(k, "seen")
    BY <2>1, <2>2, GoesIs DEF Moves, ChosenOfParticipant
  <2>3. CASE Chooses(k)
    <3>1. n \in PodOf(l[1]) \cup {recordings[l[2]]} /\ n # 0 /\ jobs[l].step # "none"
      BY <2>1, <2>3, GoesIs DEF Chooses
    <3>2. CASE n = recordings[l[2]]
      BY <1>1, <3>1, <3>2 DEF FiledWithParticipant
    <3>3. CASE n \in PodOf(l[1])
      BY <1>1, <3>1, <3>3, PodFound DEF PodOfParticipant
    <3> QED BY <3>1, <3>2, <3>3
  <2>4. CASE Moves(k, "waiting") \/ Moves(k, "unfiled") \/ Files(k) \/ Links(k)
    BY <2>1, <2>4, GoesIs DEF Moves, Files, Links
  <2> QED BY <1>4, <2>2, <2>3, <2>4 DEF JobStep
<1> QED BY <1>3, <1>4, ShelfSteps

LEMMA LinkedStep ==
  ASSUME TypeOK, ChosenOfParticipant, LinkedIsFiled, [Next]_vars
  PROVE  LinkedIsFiled'
<1>1. ASSUME NEW k \in JobKeys, JobStep(k), NEW rec \in RecordingIDs, recordings[rec] # 0
      PROVE  recordings'[rec] # 0
  <2>1. CASE Files(k)
    <3>1. jobs[k].pod \in Pods /\ k[2] \in RecordingIDs
      BY <2>1 DEF Files, ChosenOfParticipant, PodOfParticipant, JobKeys
    <3>2. jobs[k].pod # 0
      BY <3>1 DEF Pods, TypeOK
    <3> QED BY <1>1, <2>1, <3>2 DEF Files, TypeOK
  <2>2. CASE recordings' = recordings
    BY <1>1, <2>2
  <2> QED BY <1>1, <2>1, <2>2 DEF JobStep, Moves, Chooses, Links, Shelves
<1>2. ASSUME NEW k \in JobKeys, JobStep(k), NEW l \in links'
      PROVE  recordings'[l[2]] # 0
  <2>1. l[2] \in RecordingIDs /\ recordings[l[2]] # 0
    <3>1. CASE l \in links
      BY <3>1 DEF LinkedIsFiled, TypeOK, JobKeys
    <3>2. CASE l = k /\ jobs[k].step = "filed"
      BY <3>2 DEF LinkedIsFiled, JobKeys
    <3> QED BY <1>2, <3>1, <3>2 DEF JobStep, Moves, Chooses, Files, Links, Shelves
  <2> QED BY <1>1, <1>2, <2>1
<1>3. ASSUME NEW k \in JobKeys, JobStep(k), NEW l \in JobKeys, jobs'[l].step = "filed"
      PROVE  recordings'[l[2]] # 0
  <2>1. l[2] \in RecordingIDs
    BY DEF JobKeys
  <2>2. CASE jobs[l].step = "filed"
    BY <1>1, <1>3, <2>1, <2>2 DEF LinkedIsFiled
  <2>3. CASE jobs[l].step # "filed"
    <3>1. l = k
      BY <1>3, <2>3, GoesIs DEF JobStep, Moves, Chooses, Files, Links
    <3>2. Files(l)
      BY <1>3, <2>3, <3>1, GoesIs DEF JobStep, Moves, Chooses, Links
    <3>3. jobs[l].pod \in Pods
      BY <3>2 DEF Files, ChosenOfParticipant, PodOfParticipant
    <3>4. recordings'[l[2]] = jobs[l].pod
      BY <2>1, <3>2 DEF Files, TypeOK
    <3> QED BY <3>3, <3>4 DEF Pods, TypeOK
  <2> QED BY <2>2, <2>3
<1>4. CASE UNCHANGED <<recordings, links, jobs>>
  BY <1>4 DEF LinkedIsFiled
<1>5. ASSUME NEW k \in JobKeys, JobStep(k) PROVE LinkedIsFiled'
  BY <1>2, <1>3, <1>5 DEF LinkedIsFiled
<1> QED BY <1>4, <1>5, ShelfSteps

-----------------------------------------------------------------------------
(* Hosts and their pods.                                                   *)

LEMMA HostSteps ==
  ASSUME [Next]_vars
  PROVE  \/ UNCHANGED <<pods, creating, hosts, answered>>
         \/ \E u \in Users : StorePod(u) \/ \E x \in PodcastIDs : RegisterHost(u, x)
         \/ \E x \in PodcastIDs : Expire(x)
<1>1. (UNCHANGED vars) => UNCHANGED <<pods, creating, hosts, answered>>
  BY DEF vars
<1>2. ASSUME NEW k \in JobKeys, Finish(k) \/ Save(k) \/ GiveUp(k)
      PROVE  UNCHANGED <<pods, creating, hosts, answered>>
  BY <1>2 DEF Finish, Save, GiveUp, ChoosePod, SeekRow, FileRecording, SaveLink, Podcasts
<1> QED BY <1>1, <1>2 DEF Next

LEMMA HostsAnsweredStep ==
  ASSUME TypeOK, HostsAnswered, [Next]_vars
  PROVE  HostsAnswered'
<1>1. ASSUME NEW u \in Users, NEW x \in PodcastIDs, RegisterHost(u, x) PROVE HostsAnswered'
  <2>1. CASE UNCHANGED <<hosts, answered>>
    BY <2>1 DEF HostsAnswered
  <2>2. CASE /\ hosts' = [hosts EXCEPT ![x] = u]
             /\ answered' = [answered EXCEPT ![u] = @ \cup {x}]
    BY <2>2, NoneIsNoUser DEF HostsAnswered, TypeOK
  <2> QED BY <1>1, <2>1, <2>2 DEF RegisterHost
<1>2. ASSUME NEW x \in PodcastIDs, Expire(x) PROVE HostsAnswered'
  BY <1>2 DEF Expire, HostsAnswered, TypeOK
<1>3. CASE UNCHANGED <<hosts, answered>>
  BY <1>3 DEF HostsAnswered
<1> QED BY <1>1, <1>2, <1>3, HostSteps DEF StorePod

LEMMA PodsFinite ==
  ASSUME TypeOK, NEW u \in Users
  PROVE  IsFiniteSet(GetAllByHost(u)) /\ Cardinality(GetAllByHost(u)) \in Nat
<1>1. IsFiniteSet(1..Len(pods))
  BY FS_Interval DEF TypeOK
<1>2. GetAllByHost(u) \subseteq 1..Len(pods)
  BY DEF GetAllByHost, Pods
<1>3. IsFiniteSet(GetAllByHost(u))
  BY <1>1, <1>2, FS_Subset
<1> QED BY <1>3, FS_CardinalityType

LEMMA ShareOf ==
  ASSUME NEW u
  PROVE  /\ u \in creating => Cardinality({u} \cap creating) = 1
         /\ u \notin creating => Cardinality({u} \cap creating) = 0
<1>1. u \in creating => {u} \cap creating = {u}
  OBVIOUS
<1>2. u \notin creating => {u} \cap creating = {}
  OBVIOUS
<1> QED BY <1>1, <1>2, FS_Singleton, FS_EmptySet

LEMMA PodsEnoughStep ==
  ASSUME TypeOK, PodsEnough, [Next]_vars
  PROVE  PodsEnough'
<1> DEFINE Enough(v) == /\ IsFiniteSet(answered[v])
                        /\ Cardinality(answered[v]) + Cardinality({v} \cap creating)
                             <= Cardinality(GetAllByHost(v))
<1>1. ASSUME NEW v \in Users PROVE Enough(v)
  BY DEF PodsEnough
<1>2. ASSUME NEW v \in Users,
             answered'[v] = answered[v], {v} \cap creating' = {v} \cap creating,
             GetAllByHost(v)' = GetAllByHost(v)
      PROVE  Enough(v)'
  BY <1>1, <1>2
<1>3. pods' = pods => \A v \in Users : GetAllByHost(v)' = GetAllByHost(v)
  BY DEF GetAllByHost, Pods
<1>4. ASSUME NEW u \in Users, StorePod(u), NEW v \in Users PROVE Enough(v)'
  <2>1. pods' = Append(pods, u) /\ u \notin creating /\ creating' = creating \cup {u} /\ answered' = answered
    BY <1>4 DEF StorePod
  <2>2. CASE v # u
    <3>1. GetAllByHost(v)' = GetAllByHost(v)
      BY <2>1, <2>2, PodsGrow DEF GetAllByHost
    <3> QED BY <1>2, <2>1, <2>2, <3>1
  <2>3. CASE v = u
    <3>1. GetAllByHost(u)' = GetAllByHost(u) \cup {Len(pods) + 1} /\ Len(pods) + 1 \notin GetAllByHost(u)
      BY <2>1, PodsGrow DEF GetAllByHost
    <3>2. Cardinality(GetAllByHost(u)') = Cardinality(GetAllByHost(u)) + 1
      BY <3>1, PodsFinite, FS_AddElement
    <3>3. Cardinality({u} \cap creating) = 0 /\ Cardinality({u} \cap creating') = 1
      <4>1. {u} \cap creating' = {u}
        BY <2>1
      <4> QED BY <2>1, <4>1, ShareOf, FS_Singleton
    <3>4. Cardinality(answered[u]) \in Nat /\ Cardinality(GetAllByHost(u)) \in Nat
      BY <1>1, PodsFinite, FS_CardinalityType
    <3>5. IsFiniteSet(answered'[u]) /\ Cardinality(answered'[u]) = Cardinality(answered[u])
      BY <1>1, <2>1
    <3>6. Cardinality(answered[u]) <= Cardinality(GetAllByHost(u))
      BY <1>1, <3>3, <3>4
    <3>7. Cardinality(answered'[u]) + Cardinality({u} \cap creating') <= Cardinality(GetAllByHost(u)')
      BY <3>2, <3>3, <3>4, <3>5, <3>6
    <3> QED BY <2>3, <3>5, <3>7
  <2> QED BY <2>2, <2>3
<1>5. ASSUME NEW u \in Users, NEW x \in PodcastIDs, RegisterHost(u, x), NEW v \in Users PROVE Enough(v)'
  <2>1. u \in creating /\ creating' = creating \ {u} /\ GetAllByHost(v)' = GetAllByHost(v)
    BY <1>3, <1>5 DEF RegisterHost
  <2>2. CASE v # u
    <3>1. answered'[v] = answered[v]
      BY <1>5, <2>2 DEF RegisterHost, TypeOK
    <3> QED BY <1>2, <2>1, <2>2, <3>1
  <2>3. CASE v = u
    <3>1. {u} \cap creating' = {}
      BY <2>1
    <3>2. Cardinality({u} \cap creating) = 1 /\ Cardinality({u} \cap creating') = 0
      BY <2>1, <3>1, ShareOf, FS_EmptySet
    <3>3. Cardinality(answered[u]) \in Nat /\ Cardinality(GetAllByHost(u)) \in Nat
      BY <1>1, PodsFinite, FS_CardinalityType
    <3>4. Cardinality(answered[u]) + 1 <= Cardinality(GetAllByHost(u))
      BY <1>1, <3>2
    <3>5. answered'[u] = answered[u] \/ answered'[u] = answered[u] \cup {x}
      BY <1>5 DEF RegisterHost, TypeOK
    <3>6. IsFiniteSet(answered'[u]) /\ Cardinality(answered'[u]) \in Nat
            /\ Cardinality(answered'[u]) <= Cardinality(answered[u]) + 1
      <4>1. IsFiniteSet(answered[u])
        BY <1>1
      <4>2. CASE answered'[u] = answered[u]
        BY <3>3, <4>1, <4>2
      <4>3. CASE answered'[u] = answered[u] \cup {x}
        <5>1. /\ IsFiniteSet(answered[u] \cup {x})
              /\ Cardinality(answered[u] \cup {x})
                   = IF x \in answered[u] THEN Cardinality(answered[u]) ELSE Cardinality(answered[u]) + 1
          BY <4>1, FS_AddElement
        <5> QED BY <3>3, <4>3, <5>1
      <4> QED BY <3>5, <4>2, <4>3
    <3>7. Cardinality(answered'[u]) + Cardinality({u} \cap creating') <= Cardinality(GetAllByHost(u)')
      BY <2>1, <2>3, <3>2, <3>3, <3>4, <3>6
    <3> QED BY <2>3, <3>6, <3>7
  <2> QED BY <2>2, <2>3
<1>6. ASSUME UNCHANGED <<pods, creating, answered>>, NEW v \in Users PROVE Enough(v)'
  BY <1>2, <1>3, <1>6
<1>7. ASSUME NEW x \in PodcastIDs, Expire(x) PROVE UNCHANGED <<pods, creating, answered>>
  BY <1>7 DEF Expire
<1>8. ASSUME NEW v \in Users PROVE Enough(v)'
  BY <1>4, <1>5, <1>6, <1>7, HostSteps
<1>9. (\A v \in Users : Enough(v))' => PodsEnough'
  BY DEF PodsEnough
<1> QED BY <1>8, <1>9

-----------------------------------------------------------------------------
(* The theorems.                                                           *)

\* Whatever fails: the tables keep their types, a recording is filed under the
\* pod of somebody who took part, what is linked is filed, and hosts have pods.
THEOREM LibraryInvariantHolds == Spec => []LibraryInvariant
<1>1. Init => LibraryInvariant
  <2> SUFFICES ASSUME Init PROVE LibraryInvariant
    OBVIOUS
  <2>1. TypeOK
    BY PodsAssumption DEF Init, TypeOK, Job, NoJob
  <2>2. \A k \in JobKeys : jobs[k].step = "none"
    BY DEF Init, NoJob
  <2>3. FiledWithParticipant /\ ChosenOfParticipant /\ LinkedIsFiled /\ HostsAnswered
    BY <2>2 DEF Init, FiledWithParticipant, ChosenOfParticipant, LinkedIsFiled, HostsAnswered
  <2>4. ASSUME NEW u \in Users
        PROVE  /\ IsFiniteSet(answered[u])
               /\ Cardinality(answered[u]) + Cardinality({u} \cap creating) <= Cardinality(GetAllByHost(u))
    <3>1. answered[u] = {} /\ u \notin creating
      BY DEF Init
    <3>2. Cardinality(answered[u]) = 0 /\ Cardinality({u} \cap creating) = 0 /\ IsFiniteSet(answered[u])
      BY <3>1, ShareOf, FS_EmptySet
    <3> QED BY <2>1, <3>2, PodsFinite
  <2> QED BY <2>1, <2>3, <2>4 DEF LibraryInvariant, PodsEnough
<1>2. LibraryInvariant /\ [Next]_vars => LibraryInvariant'
  BY TypeStep, FiledStep, ChosenStep, LinkedStep, HostsAnsweredStep, PodsEnoughStep DEF LibraryInvariant
<1> QED BY <1>1, <1>2, PTL DEF Spec

\* The tables, the keys and the jobs keep their types.
THEOREM LibraryTypeInvariant == Spec => []TypeOK
<1>1. LibraryInvariant => TypeOK
  BY DEF LibraryInvariant
<1> QED BY <1>1, LibraryInvariantHolds, PTL

\* Whoever opens a podcast finds its host, and a host has as many pods as
\* podcasts, although Postgres and Redis are written one after the other.
THEOREM HostHasPodsHolds == Spec => []HostHasPods
<1>1. LibraryInvariant => HostHasPods
  BY DEF LibraryInvariant, HostsAnswered, PodsEnough, HostHasPods, CheckPodcast, GetPodcastHost
<1> QED BY <1>1, LibraryInvariantHolds, PTL

\* A saved video is on the page of one user, who took part in the recording,
\* however the jobs of its participants race for the row.
THEOREM ShownToOneParticipantHolds == Spec => []ShownToOneParticipant
<1>1. LibraryInvariant => ShownToOneParticipant
  <2> SUFFICES ASSUME LibraryInvariant, NEW k \in links
               PROVE  \E u \in Users :
                        /\ jobs[<<u, k[2]>>].step # "none"
                        /\ \A v \in Users : k \in GetMyPodcasts(v) <=> v = u
    BY DEF ShownToOneParticipant
  <2> DEFINE n == recordings[k[2]]
             u == pods[n]
  <2>1. k[2] \in RecordingIDs /\ n # 0
    BY DEF LibraryInvariant, LinkedIsFiled, TypeOK, JobKeys
  <2>2. PodOfParticipant(n, k[2])
    BY <2>1 DEF LibraryInvariant, FiledWithParticipant
  <2>3. n \in Pods /\ u \in Users /\ jobs[<<u, k[2]>>].step # "none"
    BY <2>2 DEF PodOfParticipant, LibraryInvariant, TypeOK, Pods
  <2>4. ASSUME NEW m PROVE k \in GetPodcastRecordings(m) <=> m = n
    <3>1. k \in GetPodcastRecordings(m) <=> \E rec \in RecordingIDs : recordings[rec] = m /\ k[2] = rec
      BY DEF GetPodcastRecordings, GetByPodID, GetUserLinks
    <3> QED BY <2>1, <3>1
  <2>5. ASSUME NEW v \in Users PROVE k \in GetMyPodcasts(v) <=> v = u
    <3>1. k \in GetMyPodcasts(v) <=> \E m \in Pods : pods[m] = v /\ k \in GetPodcastRecordings(m)
      BY DEF GetMyPodcasts, GetAllByHost
    <3> QED BY <2>3, <2>4, <3>1
  <2> QED BY <2>3, <2>5
<1> QED BY <1>1, LibraryInvariantHolds, PTL

=============================================================================
