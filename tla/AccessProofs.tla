---------------------------- MODULE AccessProofs ----------------------------
(***************************************************************************)
(* Proofs about Access: the permission check beside the signaling server,  *)
(* for every set of clients, users, podcasts and recordings and every      *)
(* combination of faults.                                                  *)
(***************************************************************************)
EXTENDS Access, SignalingProofs

\* A record that is absent holds nothing.
AbsentIsNone == \A r \in RecordingIDs : recordings[r].status = "absent" => recordings[r] = NoRecord

\* Whose request waits in the podcast's sessions was not on the record when it
\* was read, and a record that runs is still the one that was read.
ChecksKnow ==
  \A u \in Askers : checks[u].step \in Working =>
    /\ checks[u].recording \in issued
    /\ checks[u].step = "in podcast" =>
         LET record == recordings[checks[u].recording]
         IN ~(record.status = "active" /\ u \in record.participants)

-----------------------------------------------------------------------------
(* The signaling server is not disturbed.                                  *)

\* The check only reads: what holds of the signaling server alone holds beside
\* any number of requests.
THEOREM AccessOnlyReads == AccessSpec => Spec
<1>1. AccessInit => Init
  BY DEF AccessInit
<1>2. [AccessNext]_allVars => [Next]_vars
  BY DEF AccessNext, allVars, Reads, Ask, Participates, InPodcast, IsHost, OfPodcast, ReadRefused
<1> QED BY <1>1, <1>2, PTL DEF AccessSpec, Spec

-----------------------------------------------------------------------------
(* The records.                                                            *)

LEMMA AbsentStep ==
  ASSUME SignalingInvariant, [Next]_vars, AbsentIsNone
  PROVE  AbsentIsNone'
<1>1. ASSUME NEW c \in Clients, NEW r \in RecordingIDs, StartRecording(c, r) PROVE AbsentIsNone'
  BY <1>1 DEF StartRecording, CreateRecordingSession, Outcomes, AbsentIsNone, SignalingInvariant, TypeOK
<1>2. ASSUME NEW c \in Clients, StopRecording(c) PROVE AbsentIsNone'
  <2> DEFINE s == recording[podcastOf[c]]
             ended == [ending.record EXCEPT !.status = "ended"]
  <2>1. s \in RecordingIDs /\ recordings \in [RecordingIDs -> Record]
    BY <1>2, StopFinds DEF SignalingInvariant, TypeOK
  <2>2. recordings' \in {recordings, [recordings EXCEPT ![s] = ended]}
    BY <1>2 DEF StopRecording, EndRecordingSession, Outcomes
  <2>3. ended.status = "ended"
    BY DEF SignalingInvariant, TypeOK, Record
  <2> HIDE DEF s, ended
  <2> QED BY <2>1, <2>2, <2>3 DEF AbsentIsNone
<1>3. ASSUME NEW c \in Clients,
             \/ Connect(c) \/ Greet(c) \/ Disconnect(c) \/ LeavePodcast(c) \/ Ready(c)
             \/ \E p \in Podcasts : JoinRefused(c, p) \/ JoinPodcast(c, p)
             \/ BeginStop(c)
      PROVE  AbsentIsNone'
  BY <1>3 DEF Connect, Greet, Disconnect, LeavePodcast, Ready, JoinRefused, JoinPodcast, BeginStop,
              redisVars, AbsentIsNone
<1>4. CASE Crash \/ UNCHANGED vars
  BY <1>4 DEF Crash, vars, redisVars, AbsentIsNone
<1>5. CASE RedisRestart \/ \E s \in RecordingIDs : RecordingExpires(s)
  BY <1>5 DEF RedisRestart, RecordingExpires, AbsentIsNone, SignalingInvariant, TypeOK
<1> QED BY <1>1, <1>2, <1>3, <1>4, <1>5 DEF Next, ClientStep, Fault

LEMMA RecordGoesOn ==
  ASSUME SignalingInvariant, AbsentIsNone, [Next]_vars, NEW r \in issued,
         recordings'[r].status = "active"
  PROVE  recordings'[r] = recordings[r]
<1>1. r \in RecordingIDs /\ recordings[r] \in Record
  BY DEF SignalingInvariant, TypeOK
<1>2. Final(r)
  BY <1>1, FinalStep
<1>3. NoRecord.status = "absent"
  BY DEF NoRecord
<1>4. recordings[r].status = "absent" => recordings[r] = NoRecord
  BY <1>1 DEF AbsentIsNone
<1>5. recordings[r].status \in {"absent", "active", "ended"}
  BY <1>1 DEF Record
<1>6. [recordings[r] EXCEPT !.status = "ended"].status = "ended"
  BY <1>1 DEF Record
<1> QED BY <1>2, <1>3, <1>4, <1>5, <1>6 DEF Final

-----------------------------------------------------------------------------
(* The checks.                                                             *)

LEMMA OutcomesAre ==
  /\ Outcome("granted").step = "granted" /\ Outcome("refused").step = "refused"
  /\ "granted" \notin Working /\ "refused" \notin Working
BY DEF Outcome, Working

LEMMA AtWork ==
  ASSUME AccessTypeOK, NEW u \in Askers, checks[u].step \in Working
  PROVE  checks[u] \in Check
<1>1. checks[u] \in Check \cup {Outcome("granted"), Outcome("refused")}
  BY DEF AccessTypeOK
<1> QED BY <1>1, OutcomesAre

LEMMA AccessTypeStep ==
  ASSUME AccessTypeOK, TypeOK, [AccessNext]_allVars
  PROVE  AccessTypeOK'
<1>1. ASSUME NEW u \in Askers, checks[u].step \in Working PROVE checks[u] \in Check
  BY <1>1, AtWork
<1>0. unanswered' \subseteq Askers
  BY DEF AccessTypeOK, AccessNext, allVars, Reads, Ask, Participates, InPodcast, IsHost, OfPodcast,
         ReadRefused, Unanswered
<1>2. ASSUME NEW u \in Askers, End(u, "granted") \/ End(u, "refused") PROVE AccessTypeOK'
  BY <1>0, <1>2 DEF End, AccessTypeOK
<1>3. ASSUME NEW u \in Askers, NEW q \in Check, checks' = [checks EXCEPT ![u] = q] PROVE AccessTypeOK'
  BY <1>0, <1>3 DEF AccessTypeOK
<1>4. ASSUME NEW u \in Askers, NEW step \in Working, To(u, step), checks[u].step \in Working
      PROVE  AccessTypeOK'
  <2>1. [checks[u] EXCEPT !.step = step] \in Check
    BY <1>1, <1>4 DEF Check
  <2>2. checks' = [checks EXCEPT ![u] = [checks[u] EXCEPT !.step = step]]
    BY <1>4 DEF To
  <2> QED BY <1>3, <2>1, <2>2
<1>5. ASSUME NEW u \in Askers, NEW p \in Podcasts, NEW r \in RecordingIDs,
             NEW final \in BOOLEAN, NEW late \in BOOLEAN, Ask(u, p, r, final, late)
      PROVE  AccessTypeOK'
  <2>1. [step |-> "participant", again |-> FALSE, podcast |-> p, recording |-> r,
         recorded |-> None] \in Check
    BY DEF Check, Working
  <2> QED BY <1>2, <1>3, <1>5, <2>1 DEF Ask
<1>6. ASSUME NEW u \in Askers, Participates(u) PROVE AccessTypeOK'
  <2> DEFINE recorded == recordings[checks[u].recording].podcast
             q == [checks[u] EXCEPT !.step = "in podcast", !.recorded = recorded]
  <2>1. checks[u] \in Check
    BY <1>1, <1>6 DEF Participates, Working
  <2>2. recorded \in Podcasts \cup {None}
    BY <2>1 DEF Check, TypeOK, Record
  <2>3. q \in Check
    BY <2>1, <2>2 DEF Check, Working
  <2>4. \/ End(u, "granted") \/ End(u, "refused") \/ To(u, "host")
        \/ checks' = [checks EXCEPT ![u] = q]
    BY <1>6 DEF Participates, Denied
  <2> HIDE DEF q
  <2> QED BY <1>2, <1>3, <1>4, <2>1, <2>3, <2>4, <1>6 DEF Participates, Working
<1>7. ASSUME NEW u \in Askers, InPodcast(u) \/ IsHost(u) PROVE AccessTypeOK'
  <2>1. \/ End(u, "granted") \/ End(u, "refused") \/ To(u, "host") \/ To(u, "of podcast")
    BY <1>7 DEF InPodcast, IsHost, Denied
  <2>2. checks[u].step \in Working /\ "host" \in Working /\ "of podcast" \in Working
    BY <1>7 DEF InPodcast, IsHost, Working
  <2> QED BY <1>2, <1>4, <2>1, <2>2
<1>8. ASSUME NEW u \in Askers, OfPodcast(u) PROVE AccessTypeOK'
  <2> DEFINE q == [checks[u] EXCEPT !.step = "participant", !.again = TRUE]
  <2>1. checks[u] \in Check
    BY <1>1, <1>8 DEF OfPodcast, Working
  <2>2. q \in Check
    BY <2>1 DEF Check, Working
  <2>3. End(u, "refused") \/ checks' = [checks EXCEPT ![u] = q]
    BY <1>8 DEF OfPodcast
  <2> HIDE DEF q
  <2> QED BY <1>2, <1>3, <2>2, <2>3
<1>9. CASE UNCHANGED checks
  BY <1>0, <1>9 DEF AccessTypeOK
<1>10. ASSUME NEW u \in Askers, ReadRefused(u) PROVE AccessTypeOK'
  <2>1. \/ End(u, "refused") \/ To(u, "host") \/ To(u, "of podcast")
    BY <1>10 DEF ReadRefused, Denied
  <2>2. checks[u].step \in Working /\ "host" \in Working /\ "of podcast" \in Working
    BY <1>10 DEF ReadRefused, Working
  <2> QED BY <1>2, <1>4, <2>1, <2>2
<1> QED BY <1>5, <1>6, <1>7, <1>8, <1>9, <1>10 DEF AccessNext, Reads, allVars

\* A request that is not at work, or has been told of its outcome, needs no care.
LEMMA OthersKnow ==
  ASSUME AccessTypeOK, ChecksKnow, NEW u \in Askers, NEW q, checks' = [checks EXCEPT ![u] = q],
         issued' = issued, recordings' = recordings,
         q.step \in Working => /\ q.recording \in issued
                               /\ q.step = "in podcast" =>
                                    ~(/\ recordings[q.recording].status = "active"
                                      /\ u \in recordings[q.recording].participants)
  PROVE  ChecksKnow'
<1> SUFFICES ASSUME NEW v \in Askers, checks'[v].step \in Working
             PROVE  /\ checks'[v].recording \in issued
                    /\ checks'[v].step = "in podcast" =>
                         ~(/\ recordings[checks'[v].recording].status = "active"
                           /\ v \in recordings[checks'[v].recording].participants)
  BY DEF ChecksKnow
<1>1. CASE v = u
  <2>1. checks'[v] = q
    BY <1>1 DEF AccessTypeOK
  <2> QED BY <1>1, <2>1
<1>2. CASE v # u
  <2>1. checks'[v] = checks[v]
    BY <1>2 DEF AccessTypeOK
  <2> QED BY <2>1 DEF ChecksKnow
<1> QED BY <1>1, <1>2

LEMMA KnowStep ==
  ASSUME AccessTypeOK, SignalingInvariant, AbsentIsNone, ChecksKnow, [AccessNext]_allVars
  PROVE  ChecksKnow'
<1>1. CASE [Next]_vars /\ UNCHANGED checks
  <2>1. issued \subseteq issued'
    <3>1. CASE UNCHANGED issued
      BY <3>1
    <3>2. ASSUME NEW c \in Clients, NEW r \in RecordingIDs, StartRecording(c, r) PROVE issued \subseteq issued'
      BY <3>2 DEF StartRecording
    <3>3. [Next]_vars => \/ UNCHANGED issued
                         \/ \E c \in Clients, r \in RecordingIDs : StartRecording(c, r)
      BY DEF Next, ClientStep, Fault, vars, Connect, Greet, Disconnect, LeavePodcast, JoinRefused,
             JoinPodcast, Ready, BeginStop, StopRecording, Crash, RedisRestart, RecordingExpires
    <3> QED BY <1>1, <3>1, <3>2, <3>3
  <2>2. \A r \in issued : recordings'[r].status = "active" => recordings'[r] = recordings[r]
    BY <1>1, RecordGoesOn
  <2> QED BY <1>1, <2>1, <2>2 DEF ChecksKnow
<1>2. ASSUME NEW u \in Askers, UNCHANGED vars, End(u, "granted") \/ End(u, "refused")
      PROVE  ChecksKnow'
  <2>1. Outcome("granted").step \notin Working /\ Outcome("refused").step \notin Working
    BY DEF Outcome, Working
  <2> QED BY <1>2, <2>1, OthersKnow DEF End, vars, redisVars
<1>3. ASSUME NEW u \in Askers, UNCHANGED vars, To(u, "host") \/ To(u, "of podcast"),
             checks[u].step \in Working
      PROVE  ChecksKnow'
  <2>1. PICK step \in {"host", "of podcast"} :
             checks' = [checks EXCEPT ![u] = [checks[u] EXCEPT !.step = step]]
    BY <1>3 DEF To
  <2>2. checks[u] \in Check
    BY <1>3, AtWork
  <2>3. /\ [checks[u] EXCEPT !.step = step].step # "in podcast"
        /\ [checks[u] EXCEPT !.step = step].recording = checks[u].recording
    BY <2>2 DEF Check
  <2>4. checks[u].recording \in issued
    BY <1>3 DEF ChecksKnow
  <2> QED BY <1>3, <2>1, <2>3, <2>4, OthersKnow DEF vars, redisVars
<1>4. ASSUME NEW u \in Askers, NEW p \in Podcasts, NEW r \in RecordingIDs,
             NEW final \in BOOLEAN, NEW late \in BOOLEAN, Ask(u, p, r, final, late)
      PROVE  ChecksKnow'
  <2>1. CASE End(u, "refused")
    BY <1>2, <1>4, <2>1 DEF Ask
  <2>2. CASE checks' = [checks EXCEPT ![u] = [step |-> "participant", again |-> FALSE,
                                              podcast |-> p, recording |-> r, recorded |-> None]]
    BY <1>4, <2>2, OthersKnow DEF Ask, vars, redisVars
  <2> QED BY <1>4, <2>1, <2>2 DEF Ask
<1>5. ASSUME NEW u \in Askers, Participates(u) PROVE ChecksKnow'
  <2> DEFINE r == checks[u].recording
             q == [checks[u] EXCEPT !.step = "in podcast", !.recorded = recordings[r].podcast]
  <2>1. checks[u] \in Check /\ checks[u].step \in Working /\ UNCHANGED vars
    <3>1. checks[u].step \in Working /\ UNCHANGED vars
      BY <1>5 DEF Participates, Working
    <3> QED BY <3>1, AtWork
  <2>2. \/ End(u, "granted") \/ End(u, "refused") \/ To(u, "host")
        \/ u \notin recordings[r].participants /\ checks' = [checks EXCEPT ![u] = q]
    BY <1>5 DEF Participates, IsParticipant, Denied
  <2>3. CASE u \notin recordings[r].participants /\ checks' = [checks EXCEPT ![u] = q]
    <3>1. q.recording = r
      BY <2>1 DEF Check
    <3>2. r \in issued
      BY <2>1 DEF ChecksKnow
    <3> HIDE DEF q
    <3> QED BY <2>1, <2>3, <3>1, <3>2, OthersKnow DEF vars, redisVars
  <2> QED BY <1>2, <1>3, <2>1, <2>2, <2>3
<1>6. ASSUME NEW u \in Askers, InPodcast(u) \/ IsHost(u) PROVE ChecksKnow'
  <2>1. \/ End(u, "granted") \/ End(u, "refused") \/ To(u, "host") \/ To(u, "of podcast")
    BY <1>6 DEF InPodcast, IsHost, Denied
  <2>2. checks[u].step \in Working /\ UNCHANGED vars
    BY <1>6 DEF InPodcast, IsHost, Working
  <2> QED BY <1>2, <1>3, <2>1, <2>2
<1>7. ASSUME NEW u \in Askers, OfPodcast(u) PROVE ChecksKnow'
  <2> DEFINE q == [checks[u] EXCEPT !.step = "participant", !.again = TRUE]
  <2>1. checks[u] \in Check /\ checks[u].step \in Working /\ UNCHANGED vars
    <3>1. checks[u].step \in Working /\ UNCHANGED vars
      BY <1>7 DEF OfPodcast, Working
    <3> QED BY <3>1, AtWork
  <2>2. End(u, "refused") \/ checks' = [checks EXCEPT ![u] = q]
    BY <1>7 DEF OfPodcast
  <2>3. q.recording = checks[u].recording /\ q.step # "in podcast"
    BY <2>1 DEF Check
  <2>4. checks[u].recording \in issued
    BY <2>1 DEF ChecksKnow
  <2> HIDE DEF q
  <2> QED BY <1>2, <2>1, <2>2, <2>3, <2>4, OthersKnow DEF vars, redisVars
<1>8. CASE UNCHANGED allVars
  BY <1>1, <1>8 DEF allVars
<1>9. ASSUME NEW u \in Askers, ReadRefused(u) PROVE ChecksKnow'
  <2>1. \/ End(u, "refused") \/ To(u, "host") \/ To(u, "of podcast")
    BY <1>9 DEF ReadRefused, Denied
  <2>2. checks[u].step \in Working /\ UNCHANGED vars
    BY <1>9 DEF ReadRefused, Working
  <2> QED BY <1>2, <1>3, <2>1, <2>2
<1> QED BY <1>1, <1>4, <1>5, <1>6, <1>7, <1>8, <1>9 DEF AccessNext, Reads

-----------------------------------------------------------------------------
(* The theorems.                                                           *)

\* The checks are those of requests at work or decided, and what a request was
\* told of its recording cannot come untrue while the recording runs.
THEOREM AccessInvariantHolds ==
  AccessSpec => [](AccessTypeOK /\ SignalingInvariant /\ AbsentIsNone /\ ChecksKnow)
<1> DEFINE Inv == AccessTypeOK /\ AbsentIsNone /\ ChecksKnow
<1>1. AccessInit => Inv
  <2> SUFFICES ASSUME AccessInit PROVE Inv
    OBVIOUS
  <2>1. \A u \in Askers : checks[u] = Outcome("refused")
    BY DEF AccessInit
  <2>2. AccessTypeOK
    BY DEF AccessInit, AccessTypeOK
  <2>3. ChecksKnow
    BY <2>1, OutcomesAre DEF ChecksKnow
  <2>4. AbsentIsNone
    BY DEF AccessInit, Init, AbsentIsNone
  <2> QED BY <2>2, <2>3, <2>4
<1>2. SignalingInvariant /\ Inv /\ [AccessNext]_allVars /\ [Next]_vars => Inv'
  <2>1. SignalingInvariant => TypeOK
    BY DEF SignalingInvariant
  <2> QED BY <2>1, AccessTypeStep, AbsentStep, KnowStep
<1>3. Spec => [][Next]_vars
  BY PTL DEF Spec
<1> QED BY <1>1, <1>2, <1>3, AccessOnlyReads, SignalingIsSafe, PTL DEF AccessSpec

\* Whoever is on the record of a recording that still runs, and names its
\* podcast, is not turned away if Redis refuses no read of the check, however
\* the reads interleave with starts, stops, refusals, expiries and restarts.
THEOREM RunningAdmitsHolds == AccessSpec => RunningAdmits
<1> DEFINE Turned(u) == checks[u].step \in Working /\ checks'[u].step = "refused" /\ u \notin unanswered'
           OnIt(u) == LET record == recordings[checks[u].recording]
                      IN record.status = "active" /\ record.podcast = checks[u].podcast
                           /\ u \in record.participants
<1>1. ASSUME AccessTypeOK, SignalingInvariant, ChecksKnow, [AccessNext]_allVars,
             NEW u \in Askers, Turned(u), OnIt(u)
      PROVE  FALSE
  <2>1. checks[u].step \notin {"granted", "refused"}
    BY <1>1 DEF Working
  <2>2. ASSUME NEW v \in Askers, Reads(v) PROVE v = u
    <3>1. PICK q : checks' = [checks EXCEPT ![v] = q]
      BY <2>2 DEF Reads, Ask, Participates, InPodcast, IsHost, OfPodcast, ReadRefused, Denied, To, End
    <3>2. v # u => checks'[u] = checks[u]
      BY <1>1, <3>1 DEF AccessTypeOK
    <3> QED BY <1>1, <2>1, <3>2
  <2>3. ~UNCHANGED checks
    BY <1>1, <2>1
  <2>4. Reads(u)
    BY <1>1, <2>2, <2>3 DEF AccessNext, allVars
  <2>5. checks[u] \in Check
    BY <1>1, AtWork
  <2>6. ASSUME NEW step, To(u, step) PROVE checks'[u].step = step
    BY <2>5, <2>6, <1>1 DEF To, AccessTypeOK, Check
  <2>7. Outcome("granted").step = "granted"
    BY DEF Outcome
  <2>8. ~End(u, "granted") /\ ~To(u, "host") /\ ~To(u, "of podcast")
    BY <1>1, <2>6, <2>7 DEF End, AccessTypeOK
  <2>9. ~Participates(u)
    BY <1>1, <2>8 DEF Participates, IsParticipant
  <2>10. ~InPodcast(u)
    BY <1>1 DEF InPodcast, ChecksKnow
  <2>11. ~IsHost(u)
    BY <2>8 DEF IsHost
  <2>12. ~OfPodcast(u)
    <3>1. SUFFICES ASSUME OfPodcast(u) PROVE FALSE
      OBVIOUS
    <3>2. checks' = [checks EXCEPT ![u] = [checks[u] EXCEPT !.step = "participant", !.again = TRUE]]
      BY <1>1, <3>1 DEF OfPodcast
    <3>3. checks'[u].step = "participant"
      BY <1>1, <2>5, <3>2 DEF AccessTypeOK, Check
    <3> QED BY <1>1, <3>3
  <2>13. ~ReadRefused(u)
    BY <1>1 DEF ReadRefused, Unanswered
  <2> QED BY <1>1, <2>4, <2>9, <2>10, <2>11, <2>12, <2>13 DEF Reads, Ask
<1>2. AccessTypeOK /\ SignalingInvariant /\ ChecksKnow /\ [AccessNext]_allVars =>
        [\A u \in Askers : Turned(u) => ~OnIt(u)]_allVars
  BY <1>1
<1> QED BY <1>2, AccessInvariantHolds, PTL DEF AccessSpec, RunningAdmits
=============================================================================
