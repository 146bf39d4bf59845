-------------------------- MODULE SignalingProofs --------------------------
(***************************************************************************)
(* Proofs about Signaling, for every set of clients, users, podcasts and   *)
(* recording ids, every MaxClients and every combination of faults.        *)
(***************************************************************************)
EXTENDS Signaling, FiniteSetTheorems, TLAPS

-----------------------------------------------------------------------------
(* Lemmas about the operators.                                             *)

\* Of a set of two clients, each has one other.
LEMMA TheOther ==
  ASSUME NEW S \in SUBSET Clients, Cardinality(S) = 2, NEW d \in S
  PROVE  \E e \in S : e # d /\ S = {d, e}
<1>1. IsFiniteSet(S)
  BY ClientsAssumption, FS_Subset
<1>2. IsFiniteSet(S \ {d}) /\ Cardinality(S \ {d}) = 1
  BY <1>1, FS_RemoveElement
<1>3. PICK e : S \ {d} = {e}
  BY <1>2, FS_Singleton
<1> QED BY <1>3

-----------------------------------------------------------------------------
(* Types.                                                                  *)

Journal == [connected : SUBSET Clients, inside : SUBSET (Clients \X Podcasts),
            recording : SUBSET Podcasts]

LEMMA JournalsLessType ==
  ASSUME TypeOK, NEW c \in Clients
  PROVE  JournalsLess(c) \subseteq Journal
<1>1. [journal EXCEPT !.inside = @ \ {<<c, podcastOf[c]>>}] \in Journal
  BY DEF TypeOK, Journal
<1>2. journal \in Journal
  BY DEF TypeOK, Journal
<1> QED BY <1>1, <1>2 DEF JournalsLess, Outcomes

LEMMA LeaveType ==
  ASSUME TypeOK, NEW c \in Clients
  PROVE  /\ MembersLess(c) \in [Podcasts -> SUBSET Clients]
         /\ ReadyLess(c) \in [Podcasts -> SUBSET Clients]
         /\ HostLess(c) \in [Podcasts -> Users \cup {None}]
         /\ RecordingLess(c) \in [Podcasts -> RecordingIDs \cup {None}]
         /\ RosterLess(c) \in [Clients -> SUBSET Clients]
         /\ ToldLess(c) \in [Clients -> RecordingIDs \cup {None}]
         /\ PeerLess(c) \in [Clients -> Clients \cup {None}]
         /\ InitiatesLess(c) \in [Clients -> BOOLEAN]
<1>1. \A d \in Others(c) : podcastOf[c] \in Podcasts
  BY DEF Others, TypeOK
<1>2. ToldLess(c) \in [Clients -> RecordingIDs \cup {None}]
  BY <1>1 DEF ToldLess, TypeOK
<1>3. InitiatesLess(c) \in [Clients -> BOOLEAN]
  BY DEF InitiatesLess, TypeOK
<1>4. PeerLess(c) \in [Clients -> Clients \cup {None}]
  BY DEF PeerLess, TypeOK
<1>5. RosterLess(c) \in [Clients -> SUBSET Clients]
  BY DEF RosterLess, TypeOK
<1>6. /\ MembersLess(c) \in [Podcasts -> SUBSET Clients]
      /\ ReadyLess(c) \in [Podcasts -> SUBSET Clients]
      /\ HostLess(c) \in [Podcasts -> Users \cup {None}]
      /\ RecordingLess(c) \in [Podcasts -> RecordingIDs \cup {None}]
  BY DEF MembersLess, ReadyLess, HostLess, RecordingLess, TypeOK
<1> QED BY <1>2, <1>3, <1>4, <1>5, <1>6

LEMMA TypeStep ==
  ASSUME TypeOK, [Next]_vars
  PROVE  TypeOK'
<1>1. ASSUME NEW c \in Clients, Connect(c) PROVE TypeOK'
  BY <1>1 DEF Connect, TypeOK, roomVars, redisVars, toldVars
<1>2. ASSUME NEW c \in Clients, Greet(c) PROVE TypeOK'
  <2>1. journal' \in Journal
    BY <1>2 DEF Greet, QueueEvent, Outcomes, TypeOK, Journal
  <2> QED BY <1>2, <2>1 DEF Greet, TypeOK, Journal, roomVars, redisVars, toldVars
<1>3. ASSUME NEW c \in Clients, LeavePodcastInternal(c), journal' \in Journal,
             UNCHANGED <<ending, issued, redisVars>>,
             conn' \in [Clients -> {"new", "greeting", "serving", "closed"}]
      PROVE  TypeOK'
  <2>1. podcastOf' \in [Clients -> Podcasts \cup {None}] /\ podcasts' \subseteq Podcasts
    BY <1>3 DEF LeavePodcastInternal, TypeOK
  <2> QED BY <1>3, <2>1, LeaveType DEF LeavePodcastInternal, TypeOK, redisVars, Journal
<1>4. ASSUME NEW c \in Clients, Disconnect(c) PROVE TypeOK'
  <2>1. journal' \in Journal
    <3>1. PICK left \in JournalsLess(c) : QueueEvent(left, [left EXCEPT !.connected = @ \ {c}])
      BY <1>4 DEF Disconnect
    <3> QED BY <3>1, JournalsLessType DEF QueueEvent, Outcomes, Journal
  <2>2. conn' \in [Clients -> {"new", "greeting", "serving", "closed"}]
    BY <1>4 DEF Disconnect, TypeOK
  <2> QED BY <1>3, <1>4, <2>1, <2>2 DEF Disconnect
<1>5. ASSUME NEW c \in Clients,
             LeavePodcast(c) \/ \E p \in Podcasts : JoinRefused(c, p)
      PROVE  TypeOK'
  <2>1. /\ LeavePodcastInternal(c)
        /\ journal' \in JournalsLess(c)
        /\ UNCHANGED <<conn, ending, issued, redisVars>>
    BY <1>5 DEF LeavePodcast, JoinRefused
  <2> QED BY <1>3, <2>1, JournalsLessType DEF TypeOK
<1>6. ASSUME NEW c \in Clients, NEW p \in Podcasts, JoinPodcast(c, p) PROVE TypeOK'
  <2>1. journal' \in Journal
    <3>1. PICK left \in JournalsLess(c) :
               QueueEvent(left, [left EXCEPT !.inside = @ \cup {<<c, p>>}])
      BY <1>6 DEF JoinPodcast
    <3> QED BY <3>1, JournalsLessType DEF QueueEvent, Outcomes, Journal
  <2>2. podcastSessions' \subseteq Users \X Podcasts
    <3>1. <<UserOf[c], p>> \in Users \X Podcasts
      BY UserOfAssumption
    <3>2. podcastSessions' \in {podcastSessions, podcastSessions \cup {<<UserOf[c], p>>}}
      BY <1>6 DEF JoinPodcast, CreatePodcastSession, Outcomes
    <3> QED BY <3>1, <3>2 DEF TypeOK
  <2>3. /\ podcastOf' \in [Clients -> Podcasts \cup {None}]
        /\ podcasts' \subseteq Podcasts
        /\ members' \in [Podcasts -> SUBSET Clients]
        /\ host' \in [Podcasts -> Users \cup {None}]
    <3>1. members' = [MembersLess(c) EXCEPT ![p] = members[p] \cup {c}]
      BY <1>6 DEF JoinPodcast
    <3>2. host' \in {HostLess(c), [HostLess(c) EXCEPT ![p] = UserOf[c]]}
      BY <1>6 DEF JoinPodcast
    <3>3. podcastOf' \in [Clients -> Podcasts \cup {None}] /\ podcasts' \subseteq Podcasts
      BY <1>6 DEF JoinPodcast, TypeOK
    <3>4. members' \in [Podcasts -> SUBSET Clients]
      BY <3>1, LeaveType DEF TypeOK
    <3>5. host' \in [Podcasts -> Users \cup {None}]
      BY <3>2, LeaveType, UserOfAssumption
    <3> QED BY <3>3, <3>4, <3>5
  <2>4. /\ roster' \in [Clients -> SUBSET Clients]
        /\ toldRecording' \in [Clients -> RecordingIDs \cup {None}]
    BY <1>6, LeaveType DEF JoinPodcast, TypeOK
  <2> QED BY <1>6, <2>1, <2>2, <2>3, <2>4, LeaveType DEF JoinPodcast, TypeOK, Journal
<1>7. ASSUME NEW c \in Clients, Ready(c) PROVE TypeOK'
  <2>1. ready' \in [Podcasts -> SUBSET Clients]
    BY <1>7 DEF Ready, TypeOK
  <2>2. peer' \in [Clients -> Clients \cup {None}]
    <3> DEFINE p == podcastOf[c]
               both == BothReady(p, c)
    <3>1. p \in Podcasts
      BY <1>7 DEF Ready, TypeOK
    <3>2. ASSUME NEW d \in Clients, both, d \in members[p]
          PROVE  (CHOOSE e \in members[p] : e # d) \in Clients
      <4>1. members[p] \in SUBSET Clients
        BY <3>1 DEF TypeOK
      <4>2. \E e \in members[p] : e # d
        BY <3>2, <4>1, TheOther DEF BothReady
      <4> QED BY <4>1, <4>2
    <3>3. peer' = [d \in Clients |-> IF both /\ d \in members[p]
                                    THEN CHOOSE e \in members[p] : e # d ELSE peer[d]]
      BY <1>7 DEF Ready
    <3> QED BY <3>2, <3>3 DEF TypeOK
  <2>3. initiates' \in [Clients -> BOOLEAN]
    BY <1>7 DEF Ready, ShouldInitiate, TypeOK
  <2> QED BY <1>7, <2>1, <2>2, <2>3 DEF Ready, TypeOK, connVars, redisVars
<1>8. ASSUME NEW c \in Clients, NEW r \in RecordingIDs, StartRecording(c, r) PROVE TypeOK'
  <2>1. podcastOf[c] \in Podcasts
    BY <1>8 DEF StartRecording, TypeOK
  <2>2. journal' \in Journal
    BY <1>8, <2>1 DEF StartRecording, QueueEvent, Outcomes, TypeOK, Journal
  <2>3. recordings' \in [RecordingIDs -> Record]
    <3> DEFINE participants == {UserOf[d] : d \in members[podcastOf[c]]} \cup {UserOf[c]}
               record == [status |-> "active", podcast |-> podcastOf[c],
                          host |-> UserOf[c], participants |-> participants]
    <3>1. participants \in SUBSET Users
      BY <2>1, UserOfAssumption DEF TypeOK
    <3> HIDE DEF participants
    <3>2. record \in Record
      BY <3>1, <2>1, UserOfAssumption DEF Record
    <3>3. recordings' \in {recordings, [recordings EXCEPT ![r] = record]}
      BY <1>8 DEF StartRecording, CreateRecordingSession, Outcomes, participants
    <3> HIDE DEF record
    <3> QED BY <3>2, <3>3 DEF TypeOK
  <2>4. /\ recording' \in [Podcasts -> RecordingIDs \cup {None}]
        /\ toldRecording' \in [Clients -> RecordingIDs \cup {None}]
        /\ issued' \subseteq RecordingIDs
    BY <1>8 DEF StartRecording, TypeOK
  <2> QED BY <1>8, <2>2, <2>3, <2>4 DEF StartRecording, TypeOK, Journal, connVars
<1>9. ASSUME NEW c \in Clients, StopRecording(c) PROVE TypeOK'
  <2>1. journal' \in Journal
    BY <1>9 DEF StopRecording, QueueEvent, Outcomes, TypeOK, Journal
  <2>2. recordings' \in [RecordingIDs -> Record]
    <3> DEFINE r == recording[podcastOf[c]]
               ended == [ending.record EXCEPT !.status = "ended"]
    <3>1. ended \in Record
      BY DEF TypeOK, Record
    <3>2. recordings' \in {recordings, [recordings EXCEPT ![r] = ended]}
      BY <1>9 DEF StopRecording, EndRecordingSession, Outcomes
    <3> HIDE DEF r, ended
    <3> QED BY <3>1, <3>2 DEF TypeOK
  <2>3. /\ recording' \in [Podcasts -> RecordingIDs \cup {None}]
        /\ toldRecording' \in [Clients -> RecordingIDs \cup {None}]
    BY <1>9 DEF StopRecording, TypeOK
  <2>4. ending' \in [client : Clients \cup {None}, record : Record]
    BY <1>9 DEF StopRecording, NoStop, NoRecord, Record
  <2> QED BY <1>9, <2>1, <2>2, <2>3, <2>4 DEF StopRecording, TypeOK, Journal, connVars
<1>10. CASE Crash
  BY <1>10 DEF Crash, TypeOK, redisVars, NoStop, NoRecord, Record
<1>11. CASE RedisRestart
  BY <1>11 DEF RedisRestart, TypeOK, NoRecord, Record, connVars, roomVars, toldVars
<1>12. ASSUME NEW r \in RecordingIDs, RecordingExpires(r) PROVE TypeOK'
  BY <1>12 DEF RecordingExpires, TypeOK, NoRecord, Record, connVars, roomVars, toldVars
<1>13. CASE UNCHANGED vars
  BY <1>13 DEF vars, connVars, roomVars, redisVars, toldVars, TypeOK
<1>14. ASSUME NEW c \in Clients, BeginStop(c) PROVE TypeOK'
  <2>1. recording[podcastOf[c]] \in RecordingIDs
    BY <1>14 DEF BeginStop, TypeOK
  <2>2. PICK read \in {NoRecord, recordings[recording[podcastOf[c]]]} :
             ending' = [client |-> c, record |-> read]
    BY <1>14 DEF BeginStop, GetRecording, Outcomes
  <2>3. read \in Record
    BY <2>1, <2>2 DEF TypeOK, NoRecord, Record
  <2> QED BY <1>14, <2>2, <2>3 DEF BeginStop, TypeOK, connVars, roomVars, redisVars, toldVars
<1> QED
  BY <1>1, <1>2, <1>4, <1>5, <1>6, <1>7, <1>8, <1>9, <1>10, <1>11, <1>12, <1>13, <1>14
  DEF Next, ClientStep, Fault

\* Every variable keeps its type through every handler and every fault.
THEOREM TypeInvariant == Spec => []TypeOK
<1>1. Init => TypeOK
  BY DEF Init, TypeOK, NoStop, NoRecord, Record
<1>2. TypeOK /\ [Next]_vars => TypeOK'
  BY TypeStep
<1> QED BY <1>1, <1>2, PTL DEF Spec

-----------------------------------------------------------------------------
(* The two steps of a stop.                                                *)

\* What a stop finds in its second step: nobody has had the mutex since.
LEMMA StopFinds ==
  ASSUME TypeOK, EndingAgrees, NEW c \in Clients, StopRecording(c)
  PROVE  LET p == podcastOf[c]
         IN /\ p \in Podcasts /\ p \in podcasts /\ host[p] = UserOf[c]
            /\ recording[p] \in RecordingIDs /\ recording[p] # None
            /\ ending.record.status # "absent" =>
                 /\ ending.record.status = "active" /\ ending.record.podcast = p
                 /\ recordings[recording[p]].status # "absent" =>
                      recordings[recording[p]] = ending.record
<1>1. ending.client = c /\ ~MutexFree
  BY NoneAssumption DEF StopRecording, MutexFree
<1> QED BY <1>1 DEF EndingAgrees, TypeOK

-----------------------------------------------------------------------------
(* Membership.                                                             *)

\* What leavePodcastInternal leaves: everyone but the client where they were,
\* and no podcast in the map without members.
LEMMA LeaveMembership ==
  ASSUME TypeOK, MembershipAgrees, NEW c \in Clients
  PROVE  /\ \A d \in Clients, p \in Podcasts :
              d \in MembersLess(c)[p] <=> d # c /\ podcastOf[d] = p
         /\ \A p \in Podcasts : p \in podcasts \ Deleted(c) <=> MembersLess(c)[p] # {}
         /\ \A p \in Podcasts : Cardinality(MembersLess(c)[p]) <= MaxClients
         /\ \A p \in Podcasts : ReadyLess(c)[p] \subseteq MembersLess(c)[p]
<1>1. \A d \in Clients, p \in Podcasts : d \in MembersLess(c)[p] <=> d # c /\ podcastOf[d] = p
  BY DEF MembersLess, MembershipAgrees, TypeOK
<1>2. \A p \in Podcasts : p \in podcasts \ Deleted(c) <=> MembersLess(c)[p] # {}
  BY DEF MembersLess, Deleted, MembershipAgrees, TypeOK
<1>3. ASSUME NEW p \in Podcasts PROVE Cardinality(MembersLess(c)[p]) <= MaxClients
  <2>1. members[p] \subseteq Clients /\ MembersLess(c)[p] \in SUBSET members[p]
    BY DEF MembersLess, TypeOK
  <2>2. IsFiniteSet(members[p]) /\ IsFiniteSet(MembersLess(c)[p])
    BY <2>1, ClientsAssumption, FS_Subset
  <2>3. Cardinality(MembersLess(c)[p]) <= Cardinality(members[p])
    BY <2>1, <2>2, FS_Subset
  <2>4. Cardinality(MembersLess(c)[p]) \in Nat /\ Cardinality(members[p]) \in Nat
    BY <2>2, FS_CardinalityType
  <2>5. Cardinality(members[p]) <= MaxClients
    BY DEF MembershipAgrees
  <2> QED BY <2>3, <2>4, <2>5, MaxClientsAssumption
<1>4. \A p \in Podcasts : ReadyLess(c)[p] \subseteq MembersLess(c)[p]
  BY DEF MembersLess, ReadyLess, MembershipAgrees, TypeOK
<1> QED BY <1>1, <1>2, <1>3, <1>4

LEMMA LeaveKeepsMembership ==
  ASSUME TypeOK, MembershipAgrees, NEW c \in Clients, LeavePodcastInternal(c),
         \A d \in Clients \ {c} : conn'[d] = conn[d]
  PROVE  MembershipAgrees'
<1>1. \A d \in Clients : podcastOf'[d] = IF d = c THEN None ELSE podcastOf[d]
  BY DEF LeavePodcastInternal, TypeOK
<1>2. None \notin Podcasts
  BY NoneAssumption
<1>3. /\ members' = MembersLess(c)
      /\ ready' = ReadyLess(c)
      /\ podcasts' = podcasts \ Deleted(c)
  BY DEF LeavePodcastInternal
<1>4. \A d \in Clients, p \in Podcasts : d \in members'[p] <=> podcastOf'[d] = p
  BY <1>1, <1>2, <1>3, LeaveMembership
<1>5. \A d \in Clients : podcastOf'[d] # None => conn'[d] = "serving"
  BY <1>1 DEF MembershipAgrees
<1> QED BY <1>3, <1>4, <1>5, LeaveMembership DEF MembershipAgrees

LEMMA JoinKeepsMembership ==
  ASSUME TypeOK, MembershipAgrees, NEW c \in Clients, NEW p \in Podcasts, JoinPodcast(c, p)
  PROVE  MembershipAgrees'
<1> DEFINE with == members[p] \cup {c}
<1>1. /\ conn[c] = "serving" /\ conn' = conn
      /\ podcastOf[c] # p
      /\ p \notin podcasts \/ Cardinality(members[p]) < MaxClients
      /\ podcastOf' = [podcastOf EXCEPT ![c] = p]
      /\ podcasts' = (podcasts \ Deleted(c)) \cup {p}
      /\ members' = [MembersLess(c) EXCEPT ![p] = with]
      /\ ready' = ReadyLess(c)
  BY DEF JoinPodcast
<1>2. None \notin Podcasts
  BY NoneAssumption
<1>3. \A q \in Podcasts : members'[q] = IF q = p THEN with ELSE MembersLess(c)[q]
  BY <1>1, LeaveType
<1>4. \A d \in Clients : podcastOf'[d] = IF d = c THEN p ELSE podcastOf[d]
  BY <1>1 DEF TypeOK
<1>5. \A d \in Clients, q \in Podcasts : d \in members'[q] <=> podcastOf'[d] = q
  BY <1>1, <1>3, <1>4, LeaveMembership DEF MembershipAgrees
<1>6. \A d \in Clients : podcastOf'[d] # None => conn'[d] = "serving"
  BY <1>1, <1>4 DEF MembershipAgrees
<1>7. \A q \in Podcasts : q \in podcasts' <=> members'[q] # {}
  BY <1>1, <1>3, LeaveMembership
<1>8. \A q \in Podcasts : Cardinality(members'[q]) <= MaxClients
  <2>1. IsFiniteSet(members[p]) /\ Cardinality(members[p]) \in Nat
    <3>1. members[p] \in SUBSET Clients
      BY DEF TypeOK
    <3>2. IsFiniteSet(members[p])
      BY <3>1, ClientsAssumption, FS_Subset
    <3> QED BY <3>2, FS_CardinalityType
  <2>2. Cardinality(members[p]) < MaxClients
    <3>1. CASE p \notin podcasts
      <4>1. members[p] = {}
        BY <3>1 DEF MembershipAgrees
      <4> QED BY <4>1, FS_EmptySet, MaxClientsAssumption
    <3> QED BY <3>1, <1>1
  <2>3. Cardinality(with) <= Cardinality(members[p]) + 1
    <3>1. Cardinality(with) = IF c \in members[p] THEN Cardinality(members[p])
                              ELSE Cardinality(members[p]) + 1
      BY <2>1, FS_AddElement
    <3> QED BY <2>1, <3>1
  <2>4. Cardinality(with) \in Nat
    BY <2>1, FS_AddElement, FS_CardinalityType
  <2>5. Cardinality(with) <= MaxClients
    BY <2>1, <2>2, <2>3, <2>4, MaxClientsAssumption
  <2> QED BY <2>5, <1>3, LeaveMembership
<1>9. \A q \in Podcasts : ready'[q] \subseteq members'[q]
  BY <1>1, <1>3, LeaveMembership DEF MembersLess
<1> QED BY <1>5, <1>6, <1>7, <1>8, <1>9 DEF MembershipAgrees

LEMMA MembershipStep ==
  ASSUME TypeOK, MembershipAgrees, [Next]_vars
  PROVE  MembershipAgrees'
<1>1. ASSUME NEW c \in Clients, Connect(c) \/ Greet(c) PROVE MembershipAgrees'
  <2>1. \A d \in Clients : podcastOf[d] # None => conn'[d] = "serving"
    BY <1>1 DEF Connect, Greet, TypeOK, MembershipAgrees
  <2> QED BY <1>1, <2>1 DEF Connect, Greet, MembershipAgrees, roomVars
<1>2. ASSUME NEW c \in Clients,
             Disconnect(c) \/ LeavePodcast(c) \/ \E p \in Podcasts : JoinRefused(c, p)
      PROVE  MembershipAgrees'
  <2>1. LeavePodcastInternal(c) /\ \A d \in Clients \ {c} : conn'[d] = conn[d]
    BY <1>2 DEF Disconnect, LeavePodcast, JoinRefused, TypeOK
  <2> QED BY <2>1, LeaveKeepsMembership
<1>3. ASSUME NEW c \in Clients, NEW p \in Podcasts, JoinPodcast(c, p) PROVE MembershipAgrees'
  BY <1>3, JoinKeepsMembership
<1>4. ASSUME NEW c \in Clients, Ready(c) PROVE MembershipAgrees'
  <2>1. podcastOf[c] \in Podcasts /\ c \in members[podcastOf[c]]
    BY <1>4 DEF Ready, TypeOK, MembershipAgrees
  <2>2. ready' = [ready EXCEPT ![podcastOf[c]] = @ \cup {c}]
    BY <1>4 DEF Ready
  <2>3. \A p \in Podcasts : ready'[p] \subseteq members[p]
    BY <2>1, <2>2 DEF TypeOK, MembershipAgrees
  <2> QED BY <1>4, <2>3 DEF Ready, MembershipAgrees, connVars
<1>5. ASSUME NEW c \in Clients,
             BeginStop(c) \/ StopRecording(c) \/ \E r \in RecordingIDs : StartRecording(c, r)
      PROVE  MembershipAgrees'
  BY <1>5 DEF BeginStop, StopRecording, StartRecording, MembershipAgrees, connVars, roomVars
<1>6. CASE Crash
  <2>1. \A p \in Podcasts : members'[p] = {} /\ ready'[p] = {} /\ p \notin podcasts'
    BY <1>6 DEF Crash
  <2>2. \A c \in Clients : podcastOf'[c] = None /\ podcastOf'[c] \notin Podcasts
    BY <1>6, NoneAssumption DEF Crash
  <2>3. \A p \in Podcasts : Cardinality(members'[p]) <= MaxClients
    BY <2>1, FS_EmptySet, MaxClientsAssumption
  <2> QED BY <2>1, <2>2, <2>3 DEF MembershipAgrees
<1>7. CASE RedisRestart \/ \E r \in RecordingIDs : RecordingExpires(r)
  BY <1>7 DEF RedisRestart, RecordingExpires, MembershipAgrees, connVars, roomVars
<1>8. CASE UNCHANGED vars
  BY <1>8 DEF vars, MembershipAgrees, connVars, roomVars
<1> QED BY <1>1, <1>2, <1>3, <1>4, <1>5, <1>6, <1>7, <1>8 DEF Next, ClientStep, Fault

-----------------------------------------------------------------------------
(* What a podcast outside the map holds, and which ids have been drawn.    *)

LEMMA BookkeepingStep ==
  ASSUME TypeOK, Bookkeeping, EndingAgrees, [Next]_vars
  PROVE  Bookkeeping'
<1>1. ASSUME NEW c \in Clients, LeavePodcastInternal(c), UNCHANGED <<issued, recordings>>
      PROVE  Bookkeeping'
  <2>1. \A p \in Podcasts :
           /\ host'[p] = IF p \in Deleted(c) THEN None ELSE host[p]
           /\ recording'[p] = IF p \in Deleted(c) THEN None ELSE recording[p]
    BY <1>1 DEF LeavePodcastInternal, HostLess, RecordingLess
  <2> QED BY <1>1, <2>1 DEF LeavePodcastInternal, Bookkeeping, TypeOK
<1>2. ASSUME NEW c \in Clients,
             Disconnect(c) \/ LeavePodcast(c) \/ \E p \in Podcasts : JoinRefused(c, p)
      PROVE  Bookkeeping'
  <2>1. LeavePodcastInternal(c) /\ UNCHANGED <<issued, recordings>>
    BY <1>2 DEF Disconnect, LeavePodcast, JoinRefused, redisVars
  <2> QED BY <1>1, <2>1
<1>3. ASSUME NEW c \in Clients, NEW p \in Podcasts, JoinPodcast(c, p) PROVE Bookkeeping'
  <2>1. \A q \in Podcasts :
           recording'[q] = IF q \in Deleted(c) THEN None ELSE recording[q]
    BY <1>3 DEF JoinPodcast, RecordingLess
  <2>2. \A q \in Podcasts :
           host'[q] = IF q = p /\ p \notin podcasts THEN UserOf[c]
                      ELSE IF q \in Deleted(c) THEN None ELSE host[q]
    BY <1>3, LeaveType DEF JoinPodcast, HostLess
  <2>3. /\ podcasts' = (podcasts \ Deleted(c)) \cup {p}
        /\ UNCHANGED <<issued, recordings>>
        /\ p \notin Deleted(c)
    BY <1>3 DEF JoinPodcast, Deleted
  <2> QED BY <2>1, <2>2, <2>3, UserOfAssumption DEF Bookkeeping, TypeOK
<1>4. ASSUME NEW c \in Clients, Ready(c) \/ Connect(c) \/ Greet(c) \/ BeginStop(c)
      PROVE  Bookkeeping'
  BY <1>4 DEF Ready, Connect, Greet, BeginStop, Bookkeeping, connVars, roomVars, redisVars
<1>5. ASSUME NEW c \in Clients, NEW r \in RecordingIDs, StartRecording(c, r) PROVE Bookkeeping'
  <2>1. /\ podcastOf[c] \in podcasts
        /\ recording' = [recording EXCEPT ![podcastOf[c]] = r]
        /\ issued' = issued \cup {r}
        /\ UNCHANGED <<podcasts, host>>
    BY <1>5 DEF StartRecording
  <2>2. \A s \in RecordingIDs : s # r => recordings'[s] = recordings[s]
    BY <1>5 DEF StartRecording, CreateRecordingSession, Outcomes, TypeOK
  <2> QED BY <2>1, <2>2 DEF Bookkeeping, TypeOK
<1>6. ASSUME NEW c \in Clients, StopRecording(c) PROVE Bookkeeping'
  <2>1. /\ podcastOf[c] \in podcasts
        /\ recording' = [recording EXCEPT ![podcastOf[c]] = None]
        /\ UNCHANGED <<podcasts, host, issued>>
    BY <1>6, StopFinds DEF StopRecording
  <2>2. recording[podcastOf[c]] \in issued
    BY <1>6, StopFinds DEF Bookkeeping
  <2>3. \A r \in RecordingIDs : r # recording[podcastOf[c]] => recordings'[r] = recordings[r]
    BY <1>6 DEF StopRecording, EndRecordingSession, Outcomes, TypeOK
  <2> QED BY <2>1, <2>2, <2>3 DEF Bookkeeping, TypeOK
<1>7. CASE Crash
  BY <1>7 DEF Crash, Bookkeeping, redisVars
<1>8. CASE RedisRestart
  BY <1>8 DEF RedisRestart, Bookkeeping, roomVars
<1>9. ASSUME NEW r \in RecordingIDs, RecordingExpires(r) PROVE Bookkeeping'
  BY <1>9 DEF RecordingExpires, Bookkeeping, TypeOK, roomVars
<1>10. CASE UNCHANGED vars
  BY <1>10 DEF vars, Bookkeeping, roomVars, redisVars
<1> QED
  BY <1>2, <1>3, <1>4, <1>5, <1>6, <1>7, <1>8, <1>9, <1>10 DEF Next, ClientStep, Fault

-----------------------------------------------------------------------------
(* What the clients have been told.                                        *)

\* A client that stays in a podcast after another left it, and its podcast.
LEMMA Stayers ==
  ASSUME TypeOK, MembershipAgrees, NEW c \in Clients, NEW d \in Clients \ {c}, podcastOf[d] # None
  PROVE  /\ podcastOf[d] \in Podcasts
         /\ podcastOf[d] \notin Deleted(c)
         /\ d \in members[podcastOf[d]]
         /\ d \in Others(c) <=> podcastOf[d] = podcastOf[c]
BY DEF TypeOK, MembershipAgrees, Deleted, Others

LEMMA ToldStep ==
  ASSUME TypeOK, MembershipAgrees, ClientsAreTold, EndingAgrees, [Next]_vars
  PROVE  ClientsAreTold'
<1> DEFINE Told(d) == /\ roster[d] = members[podcastOf[d]] \ {d}
                      /\ toldRecording[d] = recording[podcastOf[d]]
<1>1. ASSUME NEW c \in Clients,
             Disconnect(c) \/ LeavePodcast(c) \/ \E p \in Podcasts : JoinRefused(c, p)
      PROVE  ClientsAreTold'
  <2>1. LeavePodcastInternal(c)
    BY <1>1 DEF Disconnect, LeavePodcast, JoinRefused
  <2>2. podcastOf'[c] = None
    BY <2>1 DEF LeavePodcastInternal, TypeOK
  <2>3. ASSUME NEW d \in Clients \ {c}, podcastOf'[d] # None PROVE Told(d)'
    <3>1. podcastOf'[d] = podcastOf[d] /\ podcastOf[d] # None
      BY <2>1, <2>3 DEF LeavePodcastInternal, TypeOK
    <3>2. members'[podcastOf[d]] = IF podcastOf[d] = podcastOf[c]
                                   THEN members[podcastOf[d]] \ {c} ELSE members[podcastOf[d]]
      BY <2>1, <3>1, Stayers DEF LeavePodcastInternal, MembersLess
    <3>3. recording'[podcastOf[d]] = recording[podcastOf[d]]
      BY <2>1, <3>1, Stayers DEF LeavePodcastInternal, RecordingLess
    <3>4. roster'[d] = IF d \in Others(c) THEN roster[d] \ {c} ELSE roster[d]
      BY <2>1 DEF LeavePodcastInternal, RosterLess
    <3>5. toldRecording'[d] = IF d \in Others(c) THEN recording[podcastOf[c]] ELSE toldRecording[d]
      BY <2>1 DEF LeavePodcastInternal, ToldLess
    <3> QED BY <3>1, <3>2, <3>3, <3>4, <3>5, Stayers DEF ClientsAreTold
  <2> QED BY <2>2, <2>3 DEF ClientsAreTold
<1>2. ASSUME NEW c \in Clients, NEW p \in Podcasts, JoinPodcast(c, p) PROVE ClientsAreTold'
  <2>1. \A q \in Podcasts : members'[q] = IF q = p THEN members[p] \cup {c} ELSE MembersLess(c)[q]
    BY <1>2, LeaveType DEF JoinPodcast
  <2>2. p \notin Deleted(c) /\ c \notin members[p]
    BY <1>2 DEF JoinPodcast, Deleted, MembershipAgrees
  <2>3. \A q \in Podcasts \ Deleted(c) : recording'[q] = recording[q]
    BY <1>2 DEF JoinPodcast, RecordingLess
  <2>4. /\ podcastOf' = [podcastOf EXCEPT ![c] = p]
        /\ roster' = [d \in Clients |-> IF d = c THEN members[p]
                                        ELSE IF d \in members[p] THEN roster[d] \cup {c}
                                        ELSE RosterLess(c)[d]]
        /\ toldRecording' = [d \in Clients |-> IF d \in members[p] \cup {c} THEN recording[p]
                                               ELSE ToldLess(c)[d]]
    BY <1>2 DEF JoinPodcast
  <2>5. Told(c)'
    BY <2>1, <2>2, <2>3, <2>4 DEF TypeOK
  <2>6. ASSUME NEW d \in Clients \ {c}, podcastOf'[d] # None PROVE Told(d)'
    <3>1. podcastOf'[d] = podcastOf[d] /\ podcastOf[d] # None
      BY <2>4, <2>6 DEF TypeOK
    <3>2. CASE podcastOf[d] = p
      <4>1. d \in members[p] /\ roster'[d] = roster[d] \cup {c} /\ toldRecording'[d] = recording[p]
        BY <2>4, <3>2 DEF MembershipAgrees
      <4> QED BY <4>1, <3>1, <3>2, <2>1, <2>2, <2>3 DEF ClientsAreTold
    <3>3. CASE podcastOf[d] # p
      <4>1. /\ d \notin members[p]
            /\ roster'[d] = IF d \in Others(c) THEN roster[d] \ {c} ELSE roster[d]
            /\ toldRecording'[d] = IF d \in Others(c) THEN recording[podcastOf[c]]
                                   ELSE toldRecording[d]
        BY <2>4, <3>3 DEF MembershipAgrees, RosterLess, ToldLess
      <4>2. members'[podcastOf[d]] = IF podcastOf[d] = podcastOf[c]
                                     THEN members[podcastOf[d]] \ {c} ELSE members[podcastOf[d]]
        BY <2>1, <3>1, <3>3, Stayers DEF MembersLess
      <4> QED BY <4>1, <4>2, <3>1, <2>3, Stayers DEF ClientsAreTold
    <3> QED BY <3>2, <3>3
  <2> QED BY <2>5, <2>6 DEF ClientsAreTold
<1>3. ASSUME NEW c \in Clients, Connect(c) \/ Greet(c) \/ Ready(c) \/ BeginStop(c)
      PROVE  ClientsAreTold'
  BY <1>3 DEF Connect, Greet, Ready, BeginStop, ClientsAreTold, connVars, roomVars, toldVars
<1>4. ASSUME NEW c \in Clients, NEW new \in RecordingIDs \cup {None}, NEW p \in Podcasts,
             recording' = [recording EXCEPT ![p] = new],
             toldRecording' = [d \in Clients |-> IF d \in members[p] THEN new ELSE toldRecording[d]],
             UNCHANGED <<podcastOf, members, roster>>
      PROVE  ClientsAreTold'
  BY <1>4 DEF ClientsAreTold, MembershipAgrees, TypeOK
<1>5. ASSUME NEW c \in Clients,
             StopRecording(c) \/ \E r \in RecordingIDs : StartRecording(c, r)
      PROVE  ClientsAreTold'
  <2>1. podcastOf[c] \in Podcasts
    BY <1>5, StopFinds DEF StartRecording, TypeOK
  <2>2. CASE StopRecording(c)
    BY <2>1, <2>2, <1>4 DEF StopRecording, connVars
  <2>3. ASSUME NEW r \in RecordingIDs, StartRecording(c, r) PROVE ClientsAreTold'
    <3>1. /\ recording' = [recording EXCEPT ![podcastOf[c]] = r]
          /\ toldRecording' = [d \in Clients |-> IF d \in members[podcastOf[c]] THEN r
                                                 ELSE toldRecording[d]]
          /\ UNCHANGED <<podcastOf, members, roster>>
      BY <2>3 DEF StartRecording, connVars
    <3> QED BY <3>1, <2>1, <1>4
  <2> QED BY <2>2, <2>3, <1>5
<1>6. CASE Crash
  BY <1>6 DEF Crash, ClientsAreTold
<1>7. CASE RedisRestart \/ \E r \in RecordingIDs : RecordingExpires(r)
  BY <1>7 DEF RedisRestart, RecordingExpires, ClientsAreTold, connVars, roomVars, toldVars
<1>8. CASE UNCHANGED vars
  BY <1>8 DEF vars, ClientsAreTold, connVars, roomVars, toldVars
<1> QED BY <1>1, <1>2, <1>3, <1>5, <1>6, <1>7, <1>8 DEF Next, ClientStep, Fault

-----------------------------------------------------------------------------
(* The pairs.                                                              *)

LEMMA PairingStep ==
  ASSUME TypeOK, MembershipAgrees, PairingAgrees, [Next]_vars
  PROVE  PairingAgrees'
<1>1. ASSUME NEW c \in Clients,
             podcastOf' \in {[podcastOf EXCEPT ![c] = p] : p \in Podcasts \cup {None}},
             peer' = PeerLess(c), initiates' = InitiatesLess(c)
      PROVE  PairingAgrees'
  <2>1. \A d \in Clients \ {c} : podcastOf'[d] = podcastOf[d] /\ initiates'[d] = initiates[d]
    BY <1>1 DEF InitiatesLess, TypeOK
  <2>2. peer'[c] = None
    BY <1>1 DEF PeerLess
  <2>3. ASSUME NEW d \in Clients, peer'[d] # None
        PROVE  d # c /\ peer[d] # c /\ peer[d] \in Clients /\ peer'[d] = peer[d]
    <3>1. d # c /\ peer'[d] = peer[d] /\ ~(d \in Others(c) /\ peer[d] = c)
      BY <1>1, <2>2, <2>3 DEF PeerLess
    <3>2. peer[d] = c => d \in Others(c)
      BY <3>1, <2>3, NoneAssumption, Stayers DEF PairingAgrees
    <3> QED BY <3>1, <3>2, <2>3 DEF TypeOK
  <2>4. ASSUME NEW d \in Clients, peer'[d] # None PROVE peer'[peer[d]] = d
    <3>1. peer[d] \in Clients \ {c} /\ peer[peer[d]] = d /\ d # c
      BY <2>3, <2>4 DEF PairingAgrees
    <3> QED BY <1>1, <3>1 DEF PeerLess
  <2> QED BY <2>1, <2>3, <2>4 DEF PairingAgrees
<1>2. ASSUME NEW c \in Clients,
             Disconnect(c) \/ LeavePodcast(c) \/ \E p \in Podcasts : JoinRefused(c, p)
      PROVE  PairingAgrees'
  <2>1. LeavePodcastInternal(c)
    BY <1>2 DEF Disconnect, LeavePodcast, JoinRefused
  <2> QED BY <2>1, <1>1 DEF LeavePodcastInternal
<1>3. ASSUME NEW c \in Clients, NEW p \in Podcasts, JoinPodcast(c, p) PROVE PairingAgrees'
  <2>1. /\ podcastOf' = [podcastOf EXCEPT ![c] = p]
        /\ peer' = PeerLess(c) /\ initiates' = InitiatesLess(c)
    BY <1>3 DEF JoinPodcast
  <2> QED BY <2>1, <1>1
<1>4. ASSUME NEW c \in Clients, Ready(c) PROVE PairingAgrees'
  <2> DEFINE p == podcastOf[c]
             both == BothReady(p, c)
  <2>1. p \in Podcasts /\ members[p] \in SUBSET Clients
    BY <1>4 DEF Ready, TypeOK
  <2>2. /\ peer' = [d \in Clients |-> IF both /\ d \in members[p]
                                      THEN CHOOSE e \in members[p] : e # d ELSE peer[d]]
        /\ initiates' = [d \in Clients |-> IF both /\ d \in members[p]
                                           THEN ShouldInitiate(d, members[p]) ELSE initiates[d]]
        /\ podcastOf' = podcastOf
    BY <1>4 DEF Ready, connVars
  <2>3. CASE ~both
    <3>1. peer' = peer
      BY <2>2, <2>3 DEF TypeOK
    <3>2. initiates' = initiates
      BY <2>2, <2>3 DEF TypeOK
    <3> QED BY <2>2, <3>1, <3>2 DEF PairingAgrees
  <2>4. CASE both
    <3>1. ASSUME NEW d \in members[p]
          PROVE  \E e \in Clients : e # d /\ members[p] = {d, e} /\ peer'[d] = e /\ peer'[e] = d
      <4>1. PICK e \in members[p] : e # d /\ members[p] = {d, e}
        BY <2>1, <2>4, TheOther DEF BothReady
      <4>2. (CHOOSE x \in members[p] : x # d) = e /\ (CHOOSE x \in members[p] : x # e) = d
        BY <4>1
      <4> QED BY <2>1, <2>2, <2>4, <4>1, <4>2
    <3>2. ASSUME NEW d \in Clients \ members[p], peer'[d] # None
          PROVE  /\ peer'[d] = peer[d] /\ peer[d] \in Clients \ members[p]
                 /\ initiates'[d] = initiates[d]
      <4>1. peer'[d] = peer[d] /\ initiates'[d] = initiates[d]
        BY <2>2
      <4>2. podcastOf[d] # p /\ podcastOf[peer[d]] = podcastOf[d] /\ peer[d] \in Clients
        BY <4>1, <3>2, <2>1 DEF PairingAgrees, MembershipAgrees, TypeOK
      <4> QED BY <4>1, <4>2, <2>1 DEF MembershipAgrees
    <3>3. ASSUME NEW d \in members[p], NEW e \in Clients, e # d, members[p] = {d, e}
          PROVE  initiates'[e] # initiates'[d]
      <4>1. d \in Nat /\ e \in Nat
        BY <2>1, <3>3, ClientsAssumption
      <4>2. /\ initiates'[d] = (\A x \in {d, e} : d <= x)
            /\ initiates'[e] = (\A x \in {d, e} : e <= x)
        BY <2>1, <2>2, <2>4, <3>3 DEF ShouldInitiate
      <4>3. (\A x \in {d, e} : d <= x) <=> ~(\A x \in {d, e} : e <= x)
        BY <4>1, <3>3
      <4> QED BY <4>2, <4>3
    <3>4. ASSUME NEW d \in members[p]
          PROVE  /\ peer'[d] # d /\ podcastOf[d] = p /\ podcastOf[peer'[d]] = p
                 /\ peer'[peer'[d]] = d /\ initiates'[peer'[d]] # initiates'[d]
      BY <2>1, <3>1, <3>3 DEF MembershipAgrees
    <3>5. ASSUME NEW d \in Clients \ members[p], peer'[d] # None
          PROVE  /\ peer'[d] # d /\ podcastOf[d] # None /\ podcastOf[peer'[d]] = podcastOf[d]
                 /\ peer'[peer'[d]] = d /\ initiates'[peer'[d]] # initiates'[d]
      BY <2>2, <3>2, <3>5 DEF PairingAgrees
    <3>6. p # None
      BY <2>1, NoneAssumption
    <3>7. ASSUME NEW d \in Clients, peer'[d] # None
          PROVE  /\ peer'[d] # d
                 /\ podcastOf'[d] # None
                 /\ podcastOf'[peer'[d]] = podcastOf'[d]
                 /\ peer'[peer'[d]] = d
                 /\ initiates'[peer'[d]] # initiates'[d]
      <4> HIDE DEF p
      <4>1. CASE d \in members[p]
        BY <4>1, <3>4, <3>6, <2>2
      <4>2. CASE d \notin members[p]
        BY <4>2, <3>5, <3>7, <2>2
      <4> QED BY <4>1, <4>2
    <3> QED BY <3>7 DEF PairingAgrees
  <2> QED BY <2>3, <2>4
<1>5. ASSUME NEW c \in Clients,
             \/ Connect(c) \/ Greet(c) \/ BeginStop(c) \/ StopRecording(c)
             \/ \E r \in RecordingIDs : StartRecording(c, r)
      PROVE  PairingAgrees'
  BY <1>5 DEF Connect, Greet, BeginStop, StopRecording, StartRecording, PairingAgrees, connVars, toldVars
<1>6. CASE Crash
  BY <1>6 DEF Crash, PairingAgrees
<1>7. CASE RedisRestart \/ \E r \in RecordingIDs : RecordingExpires(r)
  BY <1>7 DEF RedisRestart, RecordingExpires, PairingAgrees, connVars, toldVars
<1>8. CASE UNCHANGED vars
  BY <1>8 DEF vars, PairingAgrees, connVars, toldVars
<1> QED BY <1>2, <1>3, <1>4, <1>5, <1>6, <1>7, <1>8 DEF Next, ClientStep, Fault

-----------------------------------------------------------------------------
(* The recordings.                                                         *)

LEMMA RecordStep ==
  ASSUME TypeOK, MembershipAgrees, Bookkeeping, RecordAgrees, EndingAgrees, [Next]_vars
  PROVE  RecordAgrees'
<1>1. ASSUME UNCHANGED recordings,
             \A q \in Podcasts : recording'[q] # None => /\ recording'[q] = recording[q]
                                                         /\ host'[q] = host[q]
      PROVE  RecordAgrees'
  BY <1>1 DEF RecordAgrees
<1>2. ASSUME NEW c \in Clients,
             Disconnect(c) \/ LeavePodcast(c) \/ \E p \in Podcasts : JoinRefused(c, p)
      PROVE  RecordAgrees'
  <2>1. LeavePodcastInternal(c) /\ UNCHANGED recordings
    BY <1>2 DEF Disconnect, LeavePodcast, JoinRefused, redisVars
  <2> QED BY <2>1, <1>1 DEF LeavePodcastInternal, HostLess, RecordingLess
<1>3. ASSUME NEW c \in Clients, NEW p \in Podcasts, JoinPodcast(c, p) PROVE RecordAgrees'
  <2>1. /\ recording' = RecordingLess(c)
        /\ host' = IF p \notin podcasts THEN [HostLess(c) EXCEPT ![p] = UserOf[c]] ELSE HostLess(c)
        /\ UNCHANGED recordings
    BY <1>3 DEF JoinPodcast
  <2>2. p \notin podcasts => recording[p] = None
    BY DEF Bookkeeping
  <2> QED BY <2>1, <2>2, <1>1, LeaveType DEF RecordingLess, HostLess
<1>4. ASSUME NEW c \in Clients, Connect(c) \/ Greet(c) \/ Ready(c) \/ BeginStop(c)
      PROVE  RecordAgrees'
  BY <1>4, <1>1 DEF Connect, Greet, Ready, BeginStop, connVars, roomVars, redisVars
<1>5. ASSUME NEW c \in Clients, NEW r \in RecordingIDs, StartRecording(c, r) PROVE RecordAgrees'
  <2> DEFINE p == podcastOf[c]
             participants == {UserOf[d] : d \in members[p]} \cup {UserOf[c]}
             record == [status |-> "active", podcast |-> p,
                        host |-> UserOf[c], participants |-> participants]
  <2>1. /\ p \in Podcasts /\ host[p] = UserOf[c] /\ r \notin issued /\ r # None
        /\ recording' = [recording EXCEPT ![p] = r]
        /\ recordings' \in {recordings, [recordings EXCEPT ![r] = record]}
        /\ UNCHANGED host
    BY <1>5, NoneAssumption DEF StartRecording, CreateRecordingSession, Outcomes, TypeOK
  <2>2. /\ \A q \in Podcasts : recording[q] # r
        /\ recordings[r].status = "absent"
    BY <2>1 DEF Bookkeeping, NoRecord
  <2>3. /\ record.status = "active" /\ record.podcast = p /\ record.host = host[p]
        /\ host[p] \in record.participants
    BY <2>1
  <2> HIDE DEF p, record
  <2>4. recordings'[r].status = "absent" \/ recordings'[r] = record
    BY <2>1, <2>2 DEF TypeOK
  <2>5. \A s \in RecordingIDs : s # r => recordings'[s] = recordings[s]
    BY <2>1 DEF TypeOK
  <2>6. \A q \in Podcasts : recording'[q] = IF q = p THEN r ELSE recording[q]
    BY <2>1 DEF TypeOK
  <2>7. \A q1, q2 \in Podcasts :
           recording'[q1] # None /\ recording'[q1] = recording'[q2] => q1 = q2
    BY <2>2, <2>6 DEF RecordAgrees
  <2>8. ASSUME NEW q \in Podcasts, recording'[q] # None, recordings'[recording'[q]].status # "absent"
        PROVE  LET rec == recordings'[recording'[q]]
               IN /\ rec.status = "active" /\ rec.podcast = q /\ rec.host = host'[q]
                  /\ host'[q] \in rec.participants
    <3>1. CASE q = p
      BY <3>1, <2>1, <2>3, <2>4, <2>6, <2>8
    <3>2. CASE q # p
      <4>1. recording'[q] = recording[q] /\ recording[q] \in RecordingIDs /\ recording[q] # r
        BY <3>2, <2>2, <2>6, <2>8 DEF TypeOK
      <4>2. recordings'[recording[q]] = recordings[recording[q]]
        BY <4>1, <2>5
      <4> QED BY <4>1, <4>2, <2>1, <2>8 DEF RecordAgrees
    <3> QED BY <3>1, <3>2
  <2> QED BY <2>7, <2>8 DEF RecordAgrees
<1>6. ASSUME NEW c \in Clients, StopRecording(c) PROVE RecordAgrees'
  <2> DEFINE p == podcastOf[c]
  <2>1. /\ p \in Podcasts /\ recording[p] \in RecordingIDs /\ recording[p] # None
        /\ recording' = [recording EXCEPT ![p] = None]
        /\ UNCHANGED host
    BY <1>6, StopFinds DEF StopRecording
  <2>2. \A s \in RecordingIDs : s # recording[p] => recordings'[s] = recordings[s]
    BY <1>6 DEF StopRecording, EndRecordingSession, Outcomes, TypeOK
  <2> HIDE DEF p
  <2>3. ASSUME NEW q \in Podcasts, recording'[q] # None
        PROVE  /\ recording'[q] = recording[q] /\ recording[q] # None
               /\ recordings'[recording[q]] = recordings[recording[q]]
    <3>1. q # p /\ recording'[q] = recording[q]
      BY <2>1, <2>3 DEF TypeOK
    <3>2. recording[q] # recording[p] /\ recording[q] \in RecordingIDs
      BY <3>1, <2>1, <2>3 DEF RecordAgrees, TypeOK
    <3> QED BY <3>1, <3>2, <2>2, <2>3
  <2> QED BY <2>1, <2>3 DEF RecordAgrees
<1>7. CASE Crash
  BY <1>7, <1>1 DEF Crash, redisVars
<1>8. CASE RedisRestart
  <2>1. \A r \in RecordingIDs : recordings'[r].status = "absent"
    BY <1>8 DEF RedisRestart, NoRecord
  <2>2. UNCHANGED <<host, recording>>
    BY <1>8 DEF RedisRestart, roomVars
  <2>3. \A q \in Podcasts : recording[q] # None => recording[q] \in RecordingIDs
    BY DEF TypeOK
  <2> QED BY <2>1, <2>2, <2>3 DEF RecordAgrees
<1>9. ASSUME NEW r \in RecordingIDs, RecordingExpires(r) PROVE RecordAgrees'
  <2>1. /\ recordings' = [recordings EXCEPT ![r] = NoRecord]
        /\ UNCHANGED <<host, recording>>
    BY <1>9 DEF RecordingExpires, roomVars
  <2>2. \A s \in RecordingIDs : recordings'[s].status = "absent" \/ recordings'[s] = recordings[s]
    BY <2>1 DEF NoRecord, TypeOK
  <2>3. \A q \in Podcasts : recording[q] # None => recording[q] \in RecordingIDs
    BY DEF TypeOK
  <2> QED BY <2>1, <2>2, <2>3 DEF RecordAgrees
<1>10. CASE UNCHANGED vars
  BY <1>10 DEF vars, RecordAgrees, roomVars, redisVars
<1> QED
  BY <1>2, <1>3, <1>4, <1>5, <1>6, <1>7, <1>8, <1>9, <1>10 DEF Next, ClientStep, Fault

LEMMA EndingStep ==
  ASSUME TypeOK, Bookkeeping, RecordAgrees, EndingAgrees, [Next]_vars
  PROVE  EndingAgrees'
<1>1. ASSUME MutexFree, UNCHANGED ending PROVE EndingAgrees'
  BY <1>1 DEF MutexFree, EndingAgrees
<1>2. ASSUME ending' = NoStop PROVE EndingAgrees'
  BY <1>2 DEF NoStop, MutexFree, EndingAgrees
<1>3. ASSUME NEW c \in Clients, BeginStop(c) PROVE EndingAgrees'
  <2> DEFINE p == podcastOf[c]
  <2>1. /\ p \in podcasts /\ p \in Podcasts /\ host[p] = UserOf[c] /\ recording[p] # None
        /\ UNCHANGED <<podcastOf, podcasts, host, recording, recordings>>
    BY <1>3 DEF BeginStop, connVars, roomVars, redisVars, TypeOK
  <2>2. PICK read \in {NoRecord, recordings[recording[p]]} : ending' = [client |-> c, record |-> read]
    BY <1>3 DEF BeginStop, GetRecording, Outcomes
  <2>3. read.status # "absent" =>
          read = recordings[recording[p]] /\ read.status = "active" /\ read.podcast = p
    BY <2>1, <2>2 DEF RecordAgrees, NoRecord
  <2>4. ending'.client = c /\ ending'.record = read
    BY <2>2
  <2> HIDE DEF p
  <2>5. podcastOf'[c] = p
    BY <2>1 DEF p
  <2> QED BY <2>1, <2>3, <2>4, <2>5 DEF EndingAgrees
<1>4. ASSUME ~MutexFree, UNCHANGED <<ending, podcastOf, podcasts, host, recording>>,
             \A r \in RecordingIDs : recordings'[r] \in {recordings[r], NoRecord}
      PROVE  EndingAgrees'
  <2> DEFINE r == recording[podcastOf[ending.client]]
  <2>1. r \in RecordingIDs
    BY <1>4 DEF EndingAgrees, TypeOK
  <2>2. recordings'[r].status # "absent" => recordings'[r] = recordings[r]
    BY <1>4, <2>1 DEF NoRecord
  <2> QED BY <1>4, <2>2 DEF EndingAgrees, MutexFree
<1>5. ASSUME NEW c \in Clients, MutexFree,
             \/ Connect(c) \/ Disconnect(c) \/ LeavePodcast(c) \/ Ready(c)
             \/ \E p \in Podcasts : JoinRefused(c, p) \/ JoinPodcast(c, p)
             \/ \E r \in RecordingIDs : StartRecording(c, r)
      PROVE  EndingAgrees'
  <2>1. UNCHANGED ending
    BY <1>5 DEF Connect, Disconnect, LeavePodcast, Ready, JoinRefused, JoinPodcast, StartRecording
  <2> QED BY <1>1, <1>5, <2>1
<1>6. CASE Crash \/ \E c \in Clients : StopRecording(c)
  BY <1>2, <1>6 DEF Crash, StopRecording
<1>7. CASE \/ RedisRestart \/ \E r \in RecordingIDs : RecordingExpires(r)
           \/ UNCHANGED vars \/ \E c \in Clients : Greet(c)
  <2>1. /\ UNCHANGED <<ending, podcastOf, podcasts, host, recording>>
        /\ \A r \in RecordingIDs : recordings'[r] \in {recordings[r], NoRecord}
    BY <1>7 DEF RedisRestart, RecordingExpires, vars, Greet, connVars, roomVars, redisVars, TypeOK
  <2> QED BY <1>1, <1>4, <2>1
<1> QED BY <1>3, <1>5, <1>6, <1>7 DEF Next, ClientStep, Fault

-----------------------------------------------------------------------------
(* The theorems.                                                           *)

\* Whatever clients ask for, in whatever order, and whatever fault strikes:
\* both sides of membership agree, every client in a podcast has been told who
\* is with it and what is recording, pairs are mutual with one initiator, and
\* a running recording's Redis record, while there is one, is its own.
THEOREM SignalingIsSafe == Spec => []SignalingInvariant
<1>1. Init => SignalingInvariant
  <2> SUFFICES ASSUME Init PROVE SignalingInvariant
    OBVIOUS
  <2>1. TypeOK
    BY DEF Init, TypeOK, NoStop, NoRecord, Record
  <2>2. MembershipAgrees
    <3>1. \A p \in Podcasts : Cardinality(members[p]) <= MaxClients
      BY FS_EmptySet, MaxClientsAssumption DEF Init
    <3> QED BY <3>1, NoneAssumption DEF Init, MembershipAgrees
  <2>3. Bookkeeping /\ ClientsAreTold /\ PairingAgrees /\ RecordAgrees /\ EndingAgrees
    BY DEF Init, Bookkeeping, ClientsAreTold, PairingAgrees, RecordAgrees, EndingAgrees, MutexFree, NoStop
  <2> QED BY <2>1, <2>2, <2>3 DEF SignalingInvariant
<1>2. SignalingInvariant /\ [Next]_vars => SignalingInvariant'
  BY TypeStep, MembershipStep, BookkeepingStep, ToldStep, PairingStep, RecordStep, EndingStep
  DEF SignalingInvariant
<1> QED BY <1>1, <1>2, PTL DEF Spec

\* Whoever moves, is refused or drops its connection leaves nothing behind.
THEOREM MembershipAgreesHolds == Spec => []MembershipAgrees
<1>1. SignalingInvariant => MembershipAgrees
  BY DEF SignalingInvariant
<1> QED BY <1>1, SignalingIsSafe, PTL

\* No handler forgets anyone it must tell who is there and what is recording.
THEOREM ClientsAreToldHolds == Spec => []ClientsAreTold
<1>1. SignalingInvariant => ClientsAreTold
  BY DEF SignalingInvariant
<1> QED BY <1>1, SignalingIsSafe, PTL

\* Pairs stay mutual and of one podcast, and one of the two makes the offer.
THEOREM PairingAgreesHolds == Spec => []PairingAgrees
<1>1. SignalingInvariant => PairingAgrees
  BY DEF SignalingInvariant
<1> QED BY <1>1, SignalingIsSafe, PTL

\* The record of a running recording names its podcast and its host.
THEOREM RecordAgreesHolds == Spec => []RecordAgrees
<1>1. SignalingInvariant => RecordAgrees
  BY DEF SignalingInvariant
<1> QED BY <1>1, SignalingIsSafe, PTL

\* What a step may do to a record.
Final(r) ==
  /\ recordings[r].status = "ended" => recordings'[r] \in {recordings[r], NoRecord}
  /\ recordings[r].status = "active" =>
       recordings'[r] \in {recordings[r], [recordings[r] EXCEPT !.status = "ended"], NoRecord}
  /\ r \in issued /\ recordings[r] = NoRecord /\ recordings'[r] # NoRecord =>
       /\ recordings'[r].status = "ended"
       /\ \E p \in Podcasts : /\ recordings'[r].podcast = p
                             /\ recording[p] = r /\ recording'[p] # r

LEMMA FinalStep ==
  ASSUME SignalingInvariant, [Next]_vars, NEW r \in RecordingIDs
  PROVE  Final(r)
<1>1. CASE recordings'[r] \in {recordings[r], NoRecord}
  BY <1>1 DEF Final
<1>2. ASSUME NEW c \in Clients, NEW s \in RecordingIDs, StartRecording(c, s) PROVE Final(r)
  <2>1. s \notin issued /\ (r # s => recordings'[r] = recordings[r])
    BY <1>2 DEF StartRecording, CreateRecordingSession, Outcomes, SignalingInvariant, TypeOK
  <2>2. s \notin issued => recordings[s].status = "absent"
    BY DEF SignalingInvariant, Bookkeeping, NoRecord
  <2> QED BY <2>1, <2>2 DEF Final
<1>3. ASSUME NEW c \in Clients, StopRecording(c) PROVE Final(r)
  <2> DEFINE p == podcastOf[c]
             ended == [ending.record EXCEPT !.status = "ended"]
  <2>1. /\ p \in Podcasts /\ recording[p] \in RecordingIDs /\ recording[p] # None
        /\ ending.record.status # "absent" =>
             /\ ending.record.podcast = p
             /\ recordings[recording[p]].status # "absent" => recordings[recording[p]] = ending.record
    BY <1>3, StopFinds DEF SignalingInvariant
  <2>2. recordings[recording[p]].status # "ended"
    BY <2>1 DEF SignalingInvariant, RecordAgrees
  <2>3. recording'[p] # recording[p]
    BY <1>3, <2>1 DEF StopRecording, SignalingInvariant, TypeOK
  <2>4. ended.status = "ended" /\ ended.podcast = ending.record.podcast
    BY DEF SignalingInvariant, TypeOK, Record
  <2>5. recordings' = recordings \/ (/\ ending.record.status # "absent"
                                    /\ recordings' = [recordings EXCEPT ![recording[p]] = ended])
    BY <1>3 DEF StopRecording, EndRecordingSession, Outcomes
  <2>6. CASE recordings' = recordings \/ r # recording[p]
    <3>1. recordings'[r] = recordings[r]
      BY <2>5, <2>6 DEF SignalingInvariant, TypeOK
    <3> QED BY <1>1, <3>1
  <2>7. CASE /\ r = recording[p] /\ ending.record.status # "absent"
             /\ recordings' = [recordings EXCEPT ![r] = ended]
    <3>1. recordings'[r] = ended
      BY <2>7 DEF SignalingInvariant, TypeOK
    <3>2. recordings[r].status = "active" => ended = [recordings[r] EXCEPT !.status = "ended"]
      BY <2>1, <2>7
    <3> HIDE DEF ended, p
    <3> QED BY <2>1, <2>2, <2>3, <2>4, <2>7, <3>1, <3>2 DEF Final
  <2> QED BY <2>5, <2>6, <2>7
<1>4. ASSUME NEW c \in Clients,
             \/ Connect(c) \/ Greet(c) \/ Disconnect(c) \/ LeavePodcast(c) \/ Ready(c)
             \/ \E p \in Podcasts : JoinRefused(c, p) \/ JoinPodcast(c, p)
             \/ BeginStop(c)
      PROVE  Final(r)
  <2>1. UNCHANGED recordings
    BY <1>4 DEF Connect, Greet, Disconnect, LeavePodcast, Ready, JoinRefused, JoinPodcast, BeginStop,
                redisVars
  <2> QED BY <2>1, <1>1
<1>5. CASE Crash \/ UNCHANGED vars
  BY <1>5, <1>1 DEF Crash, vars, redisVars
<1>6. CASE RedisRestart \/ \E s \in RecordingIDs : RecordingExpires(s)
  <2>1. recordings'[r] \in {recordings[r], NoRecord}
    BY <1>6 DEF RedisRestart, RecordingExpires, SignalingInvariant, TypeOK
  <2> QED BY <2>1, <1>1
<1> QED BY <1>2, <1>3, <1>4, <1>5, <1>6 DEF Next, ClientStep, Fault

\* No record runs again, whatever is refused, lost or restarted: one that ended
\* stays ended until it is gone, and one that is gone is at most written back
\* as ended, by the stop of its own recording that had read it.
THEOREM RecordsAreFinal == Spec => RecordIsFinal
<1>1. SignalingInvariant /\ [Next]_vars => [\A r \in RecordingIDs : Final(r)]_vars
  BY FinalStep
<1> QED BY <1>1, SignalingIsSafe, PTL DEF Spec, RecordIsFinal, Final

-----------------------------------------------------------------------------
(* Pairing, the end of a recording, and what Redis has when it refuses     *)
(* nothing.                                                                *)

LEMMA ReadyPairsStep ==
  ASSUME SignalingInvariant, [Next]_vars, NEW p \in Podcasts, Cardinality(members'[p]) = 2,
         ready'[p] = members'[p], ready'[p] \ ready[p] # {}, NEW c \in members'[p]
  PROVE  {peer'[c]} = members'[p] \ {c}
<1>1. ASSUME NEW d \in Clients, Ready(d) PROVE {peer'[c]} = members'[p] \ {c}
  <2> DEFINE q == podcastOf[d]
  <2>1. q \in Podcasts /\ members' = members /\ ready' = [ready EXCEPT ![q] = @ \cup {d}]
    BY <1>1 DEF Ready, SignalingInvariant, TypeOK
  <2>2. p = q /\ ready'[p] = ready[p] \cup {d}
    BY <2>1 DEF SignalingInvariant, TypeOK
  <2>3. BothReady(q, d)
    BY <2>1, <2>2 DEF BothReady
  <2>4. c \in Clients /\ peer'[c] = CHOOSE e \in members[p] : e # c
    BY <1>1, <2>1, <2>2, <2>3 DEF Ready, SignalingInvariant, TypeOK
  <2>5. PICK e \in members[p] : e # c /\ members[p] = {c, e}
    <3>1. members[p] \in SUBSET Clients
      BY DEF SignalingInvariant, TypeOK
    <3> QED BY <2>1, <3>1, TheOther
  <2> QED BY <2>1, <2>4, <2>5
<1>2. ASSUME NEW d \in Clients,
             \/ Disconnect(d) \/ LeavePodcast(d)
             \/ \E q \in Podcasts : JoinRefused(d, q) \/ JoinPodcast(d, q)
      PROVE  FALSE
  <2>1. ready' = ReadyLess(d)
    BY <1>2 DEF Disconnect, LeavePodcast, JoinRefused, JoinPodcast, LeavePodcastInternal
  <2> QED BY <2>1 DEF ReadyLess
<1>3. ASSUME NEW d \in Clients,
             \/ Connect(d) \/ Greet(d) \/ BeginStop(d) \/ StopRecording(d)
             \/ \E r \in RecordingIDs : StartRecording(d, r)
      PROVE  FALSE
  BY <1>3 DEF Connect, Greet, BeginStop, StopRecording, StartRecording, roomVars
<1>4. CASE Fault \/ UNCHANGED vars
  BY <1>4 DEF Fault, Crash, RedisRestart, RecordingExpires, vars, roomVars
<1> QED BY <1>1, <1>2, <1>3, <1>4 DEF Next, ClientStep

\* The ready message that makes both of two ready pairs them, whoever came and
\* went between their messages.
THEOREM ReadyPairsHolds == Spec => ReadyPairs
<1>1. SignalingInvariant /\ [Next]_vars =>
        [\A p \in Podcasts :
           /\ Cardinality(members'[p]) = 2
           /\ ready'[p] = members'[p]
           /\ ready'[p] \ ready[p] # {}
           => \A c \in members'[p] : {peer'[c]} = members'[p] \ {c}]_vars
  BY ReadyPairsStep
<1> QED BY <1>1, SignalingIsSafe, PTL DEF Spec, ReadyPairs

LEMMA DeletedIsEmpty ==
  ASSUME SignalingInvariant, NEW c \in Clients, NEW p \in Podcasts,
         RecordingLess(c)[p] # recording[p]
  PROVE  MembersLess(c)[p] = {} /\ p = podcastOf[c]
BY DEF RecordingLess, Deleted, MembersLess

\* What a stop reads when Redis refuses nothing: no record only if there is none.
ReadInFull ==
  MutexFree \/ (ending.record.status = "absent" =>
                  recordings[recording[podcastOf[ending.client]]].status = "absent")

LEMMA ReadInFullStep ==
  ASSUME SignalingInvariant, [Next]_vars, "refuse" \notin Faults, ReadInFull
  PROVE  ReadInFull'
<1>1. ASSUME MutexFree, UNCHANGED ending PROVE ReadInFull'
  BY <1>1 DEF MutexFree, ReadInFull
<1>2. ASSUME ending' = NoStop PROVE ReadInFull'
  BY <1>2 DEF NoStop, MutexFree, ReadInFull
<1>3. ASSUME NEW c \in Clients, BeginStop(c) PROVE ReadInFull'
  <2>1. ending' = [client |-> c, record |-> recordings[recording[podcastOf[c]]]]
    BY <1>3 DEF BeginStop, GetRecording, Outcomes
  <2>2. ending'.client = c /\ ending'.record = recordings[recording[podcastOf[c]]]
    BY <2>1
  <2> QED BY <1>3, <2>2 DEF BeginStop, ReadInFull, connVars, roomVars, redisVars
<1>4. ASSUME ~MutexFree, UNCHANGED <<ending, podcastOf, recording>>,
             \A r \in RecordingIDs : recordings'[r] \in {recordings[r], NoRecord}
      PROVE  ReadInFull'
  <2> DEFINE r == recording[podcastOf[ending.client]]
  <2>1. r \in RecordingIDs
    BY <1>4 DEF SignalingInvariant, EndingAgrees, TypeOK
  <2>2. recordings[r].status = "absent" => recordings'[r].status = "absent"
    BY <1>4, <2>1 DEF NoRecord
  <2> QED BY <1>4, <2>2 DEF ReadInFull, MutexFree
<1>5. ASSUME NEW c \in Clients, MutexFree,
             \/ Connect(c) \/ Disconnect(c) \/ LeavePodcast(c) \/ Ready(c)
             \/ \E p \in Podcasts : JoinRefused(c, p) \/ JoinPodcast(c, p)
             \/ \E r \in RecordingIDs : StartRecording(c, r)
      PROVE  ReadInFull'
  <2>1. UNCHANGED ending
    BY <1>5 DEF Connect, Disconnect, LeavePodcast, Ready, JoinRefused, JoinPodcast, StartRecording
  <2> QED BY <1>1, <1>5, <2>1
<1>6. CASE Crash \/ \E c \in Clients : StopRecording(c)
  BY <1>2, <1>6 DEF Crash, StopRecording
<1>7. CASE \/ RedisRestart \/ \E r \in RecordingIDs : RecordingExpires(r)
           \/ UNCHANGED vars \/ \E c \in Clients : Greet(c)
  <2>1. /\ UNCHANGED <<ending, podcastOf, recording>>
        /\ \A r \in RecordingIDs : recordings'[r] \in {recordings[r], NoRecord}
    BY <1>7 DEF RedisRestart, RecordingExpires, vars, Greet, connVars, roomVars, redisVars,
                SignalingInvariant, TypeOK
  <2> QED BY <1>1, <1>4, <2>1
<1> QED BY <1>3, <1>5, <1>6, <1>7 DEF Next, ClientStep, Fault

LEMMA StopEndsStep ==
  ASSUME SignalingInvariant, ReadInFull, [Next]_vars, "refuse" \notin Faults, NEW p \in Podcasts,
         recording[p] # None, recording'[p] # recording[p], members'[p] # {}
  PROVE  recordings'[recording[p]].status # "active"
<1>1. ASSUME NEW c \in Clients, Disconnect(c) \/ LeavePodcast(c) \/ \E q \in Podcasts : JoinRefused(c, q)
      PROVE  FALSE
  <2>1. recording' = RecordingLess(c) /\ members' = MembersLess(c)
    BY <1>1 DEF Disconnect, LeavePodcast, JoinRefused, LeavePodcastInternal
  <2> QED BY <2>1, DeletedIsEmpty
<1>2. ASSUME NEW c \in Clients, NEW q \in Podcasts, JoinPodcast(c, q) PROVE FALSE
  <2>1. /\ recording' = RecordingLess(c) /\ podcastOf[c] # q
        /\ members' = [MembersLess(c) EXCEPT ![q] = members[q] \cup {c}]
    BY <1>2 DEF JoinPodcast
  <2>2. MembersLess(c)[p] = {} /\ p # q
    BY <2>1, DeletedIsEmpty
  <2> QED BY <2>1, <2>2 DEF MembersLess
<1>3. ASSUME NEW c \in Clients, NEW r \in RecordingIDs, StartRecording(c, r) PROVE FALSE
  BY <1>3 DEF StartRecording, SignalingInvariant, TypeOK
<1>4. ASSUME NEW c \in Clients, StopRecording(c) PROVE recordings'[recording[p]].status # "active"
  <2>1. p = podcastOf[c] /\ recording[p] \in RecordingIDs
    BY <1>4 DEF StopRecording, SignalingInvariant, TypeOK
  <2>2. recordings \in [RecordingIDs -> Record] /\ ending.record \in Record
    BY DEF SignalingInvariant, TypeOK
  <2>3. CASE ending.record.status = "absent"
    <3>1. ending.client = c /\ ~MutexFree
      BY <1>4, NoneAssumption DEF StopRecording, MutexFree
    <3> QED BY <1>4, <2>1, <2>3, <3>1 DEF StopRecording, EndRecordingSession, ReadInFull
  <2>4. CASE ending.record.status # "absent"
    <3>1. recordings' = [recordings EXCEPT ![recording[p]] = [ending.record EXCEPT !.status = "ended"]]
      BY <1>4, <2>1, <2>4 DEF StopRecording, EndRecordingSession, Outcomes
    <3> QED BY <2>1, <2>2, <3>1 DEF Record
  <2> QED BY <2>3, <2>4
<1>5. ASSUME NEW c \in Clients, Connect(c) \/ Greet(c) \/ Ready(c) \/ BeginStop(c) PROVE FALSE
  BY <1>5 DEF Connect, Greet, Ready, BeginStop, roomVars
<1>6. CASE Fault \/ UNCHANGED vars
  BY <1>6 DEF Fault, Crash, RedisRestart, RecordingExpires, vars, roomVars
<1> QED BY <1>1, <1>2, <1>3, <1>4, <1>5, <1>6 DEF Next, ClientStep

\* Unless Redis refuses it, the end of a recording in a podcast that goes on
\* reaches the record.
THEOREM StopEndsRecordHolds == "refuse" \notin Faults => (Spec => StopEndsRecord)
<1> SUFFICES ASSUME "refuse" \notin Faults PROVE Spec => StopEndsRecord
  OBVIOUS
<1>1. SignalingInvariant /\ ReadInFull /\ [Next]_vars =>
        [\A p \in Podcasts :
           recording[p] # None /\ recording'[p] # recording[p] /\ members'[p] # {}
           => recordings'[recording[p]].status # "active"]_vars
  BY StopEndsStep
<1>2. Init => ReadInFull
  BY DEF Init, ReadInFull, MutexFree, NoStop
<1>3. SignalingInvariant /\ ReadInFull /\ [Next]_vars => ReadInFull'
  BY ReadInFullStep
<1> QED BY <1>1, <1>2, <1>3, SignalingIsSafe, PTL DEF Spec, StopEndsRecord

LEMMA HostSessionStep ==
  ASSUME SignalingInvariant, [Next]_vars, Faults \cap {"refuse", "redis restart"} = {},
         HostHasSession
  PROVE  HostHasSession'
<1>1. ASSUME NEW c \in Clients, Disconnect(c) \/ LeavePodcast(c) \/ \E q \in Podcasts : JoinRefused(c, q)
      PROVE  HostHasSession'
  <2>1. /\ podcasts' = podcasts \ Deleted(c) /\ host' = HostLess(c)
        /\ podcastSessions' = podcastSessions
    BY <1>1 DEF Disconnect, LeavePodcast, JoinRefused, LeavePodcastInternal, redisVars
  <2> QED BY <2>1 DEF HostHasSession, HostLess, SignalingInvariant, TypeOK
<1>2. ASSUME NEW c \in Clients, NEW p \in Podcasts, JoinPodcast(c, p) PROVE HostHasSession'
  <2>1. /\ podcasts' = (podcasts \ Deleted(c)) \cup {p} /\ podcastOf[c] # p
        /\ host' = IF p \notin podcasts THEN [HostLess(c) EXCEPT ![p] = UserOf[c]] ELSE HostLess(c)
        /\ podcastSessions' = IF p \notin podcasts THEN podcastSessions \cup {<<UserOf[c], p>>}
                              ELSE podcastSessions
    BY <1>2 DEF JoinPodcast, CreatePodcastSession, Outcomes
  <2>2. /\ podcastSessions \subseteq podcastSessions'
        /\ p \notin podcasts => <<UserOf[c], p>> \in podcastSessions'
    BY <2>1
  <2>3. ASSUME NEW q \in podcasts' PROVE <<host'[q], q>> \in podcastSessions'
    <3>1. CASE q \in podcasts
      <4>1. q \notin Deleted(c) /\ q \in Podcasts
        BY <2>1, <2>3, <3>1 DEF Deleted, SignalingInvariant, TypeOK
      <4>2. host'[q] = host[q]
        BY <2>1, <3>1, <4>1 DEF HostLess
      <4>3. <<host[q], q>> \in podcastSessions
        BY <3>1 DEF HostHasSession
      <4> QED BY <2>2, <4>2, <4>3
    <3>2. CASE q \notin podcasts
      <4>1. q = p /\ p \notin podcasts
        BY <2>1, <2>3, <3>2
      <4>2. host'[q] = UserOf[c]
        BY <2>1, <4>1 DEF HostLess
      <4> QED BY <2>2, <4>1, <4>2
    <3> QED BY <3>1, <3>2
  <2> QED BY <2>3 DEF HostHasSession
<1>3. ASSUME NEW c \in Clients,
             \/ Connect(c) \/ Greet(c) \/ Ready(c) \/ BeginStop(c) \/ StopRecording(c)
             \/ \E r \in RecordingIDs : StartRecording(c, r)
      PROVE  HostHasSession'
  BY <1>3 DEF Connect, Greet, Ready, BeginStop, StopRecording, StartRecording, roomVars, redisVars, HostHasSession
<1>4. CASE Fault \/ UNCHANGED vars
  BY <1>4 DEF Fault, Crash, RedisRestart, RecordingExpires, vars, roomVars, redisVars, HostHasSession
<1> QED BY <1>1, <1>2, <1>3, <1>4 DEF Next, ClientStep

\* Unless Redis refuses or forgets it, the host of an open podcast has the
\* session that lets its chunks through, through crashes of the server too.
THEOREM HostHasSessionHolds ==
  Faults \cap {"refuse", "redis restart"} = {} => (Spec => []HostHasSession)
<1> SUFFICES ASSUME Faults \cap {"refuse", "redis restart"} = {} PROVE Spec => []HostHasSession
  OBVIOUS
<1>1. Init => HostHasSession
  BY DEF Init, HostHasSession
<1>2. SignalingInvariant /\ HostHasSession /\ [Next]_vars => HostHasSession'
  BY HostSessionStep
<1> QED BY <1>1, <1>2, SignalingIsSafe, PTL DEF Spec

LEMMA PairIs ==
  ASSUME NEW e \in Clients \X Podcasts
  PROVE  \E c \in Clients, p \in Podcasts : e = <<c, p>>
OBVIOUS

LEMMA LeaveReplays ==
  ASSUME SignalingInvariant, NEW c \in Clients, "refuse" \notin Faults,
         NEW left \in JournalsLess(c), EventsReplay
  PROVE  /\ left \in Journal
         /\ left.connected = journal.connected /\ left.recording = journal.recording
         /\ {e \in Clients \X Podcasts : e[1] \in MembersLess(c)[e[2]]} = left.inside
<1>1. journal \in Journal
  BY DEF SignalingInvariant, TypeOK, Journal
<1>2. left = [journal EXCEPT !.inside = @ \ {<<c, podcastOf[c]>>}]
  BY DEF JournalsLess, Outcomes
<1>3. /\ left \in Journal /\ left.connected = journal.connected
      /\ left.recording = journal.recording /\ left.inside = journal.inside \ {<<c, podcastOf[c]>>}
  BY <1>1, <1>2 DEF Journal
<1>4. ASSUME NEW e \in Clients \X Podcasts
      PROVE  e[1] \in MembersLess(c)[e[2]] <=> e[1] \in members[e[2]] /\ e # <<c, podcastOf[c]>>
  <2>1. PICK d \in Clients, p \in Podcasts : e = <<d, p>>
    BY PairIs
  <2>2. c \in members[p] => podcastOf[c] = p
    BY DEF SignalingInvariant, MembershipAgrees
  <2> QED BY <2>1, <2>2 DEF MembersLess
<1>5. {e \in Clients \X Podcasts : e[1] \in members[e[2]]} = journal.inside
  BY DEF EventsReplay
<1> QED BY <1>3, <1>4, <1>5

LEMMA ReplayStep ==
  ASSUME SignalingInvariant, SignalingInvariant', [Next]_vars, EventsReplay,
         Faults \cap {"refuse", "redis restart", "crash"} = {}
  PROVE  EventsReplay'
<1>0. journal \in Journal /\ "refuse" \notin Faults
  BY DEF SignalingInvariant, TypeOK, Journal
<1>1. ASSUME NEW c \in Clients, Connect(c) \/ Ready(c) \/ BeginStop(c) PROVE EventsReplay'
  <2>1. members' = members /\ recording' = recording /\ journal' = journal
    BY <1>1 DEF Connect, Ready, BeginStop, roomVars
  <2>2. {d \in Clients : conn'[d] = "serving"} = {d \in Clients : conn[d] = "serving"}
    BY <1>1 DEF Connect, Ready, BeginStop, connVars, SignalingInvariant, TypeOK
  <2> QED BY <2>1, <2>2 DEF EventsReplay
<1>2. ASSUME NEW c \in Clients, Greet(c) PROVE EventsReplay'
  <2>1. journal' = [journal EXCEPT !.connected = @ \cup {c}]
    BY <1>0, <1>2 DEF Greet, QueueEvent, Outcomes
  <2>2. /\ journal'.connected = journal.connected \cup {c}
        /\ journal'.inside = journal.inside /\ journal'.recording = journal.recording
    BY <1>0, <2>1 DEF Journal
  <2>3. {d \in Clients : conn'[d] = "serving"} = {d \in Clients : conn[d] = "serving"} \cup {c}
    <3>1. \A d \in Clients : conn'[d] = "serving" <=> conn[d] = "serving" \/ d = c
      BY <1>2 DEF Greet, SignalingInvariant, TypeOK
    <3> QED BY <3>1
  <2>4. members' = members /\ recording' = recording
    BY <1>2 DEF Greet, roomVars
  <2> QED BY <2>2, <2>3, <2>4 DEF EventsReplay
<1>3. ASSUME NEW c \in Clients, Disconnect(c) PROVE EventsReplay'
  <2>1. PICK left \in JournalsLess(c) : journal' = [left EXCEPT !.connected = @ \ {c}]
    BY <1>0, <1>3 DEF Disconnect, QueueEvent, Outcomes
  <2>2. /\ journal'.connected = journal.connected \ {c} /\ journal'.recording = journal.recording
        /\ journal'.inside = {e \in Clients \X Podcasts : e[1] \in MembersLess(c)[e[2]]}
    BY <1>0, <2>1, LeaveReplays DEF Journal
  <2>3. {d \in Clients : conn'[d] = "serving"} = {d \in Clients : conn[d] = "serving"} \ {c}
    BY <1>3 DEF Disconnect, SignalingInvariant, TypeOK
  <2>4. members' = MembersLess(c) /\ recording' = RecordingLess(c)
    BY <1>3 DEF Disconnect, LeavePodcastInternal
  <2>5. {p \in Podcasts : recording'[p] # None} \subseteq journal.recording
    BY <2>4 DEF RecordingLess, EventsReplay
  <2> QED BY <2>2, <2>3, <2>4, <2>5 DEF EventsReplay
<1>4. ASSUME NEW c \in Clients, LeavePodcast(c) \/ \E p \in Podcasts : JoinRefused(c, p)
      PROVE  EventsReplay'
  <2>1. /\ journal' \in JournalsLess(c) /\ conn' = conn
        /\ members' = MembersLess(c) /\ recording' = RecordingLess(c)
    BY <1>4 DEF LeavePodcast, JoinRefused, LeavePodcastInternal
  <2>2. /\ journal'.connected = journal.connected /\ journal'.recording = journal.recording
        /\ journal'.inside = {e \in Clients \X Podcasts : e[1] \in MembersLess(c)[e[2]]}
    BY <1>0, <2>1, LeaveReplays
  <2>3. {p \in Podcasts : recording'[p] # None} \subseteq journal.recording
    BY <2>1 DEF RecordingLess, EventsReplay
  <2> QED BY <2>1, <2>2, <2>3 DEF EventsReplay
<1>5. ASSUME NEW c \in Clients, NEW p \in Podcasts, JoinPodcast(c, p) PROVE EventsReplay'
  <2>1. PICK left \in JournalsLess(c) : journal' = [left EXCEPT !.inside = @ \cup {<<c, p>>}]
    BY <1>0, <1>5 DEF JoinPodcast, QueueEvent, Outcomes
  <2>2. /\ journal'.connected = journal.connected /\ journal'.recording = journal.recording
        /\ journal'.inside = {e \in Clients \X Podcasts : e[1] \in MembersLess(c)[e[2]]} \cup {<<c, p>>}
    BY <1>0, <2>1, LeaveReplays DEF Journal
  <2>3. /\ members' = [MembersLess(c) EXCEPT ![p] = members[p] \cup {c}]
        /\ podcastOf[c] # p /\ conn' = conn /\ recording' = RecordingLess(c)
    BY <1>5 DEF JoinPodcast
  <2>4. ASSUME NEW e \in Clients \X Podcasts
        PROVE  e[1] \in members'[e[2]] <=> e[1] \in MembersLess(c)[e[2]] \/ e = <<c, p>>
    <3>1. PICK d \in Clients, q \in Podcasts : e = <<d, q>>
      BY PairIs
    <3> QED BY <2>3, <3>1 DEF MembersLess
  <2>5. {q \in Podcasts : recording'[q] # None} \subseteq journal.recording
    BY <2>3 DEF RecordingLess, EventsReplay
  <2>6. {e \in Clients \X Podcasts : e[1] \in members'[e[2]]} = journal'.inside
    <3>1. {e \in Clients \X Podcasts : e[1] \in members'[e[2]]} =
            {e \in Clients \X Podcasts : e[1] \in MembersLess(c)[e[2]] \/ e = <<c, p>>}
      BY <2>4
    <3>2. <<c, p>> \in Clients \X Podcasts
      OBVIOUS
    <3> QED BY <2>2, <3>1, <3>2
  <2> QED BY <2>2, <2>3, <2>5, <2>6 DEF EventsReplay
<1>6. ASSUME NEW c \in Clients,
             StopRecording(c) \/ \E r \in RecordingIDs : StartRecording(c, r)
      PROVE  EventsReplay'
  <2> DEFINE p == podcastOf[c]
  <2>1. p \in Podcasts /\ conn' = conn /\ members' = members
    BY <1>6, StopFinds DEF StopRecording, StartRecording, connVars, SignalingInvariant, TypeOK
  <2>2. \/ /\ journal' = [journal EXCEPT !.recording = @ \cup {p}]
           /\ \E r \in RecordingIDs : recording' = [recording EXCEPT ![p] = r]
        \/ /\ journal' = [journal EXCEPT !.recording = @ \ {p}]
           /\ recording' = [recording EXCEPT ![p] = None]
    BY <1>0, <1>6 DEF StopRecording, StartRecording, QueueEvent, Outcomes
  <2>3. journal'.connected = journal.connected /\ journal'.inside = journal.inside
    BY <1>0, <2>2 DEF Journal
  <2>4. {q \in Podcasts : recording[q] # None} \subseteq journal.recording
    BY DEF EventsReplay
  <2>5. recording \in [Podcasts -> RecordingIDs \cup {None}]
    BY DEF SignalingInvariant, TypeOK
  <2>6. {q \in Podcasts : recording'[q] # None} \subseteq journal'.recording
    <3>1. CASE /\ journal' = [journal EXCEPT !.recording = @ \cup {p}]
               /\ \E r \in RecordingIDs : recording' = [recording EXCEPT ![p] = r]
      <4>1. journal'.recording = journal.recording \cup {p}
        BY <1>0, <3>1 DEF Journal
      <4>2. \A q \in Podcasts : q # p => recording'[q] = recording[q]
        BY <2>5, <3>1
      <4> QED BY <2>4, <4>1, <4>2
    <3>2. CASE /\ journal' = [journal EXCEPT !.recording = @ \ {p}]
               /\ recording' = [recording EXCEPT ![p] = None]
      <4>1. journal'.recording = journal.recording \ {p}
        BY <1>0, <3>2 DEF Journal
      <4>2. \A q \in Podcasts : recording'[q] = IF q = p THEN None ELSE recording[q]
        BY <2>5, <3>2
      <4> QED BY <2>4, <4>1, <4>2
    <3> QED BY <2>2, <3>1, <3>2
  <2> QED BY <2>1, <2>3, <2>6 DEF EventsReplay
<1>7. CASE Fault \/ UNCHANGED vars
  <2>1. conn' = conn /\ members' = members /\ recording' = recording /\ journal' = journal
    BY <1>7 DEF Fault, Crash, RedisRestart, RecordingExpires, vars, connVars, roomVars
  <2> QED BY <2>1 DEF EventsReplay
<1> QED BY <1>1, <1>2, <1>3, <1>4, <1>5, <1>6, <1>7 DEF Next, ClientStep

\* Unless Redis refuses or forgets one or the server crashes, the events pushed
\* replay to who is connected and who is in which podcast.
THEOREM EventsReplayHolds ==
  Faults \cap {"refuse", "redis restart", "crash"} = {} => (Spec => []EventsReplay)
<1> SUFFICES ASSUME Faults \cap {"refuse", "redis restart", "crash"} = {}
             PROVE  Spec => []EventsReplay
  OBVIOUS
<1>1. Init => EventsReplay
  <2> SUFFICES ASSUME Init PROVE EventsReplay
    OBVIOUS
  <2>1. journal.connected = {} /\ journal.inside = {}
    BY DEF Init
  <2>2. \A c \in Clients : conn[c] # "serving"
    BY DEF Init
  <2>3. \A e \in Clients \X Podcasts : e[1] \notin members[e[2]]
    BY PairIs DEF Init
  <2>4. \A p \in Podcasts : recording[p] = None
    BY DEF Init
  <2> QED BY <2>1, <2>2, <2>3, <2>4 DEF EventsReplay
<1>2. SignalingInvariant /\ SignalingInvariant' /\ EventsReplay /\ [Next]_vars => EventsReplay'
  BY ReplayStep
<1> QED BY <1>1, <1>2, SignalingIsSafe, PTL DEF Spec

-----------------------------------------------------------------------------
(* Refinement.                                                             *)

\* The cardinality the instance of Rooms speaks of is the library's.
LEMMA SameCardinality ==
  ASSUME NEW S
  PROVE  Promise!Cardinality(S) = Cardinality(S)
BY DEF Promise!Cardinality, Cardinality

LEMMA InIsMembers ==
  ASSUME TypeOK, MembershipAgrees, NEW p \in Podcasts
  PROVE  Promise!In(p) = members[p]
BY DEF Promise!In, TypeOK, MembershipAgrees

\* What a podcast keeps: what it had while it has members, else nothing.
LEMMA WhatIsKept ==
  ASSUME SignalingInvariant, SignalingInvariant', NEW f \in [Podcasts -> Users \cup {None}],
         NEW g \in [Podcasts -> RecordingIDs \cup {None}],
         \A p \in podcasts' : host'[p] = f[p] /\ recording'[p] = g[p]
  PROVE  host' = Promise!Kept(f) /\ recording' = Promise!Kept(g)
<1>1. \A p \in Podcasts : Promise!In(p)' = {} <=> p \notin podcasts'
  BY DEF SignalingInvariant, TypeOK, MembershipAgrees, Promise!In
<1>2. \A p \in Podcasts \ podcasts' : host'[p] = None /\ recording'[p] = None
  BY DEF SignalingInvariant, Bookkeeping
<1>3. /\ host' \in [Podcasts -> Users \cup {None}] 
      /\ recording' \in [Podcasts -> RecordingIDs \cup {None}]
  BY DEF SignalingInvariant, TypeOK
<1>4. /\ Promise!Kept(f) = [p \in Podcasts |-> IF p \notin podcasts' THEN None ELSE f[p]]
      /\ Promise!Kept(g) = [p \in Podcasts |-> IF p \notin podcasts' THEN None ELSE g[p]]
  BY <1>1 DEF Promise!Kept
<1>5. host' = [p \in Podcasts |-> IF p \notin podcasts' THEN None ELSE f[p]]
  BY <1>2, <1>3
<1>6. recording' = [p \in Podcasts |-> IF p \notin podcasts' THEN None ELSE g[p]]
  BY <1>2, <1>3
<1> QED BY <1>4, <1>5, <1>6

\* The handlers, with all they do to readiness, to Redis and to what clients
\* are told, are an implementation of the abstract rooms.
THEOREM SignalingImplementsRooms == Spec => ImplementsRooms
<1>1. Init => Promise!Init
  BY DEF Init, Promise!Init
<1>2. SignalingInvariant /\ SignalingInvariant' /\ [Next]_vars => [Promise!Next]_(Promise!vars)
  <2> SUFFICES ASSUME SignalingInvariant, SignalingInvariant', [Next]_vars
               PROVE  Promise!Next \/ UNCHANGED Promise!vars
    OBVIOUS
  <2> USE DEF SignalingInvariant
  <2>1. ASSUME NEW c \in Clients,
               Disconnect(c) \/ LeavePodcast(c) \/ \E p \in Podcasts : JoinRefused(c, p)
        PROVE  Promise!Depart({c})
    <3>1. LeavePodcastInternal(c) /\ UNCHANGED issued
      BY <2>1 DEF Disconnect, LeavePodcast, JoinRefused
    <3>2. podcastOf' = [d \in Clients |-> IF d \in {c} THEN None ELSE podcastOf[d]]
      BY <3>1 DEF LeavePodcastInternal, TypeOK
    <3>3. \A p \in podcasts' : host'[p] = host[p] /\ recording'[p] = recording[p]
      BY <3>1 DEF LeavePodcastInternal, HostLess, RecordingLess, TypeOK
    <3>4. host' = Promise!Kept(host) /\ recording' = Promise!Kept(recording)
      BY <3>3, WhatIsKept DEF TypeOK
    <3> QED BY <3>1, <3>2, <3>4 DEF Promise!Depart
  <2>2. ASSUME NEW c \in Clients, NEW p \in Podcasts, JoinPodcast(c, p) PROVE Promise!Enter(c, p)
    <3> DEFINE entered == [host EXCEPT ![p] = IF Promise!In(p) = {} THEN UserOf[c] ELSE @]
    <3>1. Promise!In(p) = members[p]
      BY InIsMembers
    <3>2. /\ podcastOf[c] # p
          /\ p \notin podcasts \/ Cardinality(members[p]) < MaxClients
          /\ podcastOf' = [podcastOf EXCEPT ![c] = p]
          /\ podcasts' = (podcasts \ Deleted(c)) \cup {p}
          /\ host' = IF p \notin podcasts THEN [HostLess(c) EXCEPT ![p] = UserOf[c]] ELSE HostLess(c)
          /\ recording' = RecordingLess(c)
          /\ UNCHANGED issued
      BY <2>2 DEF JoinPodcast
    <3>3. Promise!Cardinality(Promise!In(p)) < MaxClients
      <4>1. CASE p \notin podcasts
        <5>1. members[p] = {}
          BY <4>1 DEF MembershipAgrees
        <5> QED BY <5>1, <3>1, SameCardinality, FS_EmptySet, MaxClientsAssumption
      <4> QED BY <4>1, <3>1, <3>2, SameCardinality
    <3>4. entered \in [Podcasts -> Users \cup {None}]
      BY UserOfAssumption DEF TypeOK
    <3>5. p \notin Deleted(c) /\ (p \notin podcasts <=> members[p] = {})
      BY <3>2 DEF Deleted, MembershipAgrees
    <3>6. \A q \in podcasts' : host'[q] = entered[q] /\ recording'[q] = recording[q]
      BY <3>1, <3>2, <3>5 DEF HostLess, RecordingLess, TypeOK
    <3> HIDE DEF entered
    <3>7. host' = Promise!Kept(entered) /\ recording' = Promise!Kept(recording)
      BY <3>4, <3>6, WhatIsKept DEF TypeOK
    <3>8. host' = Promise!Kept([host EXCEPT ![p] = IF Promise!In(p) = {} THEN UserOf[c] ELSE @])
      BY <3>7, Zenon DEF entered
    <3> QED BY <3>2, <3>3, <3>7, <3>8, Zenon DEF Promise!Enter
  <2>3. ASSUME NEW c \in Clients, NEW r \in RecordingIDs, StartRecording(c, r)
        PROVE  Promise!Start(c, r)
    <3>1. podcastOf[c] # None
      BY <2>3, NoneAssumption DEF StartRecording, TypeOK
    <3> QED BY <2>3, <3>1 DEF StartRecording, Promise!Start, connVars
  <2>4. ASSUME NEW c \in Clients, StopRecording(c) PROVE Promise!Stop(c)
    <3>1. /\ podcastOf[c] # None
          /\ host[podcastOf[c]] = UserOf[c] /\ recording[podcastOf[c]] # None
      BY <2>4, StopFinds, NoneAssumption
    <3> QED BY <2>4, <3>1 DEF StopRecording, Promise!Stop, connVars
  <2>5. CASE Crash
    <3>1. /\ podcastOf' = [d \in Clients |-> IF d \in Clients THEN None ELSE podcastOf[d]]
          /\ podcasts' = {} /\ UNCHANGED issued
      BY <2>5 DEF Crash
    <3>2. host' = Promise!Kept(host) /\ recording' = Promise!Kept(recording)
      BY <3>1, WhatIsKept DEF TypeOK
    <3>3. Promise!Depart(Clients)
      BY <3>1, <3>2 DEF Promise!Depart
    <3> QED BY <3>3 DEF Promise!Next
  <2>6. CASE \/ RedisRestart \/ \E r \in RecordingIDs : RecordingExpires(r)
             \/ UNCHANGED vars
             \/ \E c \in Clients : Connect(c) \/ Greet(c) \/ Ready(c) \/ BeginStop(c)
    BY <2>6 DEF RedisRestart, RecordingExpires, vars, Connect, Greet, Ready, BeginStop, connVars,
                roomVars, Promise!vars
  <2>7. ASSUME NEW c \in Clients, ClientStep(c) PROVE Promise!Next \/ UNCHANGED Promise!vars
    <3>2. CASE Disconnect(c) \/ LeavePodcast(c) \/ \E p \in Podcasts : JoinRefused(c, p)
      BY <3>2, <2>1 DEF Promise!Next
    <3>3. CASE \E p \in Podcasts : JoinPodcast(c, p)
      BY <3>3, <2>2 DEF Promise!Next
    <3>4. CASE StopRecording(c) \/ \E r \in RecordingIDs : StartRecording(c, r)
      BY <3>4, <2>3, <2>4 DEF Promise!Next
    <3>5. CASE Connect(c) \/ Greet(c) \/ Ready(c) \/ BeginStop(c)
      BY <3>5, <2>6
    <3> QED BY <2>7, <3>2, <3>3, <3>4, <3>5 DEF ClientStep
  <2> QED BY <2>5, <2>6, <2>7 DEF Next, Fault
<1> QED BY <1>1, <1>2, SignalingIsSafe, PTL DEF Spec, ImplementsRooms, Promise!Spec
=============================================================================
