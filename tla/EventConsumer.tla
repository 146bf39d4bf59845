--------------------------- MODULE EventConsumer ---------------------------
(***************************************************************************)
(* The events that the signaling server pushes to signaling_events_queue   *)
(* and the goroutine of the session service that pops them, parses them    *)
(* and applies them to the tables pods and pod_participants.               *)
(*                                                                         *)
(* The server pushes protobuf and the consumer parses JSON.  A protobuf    *)
(* RedisEvent begins with the byte 0A and the length of the event's name,  *)
(* 12 to 19; read as JSON that is white space and a control character,     *)
(* which begins no value.                                                  *)
(***************************************************************************)
EXTENDS Naturals, Sequences

CONSTANTS
  Users,
  Pods,       \* ids of the rows of pods that exist or that call_started may make
  MaxEvents,  \* bound: events pushed
  None

VARIABLES
  pushed,        \* number of events the server has pushed
  queue,         \* signaling_events_queue, oldest first
  working,       \* the event the consumer has popped
  processed,     \* number of events processEvent was called with
  pods,          \* host_user_id, is_active and is_recording of the rows
  participants   \* pod_participants

vars == <<pushed, queue, working, processed, pods, participants>>

\* The server sends no RoomID; the consumer reads no podcast_id.
Sent == {"client_connected", "client_disconnected", "podcast_joined", "podcast_left",
         "recording_started", "recording_stopped"}
NoPod == [host |-> None, active |-> FALSE, recording |-> FALSE]

Init ==
  /\ pushed = 0 /\ processed = 0
  /\ queue = <<>>
  /\ working = None
  /\ pods \in [Pods -> {NoPod} \cup [host : Users, active : {TRUE}, recording : {FALSE}]]
  /\ participants = {}

\* The Queue... methods; a refused LPUSH is logged and forgotten.
QueueEvent(type, user) ==
  /\ pushed < MaxEvents
  /\ pushed' = pushed + 1
  /\ queue' = Append(queue, [type |-> type, user |-> user, room |-> None, format |-> "protobuf"])
  /\ UNCHANGED <<working, processed, pods, participants>>

\* StartConsuming: BRPOP takes the event for good ...
Pop ==
  /\ queue # <<>> /\ working = None
  /\ working' = Head(queue)
  /\ queue' = Tail(queue)
  /\ UNCHANGED <<pushed, processed, pods, participants>>

\* ... and what does not parse is logged and dropped.
Decodes(e) == e.format = "json"

Known(e) == e.room \in Pods /\ pods[e.room] # NoPod

\* The rooms' and recordings' handlers look the pod up by RoomID.
HandleRoom(e) ==
  /\ Known(e)
  /\ \/ /\ e.type = "room_joined"
        /\ participants' = participants \cup {<<e.room, e.user>>}
        /\ UNCHANGED pods
     \/ /\ e.type = "room_left"
        /\ participants' = participants \ {<<e.room, e.user>>}
        /\ UNCHANGED pods
     \/ /\ e.type \in {"recording_started", "recording_stopped"}
        /\ pods' = [pods EXCEPT ![e.room].recording = e.type = "recording_started"]
        /\ UNCHANGED participants

HandleCallStarted(e) ==
  /\ e.type = "call_started"
  /\ \E n \in Pods :
       /\ pods[n] = NoPod
       /\ pods' = [pods EXCEPT ![n] = [host |-> e.user, active |-> TRUE, recording |-> FALSE]]
       /\ participants' = participants \cup {<<n, e.user>>}

HandleCallEnded(e) ==
  /\ e.type = "call_ended"
  /\ pods' = [n \in Pods |-> IF pods[n].host = e.user THEN [pods[n] EXCEPT !.active = FALSE]
                             ELSE pods[n]]
  /\ UNCHANGED participants

\* processEvent; the types it does not know, and those it only logs, change
\* nothing.
Handles(e) == HandleRoom(e) \/ HandleCallStarted(e) \/ HandleCallEnded(e)
Ignores(e) ==
  /\ e.type \notin {"call_started", "call_ended"}
  /\ e.type \in {"room_joined", "room_left", "recording_started", "recording_stopped"} => ~Known(e)
  /\ UNCHANGED <<pods, participants>>

ProcessEvent ==
  /\ working # None
  /\ working' = None
  /\ IF Decodes(working)
     THEN /\ processed' = processed + 1
          /\ Handles(working) \/ Ignores(working)
     ELSE UNCHANGED <<processed, pods, participants>>
  /\ UNCHANGED <<pushed, queue>>

Next ==
  \/ \E type \in Sent, user \in Users : QueueEvent(type, user)
  \/ Pop
  \/ ProcessEvent

\* The consumer's loop keeps going; nothing makes the server push.
Fairness == WF_vars(Pop) /\ WF_vars(ProcessEvent)
Spec == Init /\ [][Next]_vars /\ Fairness

\* "the main event structure used for Redis queue communication between
\* services (upload-service -> video-processor, signaling-server ->
\* session-service)" says events.proto of RedisEvent: what the signaling
\* server pushes the session service processes.
EventsAreProcessed == \A n \in 1..MaxEvents : pushed >= n ~> processed >= n
=============================================================================
