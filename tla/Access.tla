------------------------------- MODULE Access -------------------------------
(***************************************************************************)
(* The upload service's permission check beside the signaling server:      *)
(* ValidateUserPermissions reads the recording's record and the podcast    *)
(* sessions in Redis with several commands, each an action here, while the *)
(* signaling server starts, ends and loses recordings.                     *)
(*                                                                         *)
(* KEYS and the HGETALLs after it are one read: a session's key is only    *)
(* ever added, or lost with all the others.  A read that Redis refuses is  *)
(* to the checks an answer of nothing found.  Left out: requests that name *)
(* no recording or no podcast.                                             *)
(***************************************************************************)
EXTENDS Signaling

CONSTANTS Askers  \* users with a request whose permission is checked, one each

VARIABLES
  checks,
  unanswered  \* history: the users of whose last check Redis refused a read

allVars == <<vars, checks, unanswered>>

\* An outcome carries nothing of the request.
Outcome(step) ==
  [step |-> step, again |-> FALSE, podcast |-> None, recording |-> None, recorded |-> None]

\* podcast is the request's, recorded the one read in the record; again: the
\* participants are looked at for the second time.
Working == {"participant", "in podcast", "host", "of podcast"}
Check == [step : Working, again : BOOLEAN, podcast : Podcasts, recording : RecordingIDs,
          recorded : Podcasts \cup {None}]

AccessTypeOK ==
  /\ checks \in [Askers -> Check \cup {Outcome("granted"), Outcome("refused")}]
  /\ unanswered \subseteq Askers

AccessInit ==
  /\ Init
  /\ checks = [u \in Askers |-> Outcome("refused")]
  /\ unanswered = {}

To(u, step) == checks' = [checks EXCEPT ![u].step = step]
End(u, outcome) == checks' = [checks EXCEPT ![u] = Outcome(outcome)]

-----------------------------------------------------------------------------
(* ValidateUserPermissions, of a request that names podcast and recording. *)

Unanswered(u) == "refuse" \in Faults /\ unanswered' = unanswered \cup {u}

\* isRecordingValid; eleven seconds after the end the final chunk comes late.
IsRecordingValid(r, final, late) ==
  \/ recordings[r].status = "active"
  \/ recordings[r].status = "ended" /\ final /\ ~late

\* A client asks with an id it was told.
Ask(u, p, r, final, late) ==
  /\ checks[u].step \notin Working
  /\ r \in issued
  /\ \/ /\ IF IsRecordingValid(r, final, late)
           THEN checks' = [checks EXCEPT ![u] = [step |-> "participant", again |-> FALSE,
                                                 podcast |-> p, recording |-> r, recorded |-> None]]
           ELSE End(u, "refused")
        /\ unanswered' = unanswered \ {u}
     \/ Unanswered(u) /\ End(u, "refused")
  /\ UNCHANGED vars

\* Mutant: only the host of the record is looked at.
IsHostOfRecord(u, r) == u = recordings[r].host
IsParticipant(u, r) == u \in recordings[r].participants

HasSession(u, p) == <<u, p>> \in podcastSessions

\* validateRecordingParticipation says no.
Denied(u) == IF checks[u].again THEN End(u, "refused") ELSE To(u, "host")

\* validateRecordingParticipation; its session check is the next action.
Participates(u) ==
  LET r == checks[u].recording IN
  /\ checks[u].step = "participant"
  /\ \/ IsParticipant(u, r) /\ End(u, "granted")
     \/ /\ ~IsParticipant(u, r)
        /\ IF recordings[r].status = "absent" THEN Denied(u)
           ELSE checks' = [checks EXCEPT ![u].step = "in podcast",
                                         ![u].recorded = recordings[r].podcast]
  /\ UNCHANGED <<vars, unanswered>>

\* validateUserInPodcast, of the podcast in the record.
InPodcast(u) ==
  /\ checks[u].step = "in podcast"
  /\ IF HasSession(u, checks[u].recorded) THEN End(u, "granted") ELSE Denied(u)
  /\ UNCHANGED <<vars, unanswered>>

\* validatePodcastHost, of the podcast in the request.
IsHost(u) ==
  /\ checks[u].step = "host"
  /\ IF HasSession(u, checks[u].podcast) THEN End(u, "granted") ELSE To(u, "of podcast")
  /\ UNCHANGED <<vars, unanswered>>

\* validateRecordingInPodcast, which goes through the participants once more.
OfPodcast(u) ==
  /\ checks[u].step = "of podcast"
  /\ IF recordings[checks[u].recording].podcast = checks[u].podcast
     THEN checks' = [checks EXCEPT ![u].step = "participant", ![u].again = TRUE]
     ELSE End(u, "refused")
  /\ UNCHANGED <<vars, unanswered>>

\* Any of the reads after the first is refused: each says no, not an error.
ReadRefused(u) ==
  /\ Unanswered(u)
  /\ \/ checks[u].step \in {"participant", "in podcast"} /\ Denied(u)
     \/ checks[u].step = "host" /\ To(u, "of podcast")
     \/ checks[u].step = "of podcast" /\ End(u, "refused")
  /\ UNCHANGED vars

Reads(u) ==
  \/ \E p \in Podcasts, r \in RecordingIDs, final, late \in BOOLEAN :
       Ask(u, p, r, final, late)
  \/ Participates(u) \/ InPodcast(u) \/ IsHost(u) \/ OfPodcast(u)
  \/ ReadRefused(u)

AccessNext == (Next /\ UNCHANGED <<checks, unanswered>>) \/ \E u \in Askers : Reads(u)

AccessSpec == AccessInit /\ [][AccessNext]_allVars

-----------------------------------------------------------------------------
(* Properties.                                                             *)

\* Nobody on the record of a recording that still runs, who names its podcast,
\* is turned away unless Redis refused a read of this very check, whatever
\* starts, stops, is refused by Redis elsewhere, expires or restarts between
\* the reads (ValidateUserPermissions, EndRecordingSession).
RunningAdmits ==
  [][\A u \in Askers :
       checks[u].step \in Working /\ checks'[u].step = "refused" /\ u \notin unanswered'
       => LET record == recordings[checks[u].recording]
          IN ~(record.status = "active" /\ record.podcast = checks[u].podcast
                  /\ u \in record.participants)]_allVars
=============================================================================
