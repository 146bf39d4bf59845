# Verification of the podcast backend

Four Go services let people meet in a podcast over WebRTC, record it locally in chunks, upload the chunks to
S3 and get one video back. They share Redis (queues and records, run without persistence), Postgres and S3, and
run with one replica each (`infra/production/k8s`). This directory models them in TLA+, checks the models with
TLC on small instances and proves theorems about them, for all instances, with TLAPS. The repository has no
tests, so the code is the only reference.

## 1. Inventory

| part | state it keeps | operations | talks to |
|---|---|---|---|
| signaling server, `services/signaling-server` | `podcasts` and `clients` maps under one RWMutex; per podcast its clients, ready clients, host user, recording | connect, join, leave, ready, offer/answer/ICE forwarding, start and stop recording, disconnect, `GET /podcasts/:id` | Redis: writes `podcast_session:*`, `recording:<id>`, pushes to `signaling_events_queue` |
| session service, `services/session-service` | Postgres users, sessions, pods, recordings; Redis `session:*`, `podcast_host:*` | register, login, Google sign-in, refresh, logout, validate, create/check podcast, list recordings; consumer of `signaling_events_queue` | Postgres, Redis, Google |
| upload service, `services/upload-service` | `sessions` map under a mutex, keyed user and podcast; one goroutine per finished session (grace period, then delayed deletion) | presigned URL, start, finalize, status, revoke, download URL; permission check | Redis: reads `recording:<id>`, `podcast_session:*`, pushes to `queue`; S3 presigning |
| video processor, `services/video-processor` | `processedSessions` map under a mutex; one goroutine per event | pop `queue`, list chunks with retries, download, concatenate, upload, save, clean up | Redis, S3, Postgres |
| Redis | `recording:<id>` (24 h), `podcast_session:*` (for ever), `podcast_host:*` (24 h), `session:*`, two list queues | | no persistence: a restart forgets all |

How they interact: the signaling server's `recording:<id>` record decides whom the upload service lets upload;
the upload service's `recording_complete` event starts the video processor; the processor's database rows are
what the session service lists. Events travel through Redis lists popped destructively (`BRPOP`), so an event
popped by a process that then dies is gone.

What is hard: handlers of many connections interleaving on shared maps; state read outside the mutex and used
later (upload); a permission check of several Redis reads beside the server that writes what they read; goroutines
that wake up after 11 s or 1 min and act on a key that may by then name something else; duplicated, late and
reordered chunk requests; Redis refusing a command in the middle of a handler; a crash of any process; retries
bounded in number; SQL statements of several requests interleaving without transactions; two stores written one
after the other. `PROJECT.json` "hazards" lists each at its line, with the properties that cover it.

What makes each part correct:

- *signaling*: the two sides of membership agree; a podcast exists exactly while somebody is in it; every
  client in it knows who else is and what is recording; pairs are mutual with one initiator; a running
  recording's record in Redis is its own, and a record that is gone never runs again.
- *permissions*: a participant of a recording that runs is not turned away, whatever changes between the reads, by a
  check whose reads Redis answers.
- *upload*: a session moves started, finalizing, completed, or is revoked and stays so; every final chunk is
  announced with the count of chunks up to it; two announcements with the same user and session are of one
  recording; a session whose final chunk came is deleted in the end.
- *video processor*: a session is at work in at most one job at a time; a failed job gives its claim up; every
  database row leads to a video in S3; no chunk is deleted that is in no video; every job comes to an end.
- *upload and processing together*: a recording is announced once, after its end, under a session of its own; its
  video is made once, of chunks that came to S3, and its row and link lead to it (`Delivery`); a video of as many chunks
  as announced is the whole recording, in order.
- *accounts*: a person's session rows hold just the tokens the person was told and has not spent, and every cookie
  is one of them; a spent token never works again.
- *library*: a podcast that opens has a host with a pod; a saved video is on one page, of somebody who took part.
- *event consumer*: what the signaling server pushes is processed. It is not (section 4, findings).

## 2. Plan and its state

The order is that of a recording: who is in a podcast and what is being recorded, what becomes of its chunks, what
becomes of the video, then the parts around these.

| | module | models | built on | state |
|---|---|---|---|---|
| 1 | `Rooms` | abstract specification of podcasts, hosts and recordings | | done |
| 2 | `Signaling` | signaling server handlers, Redis records and queued events | implements `Rooms` | done, all of it proved |
| 3 | `UploadSession` | upload sessions, pre-signed URLs, the goroutines that end sessions | | done; proved but for liveness |
| 4 | `VideoProcessor` | consumer, jobs, listing with retries, rows, deletion of chunks | | done; proved but for liveness |
| 5 | `Pipeline` | chunks to video: the event queue, the URLs handed out, the names of chunks and the order of the video | composes 3 and 4 by `INSTANCE`, implements `Delivery` | done, proved |
| | `Delivery` | abstract specification of what the upload service, S3 and the processor promise together | | done |
| 6 | `Access` | the permission check, read by read | extends 2 | done, proved |
| 7 | `Accounts` | registration, sign-in, refresh and logout, statement by statement | | done, proved |
| 8 | `Library` | pods and their hosts in two stores, the pod of a recording, the pages | | done; proved but for liveness |
| 9 | `EventConsumer` | events as they are pushed, popped and parsed | | done; its one property fails |

Each `XProofs` module holds the theorems of `X` (those of `VideoProcessor` are in two: `VideoProcessorProofs` and
`VideoProcessorEndProofs`), each `MCX` module the values of the constants that a `.cfg` cannot write. Nothing of the
plan is left; section 6 says what no module models and why.

## 3. Modules and the code

`PROJECT.json` "map" gives, for every definition that models code, the lines it stands for. This section says how
state and steps were chosen.

### Signaling (`services/signaling-server`)

*State.* `members`, `ready`, `host`, `recording` are the fields of `Podcast`, `podcasts` the keys of the server's
map, `podcastOf` is `Client.PodcastID`. `IsRecording` and `RecordingID` are always set and cleared together and
are one variable. `recordings` and `podcastSessions` are the Redis records. Four variables
(`roster`, `toldRecording`, `peer`, `initiates`) hold what the messages written to each socket add up to for the
client that reads them in order, and `journal` holds what the queued events add up to: this is how properties can
speak of what others were told without histories.

*Steps.* A handler takes the mutex and holds it to the end, its Redis commands included, so it is one action, with two
exceptions. Connecting is two actions: registration is under the mutex, the `client_connected` event and the welcome
message are written after it. Stopping a recording is two, `BeginStop` as far as the GET of the record and
`StopRecording` from the SET on: the variable `ending` holds the mutex and the record read, and in between Redis may lose
or expire what is then written back. (The commands of the other handlers only write: what Redis loses between two of
them it might as well have refused.) A join leaves the client's old podcast first, in the same action, also when the new one then
refuses it. Any Redis command may be refused when "refuse" is a fault; the handlers log it and go on. A crash in
the middle of a handler needs no step of its own: what it leaves in Redis is what a crash after the handler leaves
when the remaining commands were refused.

*Left out.* `forwardMessage` and `GetPodcastInfo` (they change no state; section 6), `Client.IsReady` and
`Client.RecordingID` (written, never read), `UserSessionID` and the deletion it guards (never set), the user id field
of the queued recording events (the code passes the client's id there).

*What the model shows of the code that a reader may not expect.* A third member keeps two ready ones unpaired, and
when it leaves nobody tests again. A client refused by a full podcast has already left the one it was in. When the
last client leaves during a recording the record in Redis stays active for its 24 hours. No property forbids these;
the comments of `ReadyPairs`, `MembershipAgrees` and `RecordAgrees` say what does hold.

### Access (`services/upload-service`: `ValidateUserPermissions`)

*State.* `Signaling`'s, and for each of some users (`Askers`) the request whose permission is checked and how far
`ValidateUserPermissions` has come with it.

*Steps.* Each read of the check is an action, between which every handler and fault of `Signaling` may run:
the status of the recording, its participants, the sessions of the podcast in its record, those of the podcast in
the request, its podcast, and its participants again. Redis may refuse any of them (`ReadRefused`), which the check takes
for nothing found; `unanswered` remembers, for the property only, whose check that befell. `KEYS` and the `HGETALL`s
after it are one read: a podcast session is only ever added, or lost with all the others. How late a request is after the
end of its recording is chosen freely.

*Left out.* Requests that name no recording or no podcast.

*What the model shows of the code that a reader may not expect.* A participant whose reads Redis refuses is turned away with
the answer a stranger gets; `RunningAdmits` is therefore of checks whose own reads were answered.

### UploadSession (`services/upload-service`)

*State.* `sessions` is the `SessionManager`'s map, `handed` the history of the answers each user got for each
recording, `queue` every event ever pushed, `monitors` and `cleaners` count, per key, the goroutines that sleep
before they complete a session and before they delete one. They are counted, not ordered: `Sleep` promises a lower
bound only. `recordings` is the signaling server's side: absent, active, ended less than 11 s ago, ended.

*Steps.* A method of `SessionManager` runs under its mutex and is one action. `GetPreSignedURL` is
four: the permission check (whose reads are in `Access`), the read of the chunk count (`len(session.Chunks)` after
`GetSession` has released the lock), `TrackChunk`, or the end of the request when presigning fails, and the answer. `TrackChunk`
includes the event it pushes and the goroutine it starts; a restart between it and the answer loses a URL whose chunk may
have been announced, and the client may ask again.

*Environment.* `Habits` says what clients may do beyond the expected: overlap requests, ask again after the final
chunk, begin the next recording of a podcast early, revoke. `MaxURLs` bounds the URLs of a user and a recording.

*Left out.* Requests without a recording, which track nothing; the handlers that only read (`FinalizeUploadSession`
among them); the session's `RecordingID`, which only a reply shows.

*What the model shows of the code that a reader may not expect.* `CreateSession` leaves `State` empty, though the
comment at `types/session.go:27` lists the states without it. A revoked or abandoned session is never deleted. The
goroutine that deletes a completed session deletes whatever the key holds a minute later, which may be a newer
session. A second final chunk announces the recording again with a larger count, and one asked for again
after a restart that lost its answer announces it again from a new session. `TrackChunk` refuses silently and
the URL is handed out all the same. Two requests in flight together may get the same index.

### VideoProcessor (`services/video-processor`)

*State.* `processed` is the service's map of claims, `jobs` the goroutines of `ProcessRecording` with
the step each has reached, `stored` and `uploaded` the chunks S3 has and ever had, `videos` the chunks each output
was made of, `recordings` and `links` the two tables.

*Steps.* The mutex covers the claim and the release only, so every S3 or database call of a job is its own action.
`FirstOrCreate` is a SELECT and an INSERT or UPDATE; an INSERT whose row another job made meanwhile is refused.
The unique keys are those of the migrations the services embed (`internal/infrastructure/database/migrations`);
the top-level `migrations` directory differs. The download of the listed chunks is one action: keys only disappear
while it runs, so whether all of them can still be read is settled when the last is. A deletion goroutine deletes
key by key.

A user in `Podless` may have no pod when a job looks for one: a recording without a row is then not filed (`NoPod`,
`video_processor.go:213`), and the job counts as processed all the same. That is an outcome of its own beside the failures
of the database.

*Left out.* Which pod a recording is filed under (in `Library`), the order of chunks (in `Pipeline`), bytes.

*What the model shows of the code that a reader may not expect.* The final chunk is awaited for five listings and no
longer, though the comment at `video_processor.go:67` says the list is fetched until it is uploaded; the job then goes
on with a part. The second of two users whose INSERT is refused gets no link, and its job counts as done:
`DoneIsLinked` is therefore of one user per recording. A user without a pod gets neither row nor link: `DoneIsFiled` and
`DoneIsLinked` are of users who have one. A restart while chunks are being deleted, followed by a second
announcement, overwrites the whole video with what is left: `SweptIsSaved` is therefore of runs without restarts.

### Pipeline (`services/upload-service`, S3, `services/video-processor`)

*State.* That of the two instances, `Upload` and `Processor`. The recordings of the signaling server's side are
`recordings`, the processor's table is `rows`; `announced` is every event pushed, `queue` the Redis list.

*Steps.* A step of `Upload`, with the event it pushes, if any, appended to the processor's list in the same action
(`LPUSH`); a chunk put in S3 under a URL that was handed out, once each, at any later time; a step of a job. The name of a
chunk is fixed by the answer: the index the service gave and the client's timestamp. `ListChunks`, `extractChunkIndex`
and the comparison of the sort are operators, and `Played` is the order in which `concatenateFiles` joins a video.

*Environment.* Clients that ask for one URL at a time, send index 0 as the default does, and ask for nothing after
the final chunk. With requests in flight together, or an upload service that restarts, the answered indexes do not keep the
order of cutting (equal indexes are then told apart by the timestamp text), and nothing in the code makes up for that.

*Delivery* is the abstract specification: per user and recording the number of chunks cut, those put in S3, the
announcements, the videos, the rows and the links, and six steps (`Cut`, `Close`, `Put`, `Make`, `File`, `Link`). It knows
of no sessions' states, requests, goroutines, claims, retries or restarts. `Pipeline` implements it with the number of URLs
handed out as the number of chunks cut and the chunks uploaded as those put; everything else of a pipeline's step is a
stutter. The recording is closed with a chunk whose URL is still on its way: the event is pushed before the answer. When the
upload service may restart the promise does not hold: the session a restart forgets counted chunks of the recording, and a
final chunk whose answer was lost is asked for, and announced, again.

### Accounts (`services/session-service`: accounts, sessions, tokens, Google sign-in)

*State.* `users` and `sessions` are the tables with their unique indexes, `requests` the local variables of handlers
in the middle of their statements, `held` the tokens each person was told and has not spent, `jar` those of them that are the
cookie of one of the person's browsers, `handed` all ever answered. Sign-in and refresh write over the cookie of the browser
they answer; the answer of a registration has its token in the body only and sets no cookie. An access token is determined
by the account and the second it is made in (`token_service.go:50`), so it is not a variable: a row keeps the second, and the unique index on access tokens is the guard `Storable`. `now` counts the
seconds in which something happens; `dayOld` those a day back, whose sessions have expired.

*Steps.* Each SQL statement is an action, with the computation up to the next. `RegisterUser` is the read of the address,
the read of the name, the INSERT of the account, the INSERT of the session; Google's sign-in the same with its fallback
names and its second attempt; refresh a read, then `Save`, which inserts the row again if a logout deleted it meanwhile;
logout one DELETE. Refresh and logout come with the cookie of a browser. The answer, with its cookie, is part of the action
of the last statement; that it may be lost is a mishap.

*Mishaps* befall the people in `Unlucky`: a statement that fails, a lost answer, an id drawn twice, a token used by two
requests at once. Properties of the others therefore say that one person's mishaps do not reach another.

*What the model shows of the code that a reader may not expect.* Registration, then sign-in in the same browser, leaves a row
whose token is in no cookie, and so does a second sign-in over the first: nothing deletes such a row.

*Left out.* `UpdatePassword` and `UpdateProfile` (no callers), checks of request fields, the update of a full name on
Google's sign-in.

### Library (`services/session-service`: podcasts and recordings; `saveRecordingToDB`)

*State.* `pods` the rows' owners in order of creation, `hosts` the `podcast_host:*` keys, `creating` the requests
between the two stores, `answered` the ids each user got, `recordings` the pod each recording is filed under, `links`
the users' rows, `jobs` the processor's `saveRecordingToDB` for each user and recording.

*Steps.* The row of a pod and the key of its host are two actions. The choice of a pod reads the recording's row, then the
user's pods; `FirstOrCreate` reads again and writes. The endpoints that only show are the operators `CheckPodcast`,
`GetPodcastRecordings` and `GetMyPodcasts`. A podcast id is drawn fresh (12 random bytes).

*What the model shows of the code that a reader may not expect.* A pod keeps no trace of the podcast it was created
with: a recording goes under the newest pod of whichever user's job comes first. A user without a pod gets their
recordings filed only if another participant has one.

### EventConsumer (`services/session-service`: consumer of signaling events)

*State.* The list, the event popped, how many were pushed and processed, `pods` and `pod_participants`. Every branch of
`processEvent` is modelled. An event carries its format: `QueueEvent` marshals protobuf, the consumer unmarshals JSON,
and the first bytes of a protobuf `RedisEvent` (0A and a length of 12 to 19) begin no JSON value.

## 4. Runs

| run | instance | shows |
|---|---|---|
| `signaling_crowd` | 4 clients of 2 users, 2 podcasts of at most 3, 1 recording id, no faults; one client greeted at a time, at most two gone, at most two `podcast_session` keys | types, membership, events and Redis records in step; everyone is told who is there and what is recording; pairs are mutual, with one initiator; implementation of `Rooms` |
| `signaling_faults` | 2 clients of 2 users, 1 podcast of at most 2, 2 recording ids; refusals, crash, Redis restart, expiry | the inductive invariant of `Signaling`; an ended record stays ended, one that is gone never runs again |
| `access_faults` | 2 clients of 2 users, 1 podcast of at most 2, 1 recording id, one user asking; refusals (of the check's reads too), crash, Redis restart, expiry | no participant of a running recording is turned away by a check whose reads were answered |
| `upload_rough` | 1 user, 2 recordings of one podcast, 2 requests, 2 URLs each, every habit, no faults | flags, grace period, announcements and revocation stay in step with requests in flight together |
| `upload_ends` | 1 user, 2 recordings of one podcast, 1 request, 1 URL each, 1 drawn session id, every habit, crash and refusals, fairness | types; a job never covers two recordings; a session whose final chunk came is deleted in the end, unless revoked |
| `upload_merged` | 1 user, 2 recordings, the next begun early | *violated*: a recording finished within a minute of the last is never announced |
| `processor_solo` | 1 user, 2 sessions of one folder, 2 jobs, S3 failures, fairness | nothing unsaved is deleted, done means filed and linked or about to be; every event is popped, every job ends |
| `processor_faults` | 2 users of one recording, one of whom may have no pod, 3 events, 2 jobs, failures of S3, of the database and of the process | the inductive invariant |
| `pipeline_whole` | 1 user, 2 recordings, 2 URLs each, 2 jobs, one attempt, refused events, restarts of the processor, deletion of chunks | an event counts exactly the chunks cut; a video as long as announced is the whole recording in order; implementation of `Delivery` |
| `accounts_tables` | 2 people with one base name and one short name, one of them unlucky, 2 requests, 3 ids, 3 tokens, 2 seconds; the unlucky one's registrations and sign-ins one at a time | rows are the tokens told, cookies among them, no spent token works again, Google's sign-in finds a name |
| `library_pages` | 3 users, one of them unlucky, 2 podcast ids, 1 recording, 2 pods, fairness | hosts have pods, a video is on one participant's page, a host's recording is filed |
| `events_processed` | 2 users, 2 pods, 2 events, fairness | *violated*: no event of the signaling server is ever processed |

*Why the bounds are enough to be worth running.* Pairing needs two clients of one podcast, a refusal one more than
it holds, a move two podcasts, a host that is not the caller two users, a host with two clients one user of two. Two
recording ids let one run while another's record is ending, expired or lost. Two recordings of one podcast are what an
upload key can be shared by, two requests what can overlap, and two URLs per recording a chunk and its final one, or a
final one and its retry. A bound counts answers: with one URL each (`upload_ends`) chunks whose answers a restart lost, or
which failed, come on top of it, and the second recording's come after completion. Two chunks are the least of which one can be missing; two
attempts are a retry and a last one. Two jobs are what can share a folder or race for a row. Two people with the same
derived names are what Google's sign-in can collide on, two requests what can interleave (a refresh and a logout with one
token), two seconds a token before and after a day. Two pods are two hosts', or the newer and the older of one. The bounds of `signaling_crowd` and
`accounts_tables` beyond their constants are in `MCSignaling` (`Few`) and `MCAccounts` (`OneUnluckySignIn`): what they leave out is
further comings and goings of the same kind, and two mishaps of one person beside each other. For
everything that is proved (section 5) the bounds do not matter.

*Symmetry* is used only in runs without liveness: podcasts and recording ids of `Signaling` and `Access` (client ids are
ordered, users are not interchangeable), ids, tokens and requests of `Accounts`, request goroutines and
recordings of `upload_rough`, jobs
of `processor_faults`.

*Deadlock* is not checked: behaviours end when every client has left, every bounded id is drawn and every
goroutine is done, as the services do when nobody calls them.

*Fairness.* `UploadSession` assumes that a goroutine that sleeps wakes and gets the mutex (weak fairness of
`MonitorGracePeriod` and `CleanUp` of each key), which the Go scheduler gives and nothing disables; nothing is assumed of
clients, requests or recordings. `VideoProcessor` assumes weak fairness of the consumer loop and of each job's next step;
`Library` of each job's next statement; `EventConsumer` of the consumer's loop. Nothing is assumed of clients, of the
producers of events, or of failures. The other modules have safety properties only.

*Findings.* The two violated runs state what the repository's own texts say: `events.proto:27` (sent when the
upload service finishes a recording) and `events.proto:7` with `:8` (the queue communication from the signaling server to
the session service). `PROJECT.json` "findings" gives the lines of the code that do otherwise.

*Mutants.* Each property of a passing run has a plausible bug of the code, written beside the definition it would replace,
that makes TLC find the property violated in that run.

## 5. Proofs

The theorems hold for every value of the constants that satisfies the named assumptions of the modules: clients
are numbers and finitely many, `None` is no id, fault and habit sets are of the kinds listed, a capacity and a number
of attempts are positive. Where a theorem needs faults to be absent its statement says which; the table does too.

| theorem | except under |
|---|---|
| `Signaling`: types, membership, told, pairing, records, `RecordsAreFinal`, `ReadyPairsHolds`, refinement of `Rooms` | |
| `StopEndsRecordHolds` | refused commands |
| `HostHasSessionHolds` | refused commands, Redis restarts |
| `EventsReplayHolds` | refused commands, Redis restarts, crashes |
| `Access`: `AccessOnlyReads` | |
| `RunningAdmitsHolds` | refused reads of the very check |
| `UploadSession`: types, `OneRecordingPerJob`, `NamesAgree`, `SomeoneWillEndIt`, `CompleteIsFinal`, `GraceIsQuiet`, `RevokedStays` | |
| `FinalIsAnnouncedHolds` | refused commands |
| `AnnouncesWholeHolds` | crashes, any habit |
| `CountsNoMoreHolds` (at most the one chunk more whose answer a restart lost) | any habit |
| `VideoProcessor`: types, claims, exclusion, rows lead to videos, `VideosAreFedHolds` | |
| `DoneIsFiledHolds` (of users with a pod) | database failures |
| `DoneIsLinkedHolds` (of users with a pod) | database failures, restarts, two users in a recording |
| `SweptIsSavedHolds` | restarts |
| `MadeStaysHolds` | folders announced twice |
| `Pipeline`: `PipelineUploads`, `PipelineProcesses` | |
| `PipelineAnnounces`, `WholeVideosHolds`, `VideosAreWholeHolds`, `DeliversHolds` | restarts of the upload service |
| `Accounts`: types, `CookiesAreSessions` (of the lucky), `SpentStaysSpent`, `GoogleFindsAName` | |
| `Library`: types, `HostHasPods`, `ShownToOneParticipant` | |

**SignalingProofs.** `SignalingInvariant` is inductive: types, `MembershipAgrees`, `Bookkeeping`, `ClientsAreTold`,
`PairingAgrees`, `RecordAgrees`, `EndingAgrees`. The parts need each other: a pair stays mutual because a leaver is forgotten by exactly those
that were with it, which needs membership; a new recording's record is its own because a running id has been drawn, which is
`Bookkeeping`, the strengthening; what a stop has read is, while Redis still has it, the record of a recording that still runs
in memory, because nobody else gets the mutex (`EndingAgrees`), so that writing it back never makes a record run. Every handler that leaves a podcast goes through lemmas on
`LeavePodcastInternal` (`LeaveType`, `LeaveKeepsMembership`, `LeaveReplays`, `Stayers`), stated once. From the invariant
follow the action properties (`RecordsAreFinal`, `ReadyPairsHolds`, `StopEndsRecordHolds`) and
`SignalingImplementsRooms`, the refinement, in which a join maps to `Enter`, a leave, a refused join, a disconnection and a
crash to `Depart`, start and stop to themselves, and the rest to stutters.

**AccessProofs.** The check only reads, so a behaviour of `Access` is one of `Signaling` and its invariant holds there.
`ChecksKnow` is the strengthening: a user whose sessions are being looked for was not on the record when it was read; as an
ended record stays ended, one that is gone never runs again and a record's participants stay, one that runs now was that same
record then.

**UploadSessionProofs.** `TrackIsTake` and `TakenIs` describe a tracked chunk once; `UploadSteps` divides every step
into a chunk taken, a session started, revoked, completed, deleted, a crash, or nothing of interest; then each conjunct
of `UploadInvariant` has a lemma over these cases. `OneRecordingPerJob` is not inductive: that a new event agrees with the
old ones of its session rests on how sessions get their names, which `NamesAgree` states (a session named by
a recording began with a chunk of it; a drawn id names one session at a time; events name what their session began
with). `AnnouncesWholeHolds` has an invariant of its own, `OrderlyInvariant`: with clients that do nothing of what `Habits`
lists there is one request and one session of a key at a time, what a request has read of its session is still so when it
is used, the answers of a recording not yet finished, with the one on its way, are the chunks of its session, and a session that
ends is slept for once. With restarts a session may hold fewer chunks than were answered, and an answer may be lost whose chunk
was announced; the same invariant then says "no more than" (`UpTo`), with that one chunk over, and `CountsNoMoreHolds` follows.

**VideoProcessorProofs, VideoProcessorEndProofs.** Steps are divided by what they disturb: for the claims into those that
keep, begin, fail and restart jobs (`ClaimSteps`), for the rows into quiet steps and the three that write (`DataSteps`), for
the deletions into plain steps, the upload, the end and the deletion of a key (`PlainSteps`). `JobsKnow` is the
strengthening for the rows: a job that downloads has listed something, and one that saves a link has seen its recording filed.
For `SweptIsSaved` it is that a claim outlives its job when that ends well (`ClaimsLast`), so that a video stays what the one job
past its upload listed (`VideosAreListed`). `MadeStaysHolds` says that a video that was made stays, of the same chunks: an
event is popped once and a job never goes back, so a folder announced once is the work of one job (`FoldersOnce`), and what
is made was made by it (`MadeBySent`), restarts of the processor included.

**PipelineProofs.** A step of the pipeline is a step of the upload service's specification or leaves its variables alone, so
`U!Spec` holds and with it, by instance, the theorems of `UploadSessionProofs`; the counts it announces are never more
than the URLs there are (`CountsNoMore`), so the same is true of the processor. `WholeVideosHolds` combines three
facts: only chunks with a URL are put in S3 (`PutWereHanded`), a video has only chunks that were put (`VideosAreFed`), and an
event counts the chunks cut (`AnnouncesWhole`). A video of as many chunks as announced is then a subset of the
chunks with as many elements, and the numbers answered put any two of them in the order of cutting. `ListChunks` is
defined by rank, so that `SortedInOrder` can say that what it lists is that order: with it `VideosAreWholeHolds` is whole.

`DeliversHolds` is the refinement of `Delivery`, restarts of the processor included. A step of the upload service announces one
chunk more than were given, or gives a URL (`UploadDelivers`); that the recording announced is new, and new to its session, is `AnnouncedOnly`, which
follows from the orderly client and `NamesAgree`. A step of the processor makes a video at most where none is, which is
`MadeStays` with folders announced once, from chunks still in S3 (`ProcessorDelivers`); a chunk that arrives is the client's
(`ClientDelivers`).

**AccountsProofs.** The ten kinds of step are described once (`StepsAre`). The invariant says that a token a request has drawn
is in no row, in no other request and was never answered (`FreshTokens`); that rows, accounts and tokens have one owner
(`Owned`); that the id a request has drawn is its own unless a mishap drew it twice (`DrawnAlone`); and that a refresh saves
into the row of the token it was presented (`SavesOwn`).

**LibraryProofs.** `FiledWithParticipant`, `ChosenOfParticipant` and `LinkedIsFiled` follow a pod from its choice to the page;
`PodsEnough` counts: the cardinality of a user's answered ids, and of the request under way, is at most that of the user's
pods, because the pod is stored first.

*Only model-checked.* Liveness (`SessionsEnd`, `JobsEnd`, `HostsRecordingIsFiled`), which is outside what the prover does.

## 6. Not modelled

`PROJECT.json` "components" lists every part.

- *Relayed messages and the podcast info endpoint.* `forwardMessage` and `GetPodcastInfo` change no state. They race with
  handlers: on a map, which ends the process and is then `Signaling`'s `Crash`, or on a socket, where two writers at once
  may end a handler in the middle. Of the second no text of the repository promises anything, and handlers are atomic in the model.
- *Redis sessions.* Operations without callers: two routes read and delete `session:*` keys that nothing creates. The two
  that are called, for the hosts of podcasts, are in `Library`.
- *OAuth.* `AuthController` is in `Accounts` once Google has vouched for the address; `OAuthService` is nil in every process
  and has no route; `BeginAuth` is a redirect of a library.
- *TURN credentials, access tokens and middleware.* Computations without state of their own; the models start from the user
  a token yields.
- *Migrations, start-up and configuration, generated code.* Run once, or generated; the unique and foreign keys the migrations
  set are in the tables of `VideoProcessor`, `Accounts` and `Library`.

Some hazards have no property, since the code promises nothing there: the two writers of a socket, the indexes of requests
in flight together, an event Redis refuses. Others have a property of a part of what can go wrong. The notes in
`PROJECT.json` "hazards" say why, or which part. Two oddities change no state and are no hazard of the models:
`FinalizeUploadSession` answers "finalized" and changes nothing, and the refresh cookie lives for a week over a row that
expires after a day.

Time is abstract throughout: a wait is an action that may happen later, and nothing is said of how much later, but for the
seconds and the day of `Accounts`. Postgres, S3 and Redis are modelled by the effect of the commands the code sends, each
of which is atomic.
