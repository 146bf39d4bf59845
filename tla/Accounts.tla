------------------------------ MODULE Accounts ------------------------------
(***************************************************************************)
(* The session service's accounts, sessions and tokens: registration,      *)
(* sign-in with a password or with Google, refresh and logout, each a      *)
(* handler that runs several SQL statements without a transaction beside   *)
(* the other handlers.                                                     *)
(*                                                                         *)
(* A person is an e-mail address.  A refresh token is 32 random bytes and  *)
(* is drawn once; an access token is a signed text of the account and of   *)
(* the second it was made in, so two made in one second are the same text. *)
(* Time is counted in the seconds in which something happens, 1 to now;    *)
(* those up to dayOld lie more than a day, and less than a week, back.     *)
(* The work between two statements that changes nothing others see is part *)
(* of the action of the statement before it.  Mishaps are a statement that *)
(* fails and changes nothing, or a restart of the service in its place, an *)
(* id drawn twice, a lost answer, a token used by two requests at once.    *)
(***************************************************************************)
EXTENDS Naturals, FiniteSets

CONSTANTS
  People,     \* e-mail addresses
  Unlucky,    \* those whom mishaps may befall
  Chosen,     \* user names a registration asks for
  BaseName,   \* the part of each address before the @
  ShortName,  \* BaseName, "_" and eight characters of the Google id
  FullName,   \* BaseName, "_" and the whole Google id
  Ids,        \* texts generateID may return
  Tokens,     \* refresh tokens that may be drawn
  Requests,   \* requests the service works on at one time
  MaxSecond,  \* bound on now
  None

Names == Chosen \cup UNION {{BaseName[p], ShortName[p], FullName[p]} : p \in People}

ASSUME PeopleAssumption == Unlucky \subseteq People
ASSUME NamesAssumption ==
  /\ DOMAIN BaseName = People /\ DOMAIN ShortName = People /\ DOMAIN FullName = People
  /\ \A p \in People : ShortName[p] # BaseName[p] /\ FullName[p] # BaseName[p]
ASSUME SecondAssumption == MaxSecond \in Nat \ {0}
ASSUME AccountsNoneAssumption == None \notin People \cup Ids \cup Tokens \cup Names

VARIABLES
  now, dayOld,
  users,     \* the users table, by e-mail address
  sessions,  \* the sessions table, by id
  requests,  \* the local variables of the handlers
  held,      \* tokens answered to each person and not spent since
  jar,       \* those in the cookies of the person's browsers, one to a browser
  handed     \* tokens ever answered to anyone

vars == <<now, dayOld, users, sessions, requests, held, jar, handed>>

Account == [id : Ids, name : Names, password : BOOLEAN]
NoAccount == [id |-> None, name |-> None, password |-> FALSE]

\* The access token of a row is user and at; ExpiresAt is a day after at.
Session == [user : Ids, at : 1..MaxSecond, refresh : Tokens]
NoSession == [user |-> None, at |-> 0, refresh |-> None]

Request == [step : {"idle", "name", "enroll", "again", "open", "save"},
            op : {"none", "register", "login", "google", "refresh"},
            person : People \cup {None}, name : Names \cup {None},
            id : Ids \cup {None}, user : Ids \cup {None}, at : 0..MaxSecond,
            refresh : Tokens \cup {None}, presented : Tokens \cup {None}]
NoRequest == [step |-> "idle", op |-> "none", person |-> None, name |-> None, id |-> None,
              user |-> None, at |-> 0, refresh |-> None, presented |-> None]

Init ==
  /\ now = 1 /\ dayOld = 0
  /\ users = [p \in People |-> NoAccount]
  /\ sessions = [i \in Ids |-> NoSession]
  /\ requests = [r \in Requests |-> NoRequest]
  /\ held = [p \in People |-> {}] /\ jar = [p \in People |-> {}]
  /\ handed = {}

-----------------------------------------------------------------------------
(* The tables and what is drawn at random.                                 *)

HasAccount(p) == users[p] # NoAccount
NameTaken(n) == \E p \in People : users[p].name = n
IsUser(i) == \E p \in People : users[p].id = i
Rows == {i \in Ids : sessions[i] # NoSession}
Live == {sessions[i].refresh : i \in Rows}

\* generateID: the second and six characters the clock picks.  Mishap: the id of
\* a row of the table.
IdsDrawn(p, taken) ==
  (IF p \in Unlucky THEN Ids ELSE Ids \ taken)
    \ UNION {{requests[r].id, requests[r].user} : r \in Requests}

\* generateRefreshToken: never a text that anyone had or is about to have.
TokensDrawn == Tokens \ (handed \cup Live \cup {requests[r].refresh : r \in Requests})

\* idx_sessions_access_token: no other row has the same account and second.
Storable(q) ==
  \A i \in Rows \ {q.id} : ~(sessions[i].user = q.user /\ sessions[i].at = q.at)

\* The row that the session of a request is stored as.
UndatedRow(q) == [user |-> q.user, at |-> 0, refresh |-> q.refresh]
OldTokenRow(q) ==
  [user |-> q.user, at |-> q.at,
   refresh |-> IF q.op = "refresh" THEN q.presented ELSE q.refresh]
Row(q) == [user |-> q.user, at |-> q.at, refresh |-> q.refresh]

\* GenerateTokenPair and NewSession, on the way to the INSERT.
Issued(q, user, i, t) ==
  [q EXCEPT !.step = "open", !.name = None, !.user = user, !.at = now, !.id = i, !.refresh = t]

-----------------------------------------------------------------------------
(* How a request goes on and how it ends.                                  *)

Idle(r) == requests[r].step = "idle"
Go(r, q) == requests' = [requests EXCEPT ![r] = q]
Refuse(r) == Go(r, NoRequest)

Tables == <<users, sessions>>
Cookies == <<held, jar, handed>>
Clock == <<now, dayOld>>

\* What the browser that made the request has in its cookie now: the token it
\* came with or, if that is gone or there was none, any other or nothing.
InBrowser(p, presented) ==
  IF presented \in jar[p] THEN {presented} ELSE jar[p] \cup {None}

\* Sign-in and refresh set the cookie, over what the browser has.  The answer
\* of a registration has the token in its body only.
SetCookie(q) ==
  IF q.op = "register"
  THEN UNCHANGED jar
  ELSE \E old \in InBrowser(q.person, q.presented) :
         jar' = [jar EXCEPT ![q.person] = (@ \ {old}) \cup {q.refresh}]

\* The person is told the token that replaces the one the request came with.
Answer(r) ==
  LET q == requests[r] IN
  \/ /\ held' = [held EXCEPT ![q.person] = (@ \ {q.presented}) \cup {q.refresh}]
     /\ SetCookie(q)
     /\ handed' = handed \cup {q.refresh}
     /\ Go(r, NoRequest)
  \/ /\ q.person \in Unlucky
     /\ Go(r, NoRequest)
     /\ UNCHANGED Cookies

\* A browser sends its cookie, by mishap with two requests at once.
Presents(p, t) ==
  /\ t \in jar[p]
  /\ p \in Unlucky \/ \A r \in Requests : requests[r].presented # t

-----------------------------------------------------------------------------
(* Registration and sign-in.                                               *)

\* RegisterUser reads the address first and takes a failed read for a free one.
RegisterUser(r, p, n) ==
  \/ HasAccount(p) /\ Refuse(r)
  \/ /\ ~HasAccount(p) \/ p \in Unlucky
     /\ Go(r, [NoRequest EXCEPT !.step = "name", !.op = "register", !.person = p, !.name = n])

\* AuthHandler.Register, of a request with all its fields.
Register(r, p, n) ==
  /\ Idle(r)
  /\ n \in Chosen
  /\ RegisterUser(r, p, n)
  /\ UNCHANGED <<Clock, Tables, Cookies>>

\* The name is read, again taking an error for a free name, and NewUser draws
\* the account's id.  Google's handler falls back to the short name instead.
Name(r, i) ==
  LET q == requests[r]
      Draw(n) == /\ i \in IdsDrawn(q.person, {users[p].id : p \in People})
                 /\ Go(r, [q EXCEPT !.step = "enroll", !.name = n, !.id = i])
  IN /\ q.step = "name"
     /\ \/ /\ ~NameTaken(q.name) \/ q.person \in Unlucky
           /\ Draw(q.name)
        \/ /\ NameTaken(q.name)
           /\ IF q.op = "google" THEN Draw(ShortName[q.person]) ELSE Refuse(r)
     /\ UNCHANGED <<Clock, Tables, Cookies>>

\* userRepo.Create under the unique indexes of the table.
Enrolls(q) == ~HasAccount(q.person) /\ ~NameTaken(q.name) /\ ~IsUser(q.id)

\* The INSERT of the account, then the token pair and the session's id.
Enroll(r, i, t) ==
  LET q == requests[r] IN
  /\ q.step \in {"enroll", "again"}
  /\ Enrolls(q)
  /\ i \in IdsDrawn(q.person, Rows) /\ t \in TokensDrawn
  /\ users' = [users EXCEPT ![q.person] =
                 [id |-> q.id, name |-> q.name, password |-> q.op = "register"]]
  /\ Go(r, Issued(q, q.id, i, t))
  /\ UNCHANGED <<Clock, sessions, Cookies>>

\* The second attempt of Google's handler has the id of the first.
AgainSameName(q) == [q EXCEPT !.step = "again"]
Again(q) == [q EXCEPT !.step = "again", !.name = FullName[q.person]]

\* The INSERT fails.  Google's handler, told of a duplicate, tries once more.
NotEnrolled(r) ==
  LET q == requests[r] IN
  /\ q.step \in {"enroll", "again"}
  /\ \/ /\ ~Enrolls(q)
        /\ IF q.op = "google" /\ q.step = "enroll"
           THEN Go(r, Again(q))
           ELSE Refuse(r)
     \/ q.person \in Unlucky /\ Refuse(r)
  /\ UNCHANGED <<Clock, Tables, Cookies>>

\* LoginUser: the account of the address, its password, then the token pair.
LoginUser(r, p, right, i, t) ==
  IF right /\ users[p].password
  THEN /\ i \in IdsDrawn(p, Rows) /\ t \in TokensDrawn
       /\ Go(r, Issued([NoRequest EXCEPT !.op = "login", !.person = p], users[p].id, i, t))
  ELSE Refuse(r)

\* AuthHandler.Login, of a request with both its fields.
Login(r, p, right, i, t) ==
  /\ Idle(r)
  /\ LoginUser(r, p, right, i, t)
  /\ UNCHANGED <<Clock, Tables, Cookies>>

\* AuthController, once Google has vouched for the address.  A failed read is
\* taken for a new one.
Google(r, p, i, t) ==
  LET q == [NoRequest EXCEPT !.step = "name", !.op = "google", !.person = p] IN
  /\ Idle(r)
  /\ \/ /\ HasAccount(p)
        /\ i \in IdsDrawn(p, Rows) /\ t \in TokensDrawn
        /\ Go(r, Issued(q, users[p].id, i, t))
     \/ /\ ~HasAccount(p) \/ p \in Unlucky
        /\ Go(r, [q EXCEPT !.name = BaseName[p]])
  /\ UNCHANGED <<Clock, Tables, Cookies>>

\* sessionRepo.Create and the answer.
Open(r) ==
  LET q == requests[r] IN
  /\ q.step = "open"
  /\ \/ /\ q.id \notin Rows /\ Storable(q)
        /\ sessions' = [sessions EXCEPT ![q.id] = Row(q)]
        /\ Answer(r)
     \/ /\ \/ q.id \in Rows \/ ~Storable(q)
           \/ q.person \in Unlucky
        /\ Refuse(r)
        /\ UNCHANGED <<sessions, Cookies>>
  /\ UNCHANGED <<Clock, users>>

-----------------------------------------------------------------------------
(* Refresh and logout.                                                     *)

\* RefreshToken reads the row of the token and the user of the row.
RefreshToken(r, p, t, fresh) ==
  \/ \E i \in Rows :
       /\ sessions[i].refresh = t /\ sessions[i].at > dayOld
       /\ IsUser(sessions[i].user)
       /\ fresh \in TokensDrawn
       /\ Go(r, [NoRequest EXCEPT !.step = "save", !.op = "refresh", !.person = p, !.presented = t,
                   !.id = i, !.user = sessions[i].user, !.at = now, !.refresh = fresh])
  \/ /\ \/ p \in Unlucky
        \/ ~\E i \in Rows : sessions[i].refresh = t /\ sessions[i].at > dayOld
     /\ Refuse(r)

\* AuthHandler.RefreshToken: the token comes in a cookie.
Refresh(r, p, t, fresh) ==
  /\ Idle(r)
  /\ Presents(p, t)
  /\ RefreshToken(r, p, t, fresh)
  /\ UNCHANGED <<Clock, Tables, Cookies>>

\* sessionRepo.Update writes every column by id, and GORM's Save inserts the
\* row when there is none; then the answer.
Save(r) ==
  LET q == requests[r] IN
  /\ q.step = "save"
  /\ \/ /\ Storable(q)
        /\ sessions' = [sessions EXCEPT ![q.id] = Row(q)]
        /\ Answer(r)
     \/ /\ ~Storable(q) \/ q.person \in Unlucky
        /\ Refuse(r)
        /\ UNCHANGED <<sessions, Cookies>>
  /\ UNCHANGED <<Clock, users>>

\* DeleteByRefreshToken
WithoutUser(t) ==
  [i \in Ids |-> IF \E j \in Rows : sessions[j].refresh = t /\ sessions[j].user = sessions[i].user
                 THEN NoSession ELSE sessions[i]]
Without(t) == [i \in Ids |-> IF sessions[i].refresh = t THEN NoSession ELSE sessions[i]]

\* AuthHandler.Logout: one DELETE, which answers the same without a row, and
\* the answer takes the cookie away.
Logout(r, p, t) ==
  /\ Idle(r)
  /\ Presents(p, t)
  /\ \/ /\ sessions' = Without(t)
        /\ held' = [held EXCEPT ![p] = @ \ {t}] /\ jar' = [jar EXCEPT ![p] = @ \ {t}]
     \/ /\ p \in Unlucky
        /\ sessions' \in {sessions, Without(t)}
        /\ UNCHANGED <<held, jar>>
  /\ UNCHANGED <<Clock, users, requests, handed>>

-----------------------------------------------------------------------------
(* Time.                                                                   *)

Tick ==
  /\ now < MaxSecond
  /\ now' = now + 1
  /\ UNCHANGED <<dayOld, Tables, requests, Cookies>>

DayPasses ==
  /\ now < MaxSecond
  /\ dayOld' = now /\ now' = now + 1
  /\ UNCHANGED <<Tables, requests, Cookies>>

Next ==
  \/ \E r \in Requests, p \in People, n \in Chosen : Register(r, p, n)
  \/ \E r \in Requests, i \in Ids : Name(r, i)
  \/ \E r \in Requests, i \in Ids, t \in Tokens : Enroll(r, i, t)
  \/ \E r \in Requests : NotEnrolled(r) \/ Open(r) \/ Save(r)
  \/ \E r \in Requests, p \in People, right \in BOOLEAN, i \in Ids, t \in Tokens :
       Login(r, p, right, i, t)
  \/ \E r \in Requests, p \in People, i \in Ids, t \in Tokens : Google(r, p, i, t)
  \/ \E r \in Requests, p \in People, t, fresh \in Tokens : Refresh(r, p, t, fresh)
  \/ \E r \in Requests, p \in People, t \in Tokens : Logout(r, p, t)
  \/ Tick \/ DayPasses

Spec == Init /\ [][Next]_vars
-----------------------------------------------------------------------------
(* Properties.                                                             *)

\* Tables, handlers and cookies keep their types.
TypeOK ==
  /\ now \in 1..MaxSecond /\ dayOld \in 0..MaxSecond
  /\ users \in [People -> Account \cup {NoAccount}]
  /\ sessions \in [Ids -> Session \cup {NoSession}]
  /\ requests \in [Requests -> Request]
  /\ held \in [People -> SUBSET Tokens] /\ jar \in [People -> SUBSET Tokens]
  /\ handed \in SUBSET Tokens

\* Rows and tokens agree, whatever other people's requests, refused ones and
\* restarts do in between: every cookie has its row until it is replaced in the
\* row or logged out, and the rows of a person's account hold just the tokens
\* the person was told and has not spent.  So registrations and cookies that a
\* later sign-in wrote over leave a row each, and nothing else does
\* (SessionRepository's Create, Save and DeleteByRefreshToken).
CookiesAreSessions ==
  \A p \in People \ Unlucky :
    /\ held[p] = {sessions[i].refresh : i \in {j \in Rows : sessions[j].user = users[p].id}}
    /\ jar[p] \subseteq held[p]

\* A token that has been handed out and then replaced or logged out never
\* works again, even when a slower refresh writes its row back
\* (RefreshToken, LogoutUser).
SpentStaysSpent == [][(handed \ Live) \cap Live' = {}]_vars

\* Google's sign-in is refused a new account only when the address has got one
\* meanwhile or the full name is taken, never for the short names, however
\* registrations run beside it (AuthController's second Create).
GoogleFindsAName ==
  [][\A r \in Requests :
       LET q == requests[r] IN
         (/\ q.op = "google" /\ q.step \in {"enroll", "again"}
          /\ requests'[r].step = "idle")
         => \/ HasAccount(q.person) \/ NameTaken(FullName[q.person])
            \/ q.person \in Unlucky]_vars
=============================================================================
