--------------------------- MODULE AccountsProofs ---------------------------
(***************************************************************************)
(* Proofs about Accounts, for every set of people, mishaps, names, ids,    *)
(* tokens and requests.                                                    *)
(*                                                                         *)
(* A step is one of the ten kinds below; each conjunct of the invariant is *)
(* then followed through those that could disturb it.                      *)
(***************************************************************************)
EXTENDS Accounts, TLAPS

Becomes(r, q) == requests' = [requests EXCEPT ![r] = q]

\* What a request knows at each of its steps.
Knows(q) ==
  /\ q.step = "idle" => q = NoRequest
  /\ q.step # "idle" => q.person \in People
  /\ q.step \in {"name", "enroll", "again"} =>
       /\ q.name \in Names /\ q.op \in {"register", "google"}
       /\ q.user = None /\ q.refresh = None /\ q.presented = None
  /\ q.step = "name" => q.id = None
  /\ q.step \in {"enroll", "again"} => q.id \in Ids
  /\ q.step = "again" => q.name = FullName[q.person]
  /\ q.step \in {"open", "save"} =>
       q.id \in Ids /\ q.user \in Ids /\ q.at \in 1..MaxSecond /\ q.refresh \in Tokens
  /\ q.step = "open" => q.presented = None
  /\ q.step = "save" => q.presented \in Tokens /\ q.op = "refresh"

RequestsKnow == \A r \in Requests : Knows(requests[r])

-----------------------------------------------------------------------------
(* The kinds of step.                                                      *)

Ends(r) == Becomes(r, NoRequest) /\ UNCHANGED <<Clock, Tables, Cookies>>

Starts(r) ==
  /\ \E p \in People, n \in Names, op \in {"register", "google"} :
       Becomes(r, [NoRequest EXCEPT !.step = "name", !.op = op, !.person = p, !.name = n])
  /\ UNCHANGED <<Clock, Tables, Cookies>>

Draws(r, n, i) ==
  /\ requests[r].step = "name"
  /\ n \in Names
  /\ i \in IdsDrawn(requests[r].person, {users[p].id : p \in People})
  /\ Becomes(r, [requests[r] EXCEPT !.step = "enroll", !.name = n, !.id = i])
  /\ UNCHANGED <<Clock, Tables, Cookies>>

Retries(r) ==
  /\ requests[r].step = "enroll" /\ requests[r].op = "google"
  /\ Becomes(r, Again(requests[r]))
  /\ UNCHANGED <<Clock, Tables, Cookies>>

\* The request that will open a session for the account i of p.
Opener(q, p, user, i, t) ==
  /\ q \in Request
  /\ q.step = "open" /\ q.person = p /\ q.id = i /\ q.user = user
  /\ q.refresh = t /\ q.presented = None /\ q.at = now

SignsIn(r, p, i, t) ==
  /\ users[p] \in Account
  /\ i \in IdsDrawn(p, Rows) /\ t \in TokensDrawn
  /\ \E q \in Request : Opener(q, p, users[p].id, i, t) /\ Becomes(r, q)
  /\ UNCHANGED <<Clock, Tables, Cookies>>

Joins(r, i, t) ==
  /\ requests[r].step \in {"enroll", "again"}
  /\ Enrolls(requests[r])
  /\ i \in IdsDrawn(requests[r].person, Rows) /\ t \in TokensDrawn
  /\ \E a \in Account : /\ a.id = requests[r].id
                        /\ users' = [users EXCEPT ![requests[r].person] = a]
  /\ \E q \in Request : /\ Opener(q, requests[r].person, requests[r].id, i, t)
                        /\ Becomes(r, q)
  /\ UNCHANGED <<Clock, sessions, Cookies>>

\* The request that will write its token into the row i.
Saver(q, p, t, i, fresh) ==
  /\ q \in Request
  /\ q.step = "save" /\ q.op = "refresh" /\ q.person = p /\ q.presented = t /\ q.id = i
  /\ q.user = sessions[i].user /\ q.refresh = fresh /\ q.at = now

Reads(r, p, t, i, fresh) ==
  /\ Presents(p, t)
  /\ i \in Rows /\ sessions[i].refresh = t
  /\ fresh \in TokensDrawn
  /\ \E q \in Request : Saver(q, p, t, i, fresh) /\ Becomes(r, q)
  /\ UNCHANGED <<Clock, Tables, Cookies>>

Stores(r) ==
  LET q == requests[r] IN
  /\ q.step \in {"open", "save"}
  /\ q.step = "open" => q.id \notin Rows
  /\ sessions' = [sessions EXCEPT ![q.id] = Row(q)]
  /\ Answer(r)
  /\ UNCHANGED <<Clock, users>>

Leaves(p, t) ==
  /\ Presents(p, t)
  /\ sessions' = Without(t)
  /\ \/ held' = [held EXCEPT ![p] = @ \ {t}] /\ jar' = [jar EXCEPT ![p] = @ \ {t}]
     \/ p \in Unlucky /\ UNCHANGED <<held, jar>>
  /\ UNCHANGED <<Clock, users, requests, handed>>

Passes ==
  /\ now' \in 1..MaxSecond /\ dayOld' \in 0..MaxSecond
  /\ UNCHANGED <<Tables, requests, Cookies>>

OneKind ==
  \/ \E r \in Requests : Ends(r) \/ Starts(r) \/ Retries(r) \/ Stores(r)
  \/ \E r \in Requests, n \in Names, i \in Ids : Draws(r, n, i)
  \/ \E r \in Requests, p \in People, i \in Ids, t \in Tokens : SignsIn(r, p, i, t)
  \/ \E r \in Requests, i \in Ids, t \in Tokens : Joins(r, i, t)
  \/ \E r \in Requests, p \in People, i \in Ids, t, fresh \in Tokens : Reads(r, p, t, i, fresh)
  \/ \E p \in People, t \in Tokens : Leaves(p, t)
  \/ Passes

-----------------------------------------------------------------------------
(* Every step is of one kind.                                              *)

LEMMA NothingIsNone ==
  /\ None \notin People /\ None \notin Ids /\ None \notin Tokens /\ None \notin Names
  /\ NoAccount \notin Account /\ NoAccount.id = None
  /\ NoSession \notin Session
  /\ NoRequest \in Request /\ NoRequest.step = "idle" /\ NoRequest.id = None
  /\ NoRequest.user = None /\ NoRequest.refresh = None /\ NoRequest.presented = None
<1>1. None \notin People /\ None \notin Ids /\ None \notin Tokens /\ None \notin Names
  BY AccountsNoneAssumption
<1>2. 0 \in 0..MaxSecond
  BY SecondAssumption
<1> QED BY <1>1, <1>2 DEF NoAccount, Account, NoSession, Session, NoRequest, Request

\* The names a request may get.
LEMMA NamesAre ==
  /\ Chosen \subseteq Names
  /\ \A p \in People : BaseName[p] \in Names /\ ShortName[p] \in Names /\ FullName[p] \in Names
BY DEF Names

\* Fields of a request, set one at a time.
LEMMA RequestFields ==
  ASSUME NEW q \in Request
  PROVE  /\ \A step \in {"idle", "name", "enroll", "again", "open", "save"} :
              [q EXCEPT !.step = step] \in Request
         /\ \A op \in {"none", "register", "login", "google", "refresh"} :
              [q EXCEPT !.op = op] \in Request
         /\ \A p \in People : [q EXCEPT !.person = p] \in Request
         /\ \A n \in Names \cup {None} : [q EXCEPT !.name = n] \in Request
         /\ \A i \in Ids : [q EXCEPT !.id = i] \in Request /\ [q EXCEPT !.user = i] \in Request
         /\ \A s \in 0..MaxSecond : [q EXCEPT !.at = s] \in Request
         /\ \A t \in Tokens : [q EXCEPT !.refresh = t] \in Request
                             /\ [q EXCEPT !.presented = t] \in Request
BY DEF Request

\* The request Issued is an Opener.
LEMMA IssuedIs ==
  ASSUME NEW q \in Request, NEW user \in Ids, NEW i \in Ids, NEW t \in Tokens, now \in 1..MaxSecond,
         q.presented = None
  PROVE  /\ Opener(Issued(q, user, i, t), q.person, user, i, t)
         /\ Issued(q, user, i, t) \in Request
<1> DEFINE q1 == [q EXCEPT !.step = "open"]
           q2 == [q1 EXCEPT !.name = None]
           q3 == [q2 EXCEPT !.user = user]
           q4 == [q3 EXCEPT !.at = now]
           q5 == [q4 EXCEPT !.id = i]
           q6 == [q5 EXCEPT !.refresh = t]
<1>1. q1 \in Request /\ q1.step = "open" /\ q1.person = q.person /\ q1.presented = None
  BY RequestFields DEF Request
<1>2. q2 \in Request /\ q2.step = "open" /\ q2.person = q.person /\ q2.presented = None
  <2> HIDE DEF q1
  <2>1. q2 \in Request
    BY <1>1, RequestFields
  <2> QED BY <1>1, <2>1 DEF Request
<1>3. q3 \in Request /\ q3.step = "open" /\ q3.person = q.person /\ q3.presented = None
        /\ q3.user = user
  <2> HIDE DEF q2
  <2>1. q3 \in Request
    BY <1>2, RequestFields
  <2> QED BY <1>2, <2>1 DEF Request
<1>4. q4 \in Request /\ q4.step = "open" /\ q4.person = q.person /\ q4.presented = None
        /\ q4.user = user /\ q4.at = now
  <2>1. now \in 0..MaxSecond
    BY SecondAssumption
  <2> HIDE DEF q3
  <2>2. q4 \in Request
    BY <1>3, <2>1, RequestFields
  <2> QED BY <1>3, <2>1, <2>2 DEF Request
<1>5. q5 \in Request /\ q5.step = "open" /\ q5.person = q.person /\ q5.presented = None
        /\ q5.user = user /\ q5.at = now /\ q5.id = i
  <2> HIDE DEF q4
  <2>1. q5 \in Request
    BY <1>4, RequestFields
  <2> QED BY <1>4, <2>1 DEF Request
<1>6. Opener(q6, q.person, user, i, t) /\ q6 \in Request
  <2> HIDE DEF q5
  <2>1. q6 \in Request
    BY <1>5, RequestFields
  <2> QED BY <1>5, <2>1 DEF Request, Opener
<1>7. Issued(q, user, i, t) = q6
  BY DEF Issued
<1> QED BY <1>6, <1>7

LEMMA RegisterIs ==
  ASSUME TypeOK, NEW r \in Requests, NEW p \in People, NEW n \in Chosen, Register(r, p, n)
  PROVE  OneKind
<1>1. CASE Refuse(r)
  BY <1>1 DEF Register, OneKind, Ends, Refuse, Go, Becomes
<1>2. CASE Go(r, [NoRequest EXCEPT !.step = "name", !.op = "register", !.person = p, !.name = n])
  BY <1>2, NamesAre DEF Register, OneKind, Starts, Go, Becomes
<1> QED BY <1>1, <1>2 DEF Register, RegisterUser

LEMMA NameIs ==
  ASSUME TypeOK, RequestsKnow, NEW r \in Requests, NEW i \in Ids, Name(r, i)
  PROVE  OneKind
<1>1. requests[r].name \in Names /\ requests[r].person \in People
  BY DEF Name, RequestsKnow, Knows
<1>2. ShortName[requests[r].person] \in Names
  BY <1>1, NamesAre
<1> QED BY <1>1, <1>2 DEF Name, OneKind, Draws, Ends, Refuse, Go, Becomes

LEMMA EnrollIs ==
  ASSUME TypeOK, RequestsKnow, NEW r \in Requests, NEW i \in Ids, NEW t \in Tokens, Enroll(r, i, t)
  PROVE  OneKind
<1> DEFINE q == requests[r]
           a == [id |-> q.id, name |-> q.name, password |-> q.op = "register"]
<1>1. q \in Request /\ q.id \in Ids /\ q.name \in Names /\ q.presented = None /\ q.person \in People
  BY DEF Enroll, RequestsKnow, Knows, TypeOK
<1>2. a \in Account /\ a.id = q.id
  BY <1>1 DEF Account
<1>3. Opener(Issued(q, q.id, i, t), q.person, q.id, i, t)
  BY <1>1, IssuedIs DEF TypeOK
<1>4. Issued(q, q.id, i, t) \in Request
  BY <1>3 DEF Opener
<1>5. Joins(r, i, t)
  BY <1>2, <1>3, <1>4 DEF Enroll, Joins, Go, Becomes
<1> QED BY <1>5 DEF OneKind

LEMMA SignInIs ==
  ASSUME TypeOK, NEW r \in Requests, NEW p \in People, NEW i \in Ids, NEW t \in Tokens,
         i \in IdsDrawn(p, Rows), t \in TokensDrawn, users[p] # NoAccount,
         NEW q \in Request, q.person = p, q.presented = None,
         Go(r, Issued(q, users[p].id, i, t)),
         UNCHANGED <<Clock, Tables, Cookies>>
  PROVE  OneKind
<1>1. users[p] \in Account /\ users[p].id \in Ids
  BY DEF TypeOK, Account
<1>2. /\ Opener(Issued(q, users[p].id, i, t), p, users[p].id, i, t)
      /\ Issued(q, users[p].id, i, t) \in Request
  BY <1>1, IssuedIs DEF TypeOK
<1>3. SignsIn(r, p, i, t)
  BY <1>1, <1>2 DEF SignsIn, Go, Becomes
<1> QED BY <1>3 DEF OneKind

LEMMA LoginIs ==
  ASSUME TypeOK, NEW r \in Requests, NEW p \in People, NEW right \in BOOLEAN,
         NEW i \in Ids, NEW t \in Tokens, Login(r, p, right, i, t)
  PROVE  OneKind
<1> DEFINE q1 == [NoRequest EXCEPT !.op = "login"]
           q == [q1 EXCEPT !.person = p]
<1>1. CASE right /\ users[p].password
  <2>1. users[p] # NoAccount
    BY <1>1 DEF NoAccount
  <2>2. q1 \in Request /\ q1.presented = None
    BY RequestFields, NothingIsNone DEF Request
  <2>3. q \in Request /\ q.presented = None /\ q.person = p
    <3> HIDE DEF q1
    <3> QED BY <2>2, RequestFields DEF Request
  <2>4. q = [NoRequest EXCEPT !.op = "login", !.person = p]
    OBVIOUS
  <2> QED
    <3> HIDE DEF q
    <3> QED BY <1>1, <2>1, <2>3, <2>4, SignInIs DEF Login, LoginUser
<1>2. CASE ~(right /\ users[p].password)
  BY <1>2 DEF Login, LoginUser, OneKind, Ends, Refuse, Go, Becomes
<1> QED BY <1>1, <1>2

LEMMA GoogleIs ==
  ASSUME TypeOK, NEW r \in Requests, NEW p \in People, NEW i \in Ids, NEW t \in Tokens,
         Google(r, p, i, t)
  PROVE  OneKind
<1> DEFINE q1 == [NoRequest EXCEPT !.step = "name"]
           q2 == [q1 EXCEPT !.op = "google"]
           q == [q2 EXCEPT !.person = p]
<1>1. q1 \in Request /\ q1.presented = None
  BY RequestFields, NothingIsNone DEF Request
<1>2. q2 \in Request /\ q2.presented = None
  <2> HIDE DEF q1
  <2> QED BY <1>1, RequestFields DEF Request
<1>3. q \in Request /\ q.presented = None /\ q.person = p
  <2> HIDE DEF q2
  <2> QED BY <1>2, RequestFields DEF Request
<1>4. q = [NoRequest EXCEPT !.step = "name", !.op = "google", !.person = p]
  OBVIOUS
<1>5. CASE Go(r, [q EXCEPT !.name = BaseName[p]])
  <2>1. Starts(r)
    BY <1>5, NamesAre DEF Google, Starts, Go, Becomes
  <2> QED BY <2>1 DEF OneKind
<1>6. CASE HasAccount(p) /\ i \in IdsDrawn(p, Rows) /\ t \in TokensDrawn
           /\ Go(r, Issued(q, users[p].id, i, t))
  <2> HIDE DEF q
  <2> QED BY <1>3, <1>6, SignInIs DEF Google, HasAccount
<1> QED
  <2> HIDE DEF q
  <2> QED BY <1>4, <1>5, <1>6 DEF Google

LEMMA RefreshIs ==
  ASSUME TypeOK, NEW r \in Requests, NEW p \in People, NEW t \in Tokens, NEW fresh \in Tokens,
         Refresh(r, p, t, fresh)
  PROVE  OneKind
<1>1. CASE Refuse(r)
  BY <1>1 DEF Refresh, OneKind, Ends, Refuse, Go, Becomes
<1>2. ASSUME NEW i \in Rows, sessions[i].refresh = t, fresh \in TokensDrawn,
             Go(r, [NoRequest EXCEPT !.step = "save", !.op = "refresh", !.person = p, !.presented = t,
                      !.id = i, !.user = sessions[i].user, !.at = now, !.refresh = fresh])
      PROVE  OneKind
  <2> DEFINE q1 == [NoRequest EXCEPT !.step = "save"]
             q2 == [q1 EXCEPT !.op = "refresh"]
             q3 == [q2 EXCEPT !.person = p]
             q4 == [q3 EXCEPT !.presented = t]
             q5 == [q4 EXCEPT !.id = i]
             q6 == [q5 EXCEPT !.user = sessions[i].user]
             q7 == [q6 EXCEPT !.at = now]
             q8 == [q7 EXCEPT !.refresh = fresh]
  <2>1. i \in Ids /\ sessions[i].user \in Ids /\ now \in 0..MaxSecond
    BY SecondAssumption DEF Rows, TypeOK, Session
  <2>2. q1 \in Request /\ q1.step = "save"
    BY RequestFields, NothingIsNone DEF Request
  <2>3. q2 \in Request /\ q2.step = "save" /\ q2.op = "refresh"
    <3> HIDE DEF q1
    <3> QED BY <2>2, RequestFields DEF Request
  <2>4. q3 \in Request /\ q3.step = "save" /\ q3.op = "refresh" /\ q3.person = p
    <3> HIDE DEF q2
    <3> QED BY <2>3, RequestFields DEF Request
  <2>5. q4 \in Request /\ q4.step = "save" /\ q4.op = "refresh" /\ q4.person = p /\ q4.presented = t
    <3> HIDE DEF q3
    <3> QED BY <2>4, RequestFields DEF Request
  <2>6. q5 \in Request /\ q5.step = "save" /\ q5.op = "refresh" /\ q5.person = p /\ q5.presented = t /\ q5.id = i
    <3> HIDE DEF q4
    <3>1. q5 \in Request
      BY <2>1, <2>5, RequestFields
    <3> QED BY <2>1, <2>5, <3>1 DEF Request
  <2>7. q6 \in Request /\ q6.step = "save" /\ q6.op = "refresh" /\ q6.person = p /\ q6.presented = t /\ q6.id = i
          /\ q6.user = sessions[i].user
    <3> HIDE DEF q5
    <3>1. q6 \in Request
      BY <2>1, <2>6, RequestFields
    <3> QED BY <2>1, <2>6, <3>1 DEF Request
  <2>8. q7 \in Request /\ q7.step = "save" /\ q7.op = "refresh" /\ q7.person = p /\ q7.presented = t /\ q7.id = i
          /\ q7.user = sessions[i].user /\ q7.at = now
    <3> HIDE DEF q6
    <3>1. q7 \in Request
      BY <2>1, <2>7, RequestFields
    <3> QED BY <2>1, <2>7, <3>1 DEF Request
  <2>9. Saver(q8, p, t, i, fresh)
    <3> HIDE DEF q7
    <3>1. q8 \in Request
      BY <2>8, RequestFields
    <3> QED BY <2>8, <3>1 DEF Request, Saver
  <2>10. Becomes(r, q8)
    BY <1>2 DEF Go, Becomes
  <2>11. Reads(r, p, t, i, fresh)
    <3> HIDE DEF q8
    <3> QED BY <1>2, <2>9, <2>10 DEF Refresh, Reads, Saver
  <2> QED BY <2>1, <2>11 DEF OneKind
<1> QED BY <1>1, <1>2 DEF Refresh, RefreshToken

LEMMA StepsAre ==
  ASSUME TypeOK, RequestsKnow, Next
  PROVE  OneKind
<1>1. ASSUME NEW r \in Requests, NotEnrolled(r) PROVE OneKind
  BY <1>1 DEF NotEnrolled, OneKind, Retries, Ends, Refuse, Go, Becomes
<1>2. ASSUME NEW r \in Requests, Open(r) \/ Save(r) PROVE OneKind
  BY <1>2 DEF Open, Save, OneKind, Stores, Ends, Refuse, Go, Becomes, Tables
<1>3. ASSUME NEW r \in Requests, NEW p \in People, NEW t \in Tokens, Logout(r, p, t) PROVE OneKind
  <2>1. requests' = [requests EXCEPT ![r] = NoRequest]
    BY <1>3 DEF Logout, Idle, RequestsKnow, Knows, TypeOK
  <2>2. CASE UNCHANGED <<sessions, held, jar>>
    BY <1>3, <2>1, <2>2 DEF Logout, OneKind, Ends, Becomes, Tables, Cookies
  <2>3. CASE sessions' = Without(t)
    <3>1. Leaves(p, t)
      BY <1>3, <2>3 DEF Logout, Leaves
    <3> QED BY <3>1 DEF OneKind
  <2> QED BY <1>3, <2>2, <2>3 DEF Logout
<1>4. CASE Tick \/ DayPasses
  BY <1>4, SecondAssumption DEF Tick, DayPasses, OneKind, Passes, TypeOK
<1> QED BY <1>1, <1>2, <1>3, <1>4, RegisterIs, NameIs, EnrollIs, LoginIs, GoogleIs, RefreshIs DEF Next

-----------------------------------------------------------------------------
(* What the kinds of step do.                                              *)

LEMMA BecomesIs ==
  ASSUME TypeOK, NEW r \in Requests, NEW q, Becomes(r, q)
  PROVE  requests'[r] = q /\ \A s \in Requests \ {r} : requests'[s] = requests[s]
BY DEF Becomes, TypeOK

LEMMA IdIsNew ==
  ASSUME NEW p \in People, NEW taken, NEW i \in IdsDrawn(p, taken)
  PROVE  /\ i \in Ids
         /\ \A s \in Requests : requests[s].id # i
         /\ p \notin Unlucky => i \notin taken
BY DEF IdsDrawn

LEMMA TokenIsNew ==
  ASSUME NEW t \in TokensDrawn
  PROVE  /\ t \in Tokens /\ t \notin handed /\ t \notin Live
         /\ \A s \in Requests : requests[s].refresh # t
BY DEF TokensDrawn

\* The answer to a request whose session is stored.
Cookied(q) ==
  /\ \A p \in People \ {q.person} : held'[p] = held[p] /\ jar'[p] = jar[p]
  /\ \/ /\ held'[q.person] = (held[q.person] \ {q.presented}) \cup {q.refresh}
        /\ jar'[q.person] \subseteq (jar[q.person] \ {q.presented}) \cup {q.refresh}
        /\ handed' = handed \cup {q.refresh}
     \/ /\ q.person \in Unlucky
        /\ held'[q.person] = held[q.person] /\ jar'[q.person] = jar[q.person] /\ handed' = handed

Stored(r, q) ==
  /\ q \in Request /\ Knows(q) /\ q.step \in {"open", "save"}
  /\ q.step = "open" => q.id \notin Rows
  /\ sessions'[q.id] \in Session
  /\ sessions'[q.id].user = q.user /\ sessions'[q.id].refresh = q.refresh
  /\ \A i \in Ids \ {q.id} : sessions'[i] = sessions[i]
  /\ Rows' = Rows \cup {q.id}
  /\ requests'[r] = NoRequest /\ \A s \in Requests \ {r} : requests'[s] = requests[s]
  /\ Cookied(q)
  /\ users' = users

LEMMA StoresIs ==
  ASSUME TypeOK, RequestsKnow, NEW r \in Requests, Stores(r)
  PROVE  Stored(r, requests[r])
<1> DEFINE q == requests[r]
<1>1. q \in Request /\ Knows(q)
  BY DEF TypeOK, RequestsKnow
<1>2. /\ q.id \in Ids /\ q.user \in Ids /\ q.at \in 1..MaxSecond /\ q.refresh \in Tokens
      /\ q.person \in People
  BY <1>1 DEF Stores, Knows
<1>3. Row(q) \in Session /\ Row(q).user = q.user /\ Row(q).refresh = q.refresh
  BY <1>2 DEF Row, Session
<1>4. sessions'[q.id] = Row(q) /\ \A i \in Ids \ {q.id} : sessions'[i] = sessions[i]
  BY <1>2 DEF Stores, TypeOK
<1>5. Rows' = Rows \cup {q.id}
  BY <1>2, <1>3, <1>4, NothingIsNone DEF Rows
<1>6. requests'[r] = NoRequest /\ \A s \in Requests \ {r} : requests'[s] = requests[s]
  BY DEF Stores, Answer, Go, TypeOK
<1>7. Cookied(q)
  <2>1. CASE UNCHANGED Cookies /\ q.person \in Unlucky
    BY <1>2, <2>1 DEF Cookied, Cookies
  <2>2. CASE /\ held' = [held EXCEPT ![q.person] = (@ \ {q.presented}) \cup {q.refresh}]
             /\ SetCookie(q) /\ handed' = handed \cup {q.refresh}
    <3>1. q.op = "register" => q.presented = None
      BY <1>1 DEF Stores, Knows
    <3>2. None \notin jar[q.person]
      BY <1>2, NothingIsNone DEF TypeOK
    <3>3. CASE q.op = "register"
      BY <1>2, <2>2, <3>1, <3>2, <3>3 DEF SetCookie, Cookied, TypeOK
    <3>4. ASSUME NEW old \in InBrowser(q.person, q.presented),
                 jar' = [jar EXCEPT ![q.person] = (@ \ {old}) \cup {q.refresh}]
          PROVE  Cookied(q)
      <4>1. jar'[q.person] = (jar[q.person] \ {old}) \cup {q.refresh}
            /\ \A p \in People \ {q.person} : jar'[p] = jar[p]
        BY <1>2, <3>4 DEF TypeOK
      <4>2. q.presented \in jar[q.person] => old = q.presented
        BY <3>4 DEF InBrowser
      <4> QED BY <1>2, <2>2, <4>1, <4>2 DEF Cookied, TypeOK
    <3> QED BY <2>2, <3>3, <3>4 DEF SetCookie
  <2> QED BY <2>1, <2>2 DEF Stores, Answer
<1> QED BY <1>1, <1>3, <1>4, <1>5, <1>6, <1>7 DEF Stores, Stored

LEMMA LeavesIs ==
  ASSUME TypeOK, NEW p \in People, NEW t \in Tokens, Leaves(p, t)
  PROVE  /\ t \in jar[p]
         /\ p \notin Unlucky => \A s \in Requests : requests[s].presented # t
         /\ \A i \in Ids : sessions'[i] = IF sessions[i].refresh = t THEN NoSession ELSE sessions[i]
         /\ Rows' = {i \in Rows : sessions[i].refresh # t}
         /\ \/ held'[p] = held[p] \ {t} /\ jar'[p] = jar[p] \ {t}
            \/ p \in Unlucky /\ held'[p] = held[p] /\ jar'[p] = jar[p]
         /\ \A o \in People \ {p} : held'[o] = held[o] /\ jar'[o] = jar[o]
         /\ requests' = requests /\ users' = users /\ handed' = handed
<1>1. \A i \in Ids : sessions'[i] = IF sessions[i].refresh = t THEN NoSession ELSE sessions[i]
  BY DEF Leaves, Without
<1>2. Rows' = {i \in Rows : sessions[i].refresh # t}
  BY <1>1 DEF Rows
<1>3. /\ \/ held'[p] = held[p] \ {t} /\ jar'[p] = jar[p] \ {t}
         \/ p \in Unlucky /\ held'[p] = held[p] /\ jar'[p] = jar[p]
      /\ \A o \in People \ {p} : held'[o] = held[o] /\ jar'[o] = jar[o]
  BY DEF Leaves, TypeOK
<1> QED BY <1>1, <1>2, <1>3 DEF Leaves, Presents

LEMMA JoinsIs ==
  ASSUME TypeOK, RequestsKnow, NEW r \in Requests, NEW i \in Ids, NEW t \in Tokens, Joins(r, i, t)
  PROVE  LET p == requests[r].person IN
         /\ p \in People /\ requests[r].id \in Ids
         /\ users[p] = NoAccount /\ users[p].id = None
         /\ users'[p] \in Account /\ users'[p].id = requests[r].id
         /\ \A o \in People \ {p} : users'[o] = users[o]
         /\ \A o \in People : users[o].id # requests[r].id
<1>1. requests[r].person \in People /\ requests[r].id \in Ids
  BY DEF Joins, RequestsKnow, Knows
<1>2. users[requests[r].person] = NoAccount
  BY DEF Joins, Enrolls, HasAccount
<1>3. \A o \in People : users[o].id # requests[r].id
  BY DEF Joins, Enrolls, IsUser
<1>4. PICK a \in Account : /\ a.id = requests[r].id
                           /\ users' = [users EXCEPT ![requests[r].person] = a]
  BY DEF Joins
<1> QED BY <1>1, <1>2, <1>3, <1>4, NothingIsNone DEF TypeOK

-----------------------------------------------------------------------------
(* Types and what requests know.                                           *)

LEMMA TypeStep ==
  ASSUME TypeOK, RequestsKnow, [Next]_vars
  PROVE  TypeOK'
<1>1. ASSUME NEW r \in Requests, NEW q \in Request, Becomes(r, q)
      PROVE  requests' \in [Requests -> Request]
  BY <1>1 DEF Becomes, TypeOK
<1>2. ASSUME NEW r \in Requests, Ends(r) PROVE TypeOK'
  BY <1>1, <1>2, NothingIsNone DEF Ends, TypeOK, Clock, Tables, Cookies
<1>3. ASSUME NEW r \in Requests, Starts(r) PROVE TypeOK'
  <2>1. PICK p \in People, n \in Names, op \in {"register", "google"} :
          Becomes(r, [NoRequest EXCEPT !.step = "name", !.op = op, !.person = p, !.name = n])
    BY <1>3 DEF Starts
  <2> DEFINE q1 == [NoRequest EXCEPT !.step = "name"]
             q2 == [q1 EXCEPT !.op = op]
             q3 == [q2 EXCEPT !.person = p]
  <2>2. q1 \in Request
    BY RequestFields, NothingIsNone
  <2>3. q2 \in Request
    BY <2>2, RequestFields
  <2>4. q3 \in Request
    BY <2>3, RequestFields
  <2>5. [q3 EXCEPT !.name = n] \in Request
    BY <2>4, RequestFields
  <2> QED BY <1>1, <1>3, <2>1, <2>5 DEF Starts, TypeOK, Clock, Tables, Cookies
<1>4. ASSUME NEW r \in Requests, NEW n \in Names, NEW i \in Ids, Draws(r, n, i) PROVE TypeOK'
  <2> DEFINE q1 == [requests[r] EXCEPT !.step = "enroll"]
             q2 == [q1 EXCEPT !.name = n]
  <2>1. q1 \in Request
    BY RequestFields DEF TypeOK
  <2>2. q2 \in Request
    BY <2>1, RequestFields
  <2>3. [q2 EXCEPT !.id = i] \in Request
    BY <2>2, RequestFields
  <2> QED BY <1>1, <1>4, <2>3 DEF Draws, TypeOK, Clock, Tables, Cookies
<1>5. ASSUME NEW r \in Requests, Retries(r) PROVE TypeOK'
  <2> DEFINE q1 == [requests[r] EXCEPT !.step = "again"]
  <2>1. FullName[requests[r].person] \in Names
    BY <1>5, NamesAre DEF Retries, RequestsKnow, Knows
  <2>2. q1 \in Request
    BY RequestFields DEF TypeOK
  <2>3. Again(requests[r]) \in Request
    BY <2>1, <2>2, RequestFields DEF Again
  <2> QED BY <1>1, <1>5, <2>3 DEF Retries, TypeOK, Clock, Tables, Cookies
<1>6. ASSUME NEW r \in Requests, NEW p \in People, NEW i \in Ids, NEW t \in Tokens, SignsIn(r, p, i, t)
      PROVE  TypeOK'
  BY <1>1, <1>6 DEF SignsIn, TypeOK, Clock, Tables, Cookies
<1>7. ASSUME NEW r \in Requests, NEW i \in Ids, NEW t \in Tokens, Joins(r, i, t) PROVE TypeOK'
  <2>1. users' \in [People -> Account \cup {NoAccount}]
    BY <1>7 DEF Joins, TypeOK
  <2> QED BY <1>1, <1>7, <2>1 DEF Joins, TypeOK, Clock, Cookies
<1>8. ASSUME NEW r \in Requests, NEW p \in People, NEW i \in Ids, NEW t \in Tokens, NEW fresh \in Tokens,
             Reads(r, p, t, i, fresh)
      PROVE  TypeOK'
  BY <1>1, <1>8 DEF Reads, TypeOK, Clock, Tables, Cookies
<1>9. ASSUME NEW r \in Requests, Stores(r) PROVE TypeOK'
  <2> DEFINE q == requests[r]
  <2>1. Stored(r, q)
    BY <1>9, StoresIs
  <2>2. q.refresh \in Tokens /\ q.person \in People
    BY <2>1 DEF Stored, Knows
  <2>3. Row(q) \in Session
    BY <2>1 DEF Stored, Knows, Row, Session
  <2>4. sessions' \in [Ids -> Session \cup {NoSession}]
    BY <1>9, <2>3 DEF Stores, TypeOK
  <2>5. Becomes(r, NoRequest)
    BY <1>9 DEF Stores, Answer, Go, Becomes
  <2>6. held' \in [People -> SUBSET Tokens] /\ handed' \in SUBSET Tokens
    BY <1>9, <2>2 DEF Stores, Answer, Cookies, TypeOK
  <2>7. jar' \in [People -> SUBSET Tokens]
    BY <1>9, <2>2 DEF Stores, Answer, SetCookie, Cookies, TypeOK
  <2> QED BY <1>1, <1>9, <2>4, <2>5, <2>6, <2>7, NothingIsNone DEF Stores, TypeOK, Clock
<1>10. ASSUME NEW p \in People, NEW t \in Tokens, Leaves(p, t) PROVE TypeOK'
  BY <1>10 DEF Leaves, Without, TypeOK, Clock
<1>11. CASE Passes \/ UNCHANGED vars
  BY <1>11 DEF Passes, vars, TypeOK, Tables, Cookies
<1> QED BY <1>2, <1>3, <1>4, <1>5, <1>6, <1>7, <1>8, <1>9, <1>10, <1>11, StepsAre DEF OneKind

LEMMA KnowsStep ==
  ASSUME TypeOK, RequestsKnow, [Next]_vars
  PROVE  RequestsKnow'
<1>1. ASSUME NEW r \in Requests, NEW q, Becomes(r, q), Knows(q) PROVE RequestsKnow'
  BY <1>1, BecomesIs DEF RequestsKnow
<1>2. Knows(NoRequest)
  BY NothingIsNone DEF Knows
<1>3. ASSUME NEW r \in Requests, Starts(r) PROVE RequestsKnow'
  <2>1. PICK p \in People, n \in Names, op \in {"register", "google"} :
          Becomes(r, [NoRequest EXCEPT !.step = "name", !.op = op, !.person = p, !.name = n])
    BY <1>3 DEF Starts
  <2>2. Knows([NoRequest EXCEPT !.step = "name", !.op = op, !.person = p, !.name = n])
    BY DEF Knows, NoRequest
  <2> QED BY <1>1, <2>1, <2>2
<1>4. ASSUME NEW r \in Requests, NEW n \in Names, NEW i \in Ids, Draws(r, n, i) PROVE RequestsKnow'
  <2> DEFINE q == requests[r]
  <2>1. q \in Request /\ Knows(q)
    BY DEF TypeOK, RequestsKnow
  <2>2. Knows([q EXCEPT !.step = "enroll", !.name = n, !.id = i])
    BY <1>4, <2>1 DEF Draws, Knows, Request
  <2> QED BY <1>1, <1>4, <2>2 DEF Draws
<1>5. ASSUME NEW r \in Requests, Retries(r) PROVE RequestsKnow'
  <2> DEFINE q == requests[r]
  <2>1. q \in Request /\ Knows(q)
    BY DEF TypeOK, RequestsKnow
  <2>2. FullName[q.person] \in Names
    BY <1>5, <2>1, NamesAre DEF Retries, Knows
  <2>3. Knows(Again(q))
    BY <1>5, <2>1, <2>2 DEF Retries, Knows, Request, Again
  <2> QED BY <1>1, <1>5, <2>3 DEF Retries
<1>6. ASSUME NEW q \in Request, NEW p \in People, NEW user \in Ids, NEW i \in Ids, NEW t \in Tokens,
             Opener(q, p, user, i, t)
      PROVE  Knows(q)
  BY <1>6 DEF Opener, Knows, TypeOK
<1>7. ASSUME NEW r \in Requests, NEW p \in People, NEW i \in Ids, NEW t \in Tokens, SignsIn(r, p, i, t)
      PROVE  RequestsKnow'
  <2>1. users[p].id \in Ids
    BY <1>7 DEF SignsIn, Account
  <2> QED BY <1>1, <1>6, <1>7, <2>1 DEF SignsIn
<1>8. ASSUME NEW r \in Requests, NEW i \in Ids, NEW t \in Tokens, Joins(r, i, t) PROVE RequestsKnow'
  <2>1. requests[r].person \in People /\ requests[r].id \in Ids
    BY <1>8, JoinsIs
  <2> QED BY <1>1, <1>6, <1>8, <2>1 DEF Joins
<1>9. ASSUME NEW r \in Requests, NEW p \in People, NEW i \in Ids, NEW t \in Tokens, NEW fresh \in Tokens,
             Reads(r, p, t, i, fresh)
      PROVE  RequestsKnow'
  <2>1. PICK q \in Request : Saver(q, p, t, i, fresh) /\ Becomes(r, q)
    BY <1>9 DEF Reads
  <2>2. sessions[i].user \in Ids
    BY <1>9 DEF Reads, Rows, TypeOK, Session
  <2>3. Knows(q)
    BY <2>1, <2>2 DEF Saver, Knows, TypeOK
  <2> QED BY <1>1, <2>1, <2>3
<1>10. ASSUME NEW r \in Requests, Ends(r) \/ Stores(r) PROVE RequestsKnow'
  <2>1. Becomes(r, NoRequest)
    BY <1>10 DEF Ends, Stores, Answer, Go, Becomes
  <2> QED BY <1>1, <1>2, <2>1
<1>11. CASE Passes \/ UNCHANGED vars \/ \E p \in People, t \in Tokens : Leaves(p, t)
  BY <1>11 DEF Passes, Leaves, vars, RequestsKnow
<1> QED BY <1>3, <1>4, <1>5, <1>7, <1>8, <1>9, <1>10, <1>11, StepsAre DEF OneKind

-----------------------------------------------------------------------------
(* Tokens.                                                                 *)

\* A token that a request is about to hand out is nobody's yet.
FreshTokens ==
  \A r \in Requests : requests[r].refresh # None =>
    /\ requests[r].refresh \notin handed \cup Live
    /\ \A s \in Requests \ {r} : requests[s].refresh # requests[r].refresh

\* The tokens of other requests and the rows are as they were, and the token
\* the request r may now have is new.
Calm(r) ==
  /\ Live' = Live /\ handed' = handed
  /\ \A s \in Requests \ {r} : requests'[s].refresh = requests[s].refresh
  /\ requests'[r].refresh \in TokensDrawn \cup {requests[r].refresh, None}

LEMMA CalmSteps ==
  ASSUME TypeOK, RequestsKnow, [Next]_vars
  PROVE  \/ \E r \in Requests : Calm(r)
         \/ \E r \in Requests : Stored(r, requests[r])
         \/ \E p \in People, t \in Tokens : Leaves(p, t)
         \/ UNCHANGED <<sessions, requests, held, jar, handed>>
<1>1. (UNCHANGED sessions) => Live' = Live
  BY DEF Live, Rows
<1>2. ASSUME NEW r \in Requests, Ends(r) \/ Starts(r) PROVE Calm(r)
  <2>1. ASSUME NEW q, Becomes(r, q), q.refresh = None PROVE Calm(r)
    BY <1>1, <1>2, <2>1, BecomesIs DEF Ends, Starts, Calm, Tables, Cookies
  <2>2. CASE Ends(r)
    BY <2>1, <2>2, NothingIsNone DEF Ends
  <2>3. CASE Starts(r)
    <3>1. PICK p \in People, n \in Names, op \in {"register", "google"} :
            Becomes(r, [NoRequest EXCEPT !.step = "name", !.op = op, !.person = p, !.name = n])
      BY <2>3 DEF Starts
    <3>2. [NoRequest EXCEPT !.step = "name", !.op = op, !.person = p, !.name = n].refresh = None
      BY DEF NoRequest
    <3> QED BY <2>1, <3>1, <3>2
  <2> QED BY <1>2, <2>2, <2>3
<1>3. ASSUME NEW r \in Requests, NEW n \in Names, NEW i \in Ids, Draws(r, n, i) PROVE Calm(r)
  <2>1. [requests[r] EXCEPT !.step = "enroll", !.name = n, !.id = i].refresh = requests[r].refresh
    BY DEF TypeOK, Request
  <2> QED BY <1>1, <1>3, <2>1, BecomesIs DEF Draws, Calm, Tables, Cookies
<1>4. ASSUME NEW r \in Requests, Retries(r) PROVE Calm(r)
  <2>1. Again(requests[r]).refresh = requests[r].refresh
    BY DEF TypeOK, Request, Again
  <2> QED BY <1>1, <1>4, <2>1, BecomesIs DEF Retries, Calm, Tables, Cookies
<1>5. ASSUME NEW r \in Requests, NEW p \in People, NEW i \in Ids, NEW t \in Tokens,
             SignsIn(r, p, i, t) \/ Joins(r, i, t)
      PROVE  Calm(r)
  <2>1. PICK q \in Request : Becomes(r, q) /\ q.refresh = t
    BY <1>5 DEF SignsIn, Joins, Opener
  <2>2. t \in TokensDrawn /\ UNCHANGED <<sessions, handed>>
    BY <1>5 DEF SignsIn, Joins, Tables, Cookies
  <2> QED BY <1>1, <2>1, <2>2, BecomesIs DEF Calm
<1>6. ASSUME NEW r \in Requests, NEW p \in People, NEW i \in Ids, NEW t \in Tokens, NEW fresh \in Tokens,
             Reads(r, p, t, i, fresh)
      PROVE  Calm(r)
  <2>1. PICK q \in Request : Becomes(r, q) /\ q.refresh = fresh
    BY <1>6 DEF Reads, Saver
  <2> QED BY <1>1, <1>6, <2>1, BecomesIs DEF Reads, Calm, Tables, Cookies
<1> DEFINE Still == UNCHANGED <<sessions, requests, held, jar, handed>>
<1>7. Passes \/ UNCHANGED vars => Still
  BY DEF Passes, vars, Tables, Cookies
<1>8. ASSUME NEW r \in Requests, Stores(r) PROVE Stored(r, requests[r])
  BY <1>8, StoresIs
<1>9. CASE Passes \/ UNCHANGED vars
  BY <1>7, <1>9
<1>10. CASE OneKind
  <2> HIDE DEF Still
  <2>1. CASE \E r \in Requests : Ends(r) \/ Starts(r) \/ Retries(r) \/ Stores(r)
    BY <1>2, <1>4, <1>8, <2>1
  <2>2. CASE \E r \in Requests, n \in Names, i \in Ids : Draws(r, n, i)
    BY <1>3, <2>2
  <2>3. CASE \E r \in Requests, p \in People, i \in Ids, t \in Tokens : SignsIn(r, p, i, t)
    BY <1>5, <2>3
  <2>4. CASE \E r \in Requests, i \in Ids, t \in Tokens : Joins(r, i, t)
    BY <1>5, <2>4, JoinsIs
  <2>5. CASE \E r \in Requests, p \in People, i \in Ids, t, fresh \in Tokens : Reads(r, p, t, i, fresh)
    BY <1>6, <2>5
  <2> QED BY <1>9, <1>10, <2>1, <2>2, <2>3, <2>4, <2>5 DEF OneKind
<1> QED BY <1>9, <1>10, StepsAre

\* The rows' tokens after a step.
LEMMA LiveSteps ==
  ASSUME TypeOK, RequestsKnow, [Next]_vars, NEW t \in Live'
  PROVE  \/ t \in Live
         \/ \E r \in Requests : Stored(r, requests[r]) /\ t = requests[r].refresh
<1>1. PICK i \in Ids : sessions'[i] # NoSession /\ sessions'[i].refresh = t
  BY DEF Live, Rows
<1>2. CASE sessions'[i] = sessions[i]
  BY <1>1, <1>2 DEF Live, Rows
<1>3. ASSUME NEW p \in People, NEW t0 \in Tokens, Leaves(p, t0) PROVE sessions'[i] = sessions[i]
  BY <1>1, <1>3 DEF Leaves, Without
<1>4. ASSUME NEW r \in Requests, Stored(r, requests[r])
      PROVE  sessions'[i] = sessions[i] \/ t = requests[r].refresh
  BY <1>1, <1>4 DEF Stored
<1> QED BY <1>2, <1>3, <1>4, CalmSteps DEF Calm

LEMMA FreshStep ==
  ASSUME TypeOK, RequestsKnow, FreshTokens, [Next]_vars
  PROVE  FreshTokens'
<1>1. ASSUME NEW r \in Requests, Calm(r) PROVE FreshTokens'
  <2>1. TokensDrawn \cap (handed \cup Live \cup {requests[s].refresh : s \in Requests}) = {}
    BY DEF TokensDrawn
  <2> QED BY <1>1, <2>1 DEF Calm, FreshTokens
<1>2. ASSUME NEW r \in Requests, Stored(r, requests[r]) PROVE FreshTokens'
  <2>1. handed' \subseteq handed \cup {requests[r].refresh}
    BY <1>2 DEF Stored, Cookied
  <2>2. Live' \subseteq Live \cup {requests[r].refresh}
    <3>1. \A i \in Rows' : sessions'[i].refresh # requests[r].refresh
                            => i \in Rows /\ sessions'[i] = sessions[i]
      BY <1>2 DEF Stored, Rows
    <3> QED BY <3>1 DEF Live
  <2>3. requests[r].refresh # None
    BY <1>2, NothingIsNone DEF Stored, Knows
  <2> QED BY <1>2, <2>1, <2>2, <2>3, NothingIsNone DEF Stored, FreshTokens
<1>3. ASSUME NEW p \in People, NEW t \in Tokens, Leaves(p, t) PROVE FreshTokens'
  <2>1. Live' \subseteq Live
    <3>1. \A i \in Rows' : i \in Rows /\ sessions'[i] = sessions[i]
      BY <1>3, LeavesIs DEF Rows
    <3> QED BY <3>1 DEF Live
  <2> QED BY <1>3, <2>1, LeavesIs DEF FreshTokens
<1>4. CASE UNCHANGED <<sessions, requests, held, jar, handed>>
  BY <1>4 DEF FreshTokens, Live, Rows
<1> QED BY <1>1, <1>2, <1>3, <1>4, CalmSteps

-----------------------------------------------------------------------------
(* Accounts, rows and tokens have one owner.                               *)

AccountsDiffer ==
  \A p, o \in People : users[p].id = users[o].id /\ users[p].id # None => p = o

\* A session is opened or renewed for the account of the person who asked.
OwnAccounts ==
  \A r \in Requests : requests[r].step \in {"open", "save"} =>
    users[requests[r].person].id = requests[r].user

HeldTokens ==
  /\ \A p \in People : jar[p] \subseteq held[p] /\ held[p] \subseteq handed
  /\ \A p, o \in People : p # o => held[p] \cap held[o] = {}
  /\ \A p \in People, i \in Rows : sessions[i].refresh \in held[p] => sessions[i].user = users[p].id

OneRowEach == \A i, j \in Rows : sessions[i].refresh = sessions[j].refresh => i = j

RowsHaveUsers == \A i \in Rows : \E p \in People : sessions[i].user = users[p].id

Owned == AccountsDiffer /\ OwnAccounts /\ HeldTokens /\ OneRowEach /\ RowsHaveUsers

\* The account of r's person is new, that of all others as before.
Enrolled(r) ==
  LET p == requests[r].person IN
  /\ p \in People /\ requests[r].id \in Ids /\ requests[r].step \in {"enroll", "again"}
  /\ users[p] = NoAccount /\ users[p].id = None
  /\ users'[p] \in Account /\ users'[p].id = requests[r].id
  /\ \A o \in People \ {p} : users'[o] = users[o]
  /\ \A o \in People : users[o].id # requests[r].id
  /\ UNCHANGED <<sessions, held, jar, handed>>

LEMMA OwnerSteps ==
  ASSUME TypeOK, RequestsKnow, [Next]_vars
  PROVE  \/ UNCHANGED <<users, sessions, held, jar, handed>>
         \/ \E r \in Requests : Enrolled(r)
         \/ \E r \in Requests : Stored(r, requests[r])
         \/ \E p \in People, t \in Tokens : Leaves(p, t)
<1> DEFINE Still == UNCHANGED <<users, sessions, held, jar, handed>>
<1>1. CASE UNCHANGED vars
  BY <1>1 DEF vars
<1>2. ASSUME NEW r \in Requests, Ends(r) \/ Starts(r) \/ Retries(r) PROVE Still
  BY <1>2 DEF Ends, Starts, Retries, Tables, Cookies
<1>3. ASSUME NEW r \in Requests, NEW n \in Names, NEW i \in Ids, Draws(r, n, i) PROVE Still
  BY <1>3 DEF Draws, Tables, Cookies
<1>4. ASSUME NEW r \in Requests, NEW p \in People, NEW i \in Ids, NEW t \in Tokens, SignsIn(r, p, i, t)
      PROVE  Still
  BY <1>4 DEF SignsIn, Tables, Cookies
<1>5. ASSUME NEW r \in Requests, NEW i \in Ids, NEW t \in Tokens, Joins(r, i, t) PROVE Enrolled(r)
  <2>1. UNCHANGED <<sessions, held, jar, handed>> /\ requests[r].step \in {"enroll", "again"}
    BY <1>5 DEF Joins, Cookies
  <2> QED BY <1>5, <2>1, JoinsIs DEF Enrolled
<1>6. ASSUME NEW r \in Requests, NEW p \in People, NEW i \in Ids, NEW t \in Tokens, NEW fresh \in Tokens,
             Reads(r, p, t, i, fresh)
      PROVE  Still
  BY <1>6 DEF Reads, Tables, Cookies
<1>7. ASSUME NEW r \in Requests, Stores(r) PROVE Stored(r, requests[r])
  BY <1>7, StoresIs
<1>8. Passes => Still
  BY DEF Passes, Tables, Cookies
<1>9. CASE OneKind
  <2> HIDE DEF Still
  <2>1. CASE \E r \in Requests : Ends(r) \/ Starts(r) \/ Retries(r) \/ Stores(r)
    BY <1>2, <1>7, <2>1 DEF Still
  <2>2. CASE \E r \in Requests, n \in Names, i \in Ids : Draws(r, n, i)
    BY <1>3, <2>2 DEF Still
  <2>3. CASE \E r \in Requests, p \in People, i \in Ids, t \in Tokens : SignsIn(r, p, i, t)
    BY <1>4, <2>3 DEF Still
  <2>4. CASE \E r \in Requests, i \in Ids, t \in Tokens : Joins(r, i, t)
    BY <1>5, <2>4
  <2>5. CASE \E r \in Requests, p \in People, i \in Ids, t, fresh \in Tokens : Reads(r, p, t, i, fresh)
    BY <1>6, <2>5 DEF Still
  <2> QED BY <1>8, <1>9, <2>1, <2>2, <2>3, <2>4, <2>5 DEF OneKind, Still
<1> QED BY <1>1, <1>9, StepsAre

LEMMA AccountsDifferStep ==
  ASSUME TypeOK, RequestsKnow, AccountsDiffer, [Next]_vars
  PROVE  AccountsDiffer'
<1>1. CASE users' = users
  BY <1>1 DEF AccountsDiffer
<1>2. ASSUME NEW r \in Requests, Enrolled(r) PROVE AccountsDiffer'
  BY <1>2 DEF Enrolled, AccountsDiffer
<1> QED BY <1>1, <1>2, OwnerSteps, LeavesIs DEF Stored

LEMMA RowsHaveUsersStep ==
  ASSUME TypeOK, RequestsKnow, OwnAccounts, RowsHaveUsers, [Next]_vars
  PROVE  RowsHaveUsers'
<1>1. CASE UNCHANGED <<users, sessions>>
  BY <1>1 DEF RowsHaveUsers, Rows
<1>2. ASSUME NEW r \in Requests, Enrolled(r) PROVE RowsHaveUsers'
  <2>1. Rows' = Rows
    BY <1>2 DEF Enrolled, Rows
  <2>2. \A i \in Rows : sessions[i].user # None
    BY NothingIsNone DEF Rows, TypeOK, Session
  <2> QED BY <1>2, <2>1, <2>2 DEF Enrolled, RowsHaveUsers
<1>3. ASSUME NEW r \in Requests, Stored(r, requests[r]) PROVE RowsHaveUsers'
  <2>1. requests[r].person \in People /\ users[requests[r].person].id = requests[r].user
    BY <1>3 DEF Stored, Knows, OwnAccounts
  <2> QED BY <1>3, <2>1 DEF Stored, RowsHaveUsers, Rows
<1>4. ASSUME NEW p \in People, NEW t \in Tokens, Leaves(p, t) PROVE RowsHaveUsers'
  BY <1>4, LeavesIs DEF RowsHaveUsers, Rows
<1> QED BY <1>1, <1>2, <1>3, <1>4, OwnerSteps

LEMMA OneRowEachStep ==
  ASSUME TypeOK, RequestsKnow, FreshTokens, OneRowEach, [Next]_vars
  PROVE  OneRowEach'
<1>1. CASE UNCHANGED sessions
  BY <1>1 DEF OneRowEach, Rows
<1>2. ASSUME NEW r \in Requests, Stored(r, requests[r]) PROVE OneRowEach'
  <2>1. \A i \in Rows : sessions[i].refresh # requests[r].refresh
    BY <1>2, NothingIsNone DEF Stored, Knows, FreshTokens, Live
  <2> QED BY <1>2, <2>1 DEF Stored, OneRowEach, Rows
<1>3. ASSUME NEW p \in People, NEW t \in Tokens, Leaves(p, t) PROVE OneRowEach'
  BY <1>3, LeavesIs DEF OneRowEach, Rows
<1> QED BY <1>1, <1>2, <1>3, OwnerSteps DEF Enrolled

LEMMA HeldTokensStep ==
  ASSUME TypeOK, RequestsKnow, FreshTokens, OwnAccounts, HeldTokens, [Next]_vars
  PROVE  HeldTokens'
<1>1. CASE UNCHANGED <<users, sessions, held, jar, handed>>
  BY <1>1 DEF HeldTokens, Rows
<1>2. ASSUME NEW r \in Requests, Enrolled(r) PROVE HeldTokens'
  <2>1. Rows' = Rows
    BY <1>2 DEF Enrolled, Rows
  <2>2. \A i \in Rows : sessions[i].user # None
    BY NothingIsNone DEF Rows, TypeOK, Session
  <2> QED BY <1>2, <2>1, <2>2 DEF Enrolled, HeldTokens
<1>3. ASSUME NEW r \in Requests, Stored(r, requests[r]) PROVE HeldTokens'
  <2> DEFINE q == requests[r]
  <2>1. q.person \in People /\ users[q.person].id = q.user /\ q.refresh \in Tokens
    BY <1>3 DEF Stored, Knows, OwnAccounts
  <2>2. q.refresh \notin handed
    BY <2>1, NothingIsNone DEF FreshTokens
  <2>3. /\ \A p \in People \ {q.person} : held'[p] = held[p]
        /\ \/ handed' = handed /\ held'[q.person] = held[q.person]
           \/ handed' = handed \cup {q.refresh} /\ held'[q.person] \subseteq held[q.person] \cup {q.refresh}
    BY <1>3 DEF Stored, Cookied
  <2>7. \A p \in People : jar'[p] \subseteq held'[p]
    BY <1>3, <2>1 DEF Stored, Cookied, HeldTokens
  <2>4. \A p \in People : held'[p] \subseteq handed'
    BY <2>1, <2>3 DEF HeldTokens
  <2>5. \A p, o \in People : p # o => held'[p] \cap held'[o] = {}
    BY <2>1, <2>2, <2>3 DEF HeldTokens
  <2>6. ASSUME NEW p \in People, NEW i \in Rows', sessions'[i].refresh \in held'[p]
        PROVE  sessions'[i].user = users'[p].id
    <3>1. CASE i = q.id
      BY <1>3, <2>1, <2>2, <2>3, <2>6, <3>1 DEF Stored, HeldTokens
    <3>2. CASE i # q.id
      <4>1. i \in Rows /\ sessions'[i] = sessions[i] /\ sessions[i].refresh # q.refresh
        BY <1>3, <2>1, <3>2, NothingIsNone DEF Stored, Rows, FreshTokens, Live
      <4> QED BY <1>3, <2>3, <2>6, <4>1 DEF Stored, HeldTokens
    <3> QED BY <3>1, <3>2
  <2> QED BY <2>4, <2>5, <2>6, <2>7 DEF HeldTokens
<1>4. ASSUME NEW p \in People, NEW t \in Tokens, Leaves(p, t) PROVE HeldTokens'
  <2>1. \A o \in People : held'[o] \subseteq held[o] /\ jar'[o] \subseteq held'[o]
    BY <1>4, LeavesIs DEF HeldTokens
  <2>2. \A i \in Rows' : i \in Rows /\ sessions'[i] = sessions[i]
    BY <1>4, LeavesIs DEF Rows
  <2> QED BY <1>4, <2>1, <2>2, LeavesIs DEF HeldTokens
<1> QED BY <1>1, <1>2, <1>3, <1>4, OwnerSteps

LEMMA OwnAccountsStep ==
  ASSUME TypeOK, RequestsKnow, HeldTokens, OwnAccounts, [Next]_vars
  PROVE  OwnAccounts'
<1>1. ASSUME NEW r \in Requests, NEW q, Becomes(r, q), users' = users, q.step \notin {"open", "save"}
      PROVE  OwnAccounts'
  BY <1>1, BecomesIs DEF OwnAccounts
<1>2. ASSUME NEW r \in Requests, Ends(r) \/ Stores(r) PROVE OwnAccounts'
  <2>1. Becomes(r, NoRequest) /\ users' = users
    BY <1>2 DEF Ends, Stores, Answer, Go, Becomes, Tables
  <2> QED BY <1>1, <2>1, NothingIsNone
<1>3. ASSUME NEW r \in Requests, Starts(r) PROVE OwnAccounts'
  <2>1. PICK p \in People, n \in Names, op \in {"register", "google"} :
          Becomes(r, [NoRequest EXCEPT !.step = "name", !.op = op, !.person = p, !.name = n])
    BY <1>3 DEF Starts
  <2>2. [NoRequest EXCEPT !.step = "name", !.op = op, !.person = p, !.name = n].step = "name"
    BY DEF NoRequest
  <2> QED BY <1>1, <1>3, <2>1, <2>2 DEF Starts, Tables
<1>4. ASSUME NEW r \in Requests, NEW n \in Names, NEW i \in Ids, Draws(r, n, i) PROVE OwnAccounts'
  <2>1. [requests[r] EXCEPT !.step = "enroll", !.name = n, !.id = i].step = "enroll"
    BY DEF TypeOK, Request
  <2> QED BY <1>1, <1>4, <2>1 DEF Draws, Tables
<1>5. ASSUME NEW r \in Requests, Retries(r) PROVE OwnAccounts'
  <2>1. Again(requests[r]).step = "again"
    BY DEF TypeOK, Request, Again
  <2> QED BY <1>1, <1>5, <2>1 DEF Retries, Tables
<1>6. ASSUME NEW r \in Requests, NEW p \in People, NEW i \in Ids, NEW t \in Tokens, SignsIn(r, p, i, t)
      PROVE  OwnAccounts'
  <2>1. PICK q \in Request : Opener(q, p, users[p].id, i, t) /\ Becomes(r, q)
    BY <1>6 DEF SignsIn
  <2> QED BY <1>6, <2>1, BecomesIs DEF SignsIn, Tables, Opener, OwnAccounts
<1>7. ASSUME NEW r \in Requests, NEW i \in Ids, NEW t \in Tokens, Joins(r, i, t) PROVE OwnAccounts'
  <2>1. PICK q \in Request : Opener(q, requests[r].person, requests[r].id, i, t) /\ Becomes(r, q)
    BY <1>7 DEF Joins
  <2>2. \A s \in Requests : requests[s].step \in {"open", "save"} =>
          requests[s].person \in People /\ requests[s].person # requests[r].person
    BY <1>7, JoinsIs, NothingIsNone DEF RequestsKnow, Knows, OwnAccounts
  <2> QED BY <1>7, <2>1, <2>2, JoinsIs, BecomesIs DEF Opener, OwnAccounts
<1>8. ASSUME NEW r \in Requests, NEW p \in People, NEW i \in Ids, NEW t \in Tokens, NEW fresh \in Tokens,
             Reads(r, p, t, i, fresh)
      PROVE  OwnAccounts'
  <2>1. PICK q \in Request : Saver(q, p, t, i, fresh) /\ Becomes(r, q)
    BY <1>8 DEF Reads
  <2>2. sessions[i].user = users[p].id
    BY <1>8 DEF Reads, Presents, HeldTokens
  <2> QED BY <1>8, <2>1, <2>2, BecomesIs DEF Reads, Tables, Saver, OwnAccounts
<1>9. CASE Passes \/ UNCHANGED vars \/ \E p \in People, t \in Tokens : Leaves(p, t)
  BY <1>9 DEF Passes, Leaves, vars, Tables, OwnAccounts
<1> QED BY <1>2, <1>3, <1>4, <1>5, <1>6, <1>7, <1>8, <1>9, StepsAre DEF OneKind

-----------------------------------------------------------------------------
(* Ids and rows that requests rely on.                                     *)

\* What only r's request has become, beside what it did to the tables.
IsOver(r) ==
  /\ requests'[r].step \in {"idle", "name"}
  /\ requests'[r].id = None /\ requests'[r].presented = None
  /\ UNCHANGED <<users, sessions, held>> \/ Stored(r, requests[r])

IsNamed(r) ==
  LET q == requests'[r] IN
  /\ q.step \in {"enroll", "again"} /\ q.person = requests[r].person /\ q.presented = None
  /\ \/ q.id \in IdsDrawn(q.person, {users[p].id : p \in People})
     \/ q.id = requests[r].id /\ requests[r].step = "enroll"
  /\ UNCHANGED <<users, sessions, held>>

IsOpening(r) ==
  LET q == requests'[r] IN
  /\ q.step = "open" /\ q.person \in People /\ q.presented = None
  /\ q.id \in IdsDrawn(q.person, Rows)
  /\ UNCHANGED <<sessions, held>>
  /\ users' = users \/ Enrolled(r)

IsSaving(r) ==
  LET q == requests'[r] IN
  /\ q.step = "save"
  /\ Presents(q.person, q.presented) /\ q.person \in People
  /\ q.id \in Rows /\ sessions[q.id].refresh = q.presented
  /\ UNCHANGED <<users, sessions, held>>

OthersWait(r) == \A s \in Requests \ {r} : requests'[s] = requests[s]

LEMMA RequestSteps ==
  ASSUME TypeOK, RequestsKnow, [Next]_vars
  PROVE  \/ \E r \in Requests : OthersWait(r) /\ (IsOver(r) \/ IsNamed(r) \/ IsOpening(r) \/ IsSaving(r))
         \/ \E p \in People, t \in Tokens : Leaves(p, t)
         \/ UNCHANGED <<users, sessions, requests, held>>
<1>1. ASSUME NEW r \in Requests, Ends(r) PROVE OthersWait(r) /\ IsOver(r)
  <2>1. requests'[r] = NoRequest /\ OthersWait(r) /\ UNCHANGED <<users, sessions, held>>
    BY <1>1, BecomesIs DEF Ends, OthersWait, Tables, Cookies
  <2> QED BY <2>1, NothingIsNone DEF IsOver
<1>2. ASSUME NEW r \in Requests, Starts(r) PROVE OthersWait(r) /\ IsOver(r)
  <2>1. PICK p \in People, n \in Names, op \in {"register", "google"} :
          Becomes(r, [NoRequest EXCEPT !.step = "name", !.op = op, !.person = p, !.name = n])
    BY <1>2 DEF Starts
  <2> DEFINE q == [NoRequest EXCEPT !.step = "name", !.op = op, !.person = p, !.name = n]
  <2>2. q.step = "name" /\ q.id = None /\ q.presented = None
    BY DEF NoRequest
  <2>3. Becomes(r, q) /\ UNCHANGED <<users, sessions, held>>
    BY <1>2, <2>1 DEF Starts, Tables, Cookies
  <2> HIDE DEF q
  <2>4. requests'[r] = q /\ OthersWait(r)
    BY <2>3, BecomesIs DEF OthersWait
  <2> QED BY <2>2, <2>3, <2>4 DEF IsOver
<1>3. ASSUME NEW r \in Requests, Stores(r) PROVE OthersWait(r) /\ IsOver(r)
  <2>1. Stored(r, requests[r])
    BY <1>3, StoresIs
  <2>2. /\ requests'[r].step = "idle" /\ requests'[r].id = None /\ requests'[r].presented = None
        /\ OthersWait(r)
    BY <2>1, NothingIsNone DEF Stored, OthersWait
  <2> QED BY <2>1, <2>2 DEF IsOver
<1>4. ASSUME NEW r \in Requests, NEW n \in Names, NEW i \in Ids, Draws(r, n, i)
      PROVE  OthersWait(r) /\ IsNamed(r)
  <2> DEFINE q == [requests[r] EXCEPT !.step = "enroll", !.name = n, !.id = i]
  <2>1. q.step = "enroll" /\ q.id = i /\ q.person = requests[r].person /\ q.presented = None
    BY <1>4 DEF Draws, RequestsKnow, Knows, TypeOK, Request
  <2>2. Becomes(r, q)
    BY <1>4 DEF Draws
  <2> HIDE DEF q
  <2> QED BY <1>4, <2>1, <2>2, BecomesIs DEF Draws, OthersWait, IsNamed, Tables, Cookies
<1>5. ASSUME NEW r \in Requests, Retries(r) PROVE OthersWait(r) /\ IsNamed(r)
  <2> DEFINE q == Again(requests[r])
  <2>1. q.step = "again" /\ q.id = requests[r].id /\ q.person = requests[r].person /\ q.presented = None
    BY <1>5 DEF Retries, RequestsKnow, Knows, TypeOK, Request, Again
  <2>2. Becomes(r, q)
    BY <1>5 DEF Retries
  <2> HIDE DEF q
  <2> QED BY <1>5, <2>1, <2>2, BecomesIs DEF Retries, OthersWait, IsNamed, Tables, Cookies
<1>6. ASSUME NEW r \in Requests, NEW p \in People, NEW i \in Ids, NEW t \in Tokens, SignsIn(r, p, i, t)
      PROVE  OthersWait(r) /\ IsOpening(r)
  BY <1>6, BecomesIs DEF SignsIn, Opener, OthersWait, IsOpening, Tables, Cookies
<1>7. ASSUME NEW r \in Requests, NEW i \in Ids, NEW t \in Tokens, Joins(r, i, t)
      PROVE  OthersWait(r) /\ IsOpening(r)
  <2>1. Enrolled(r)
    <3>1. UNCHANGED <<sessions, held, jar, handed>> /\ requests[r].step \in {"enroll", "again"}
      BY <1>7 DEF Joins, Cookies
    <3> QED BY <1>7, <3>1, JoinsIs DEF Enrolled
  <2>2. requests[r].person \in People
    BY <2>1 DEF Enrolled
  <2> QED BY <1>7, <2>1, <2>2, BecomesIs DEF Joins, Opener, OthersWait, IsOpening, Cookies
<1>8. ASSUME NEW r \in Requests, NEW p \in People, NEW i \in Ids, NEW t \in Tokens, NEW fresh \in Tokens,
             Reads(r, p, t, i, fresh)
      PROVE  OthersWait(r) /\ IsSaving(r)
  BY <1>8, BecomesIs DEF Reads, Saver, OthersWait, IsSaving, Tables, Cookies
<1> DEFINE Still == UNCHANGED <<users, sessions, requests, held>>
<1>9. Passes \/ UNCHANGED vars => Still
  BY DEF Passes, vars, Tables, Cookies
<1>10. CASE OneKind
  <2> HIDE DEF Still
  <2>1. CASE \E r \in Requests : Ends(r) \/ Starts(r) \/ Retries(r) \/ Stores(r)
    BY <1>1, <1>2, <1>3, <1>5, <2>1
  <2>2. CASE \E r \in Requests, n \in Names, i \in Ids : Draws(r, n, i)
    BY <1>4, <2>2
  <2>3. CASE \E r \in Requests, p \in People, i \in Ids, t \in Tokens : SignsIn(r, p, i, t)
    BY <1>6, <2>3
  <2>4. CASE \E r \in Requests, i \in Ids, t \in Tokens : Joins(r, i, t)
    BY <1>7, <2>4
  <2>5. CASE \E r \in Requests, p \in People, i \in Ids, t, fresh \in Tokens : Reads(r, p, t, i, fresh)
    BY <1>8, <2>5
  <2>6. Passes => UNCHANGED <<users, sessions, requests, held>>
    BY <1>9 DEF Still
  <2> QED BY <1>10, <2>1, <2>2, <2>3, <2>4, <2>5, <2>6 DEF OneKind
<1> QED BY <1>9, <1>10, StepsAre

\* The ids that a request of a person without mishaps has drawn are its own.
DrawnAlone ==
  \A r \in Requests : requests[r].person \in People \ Unlucky =>
    /\ requests[r].step = "open" =>
         /\ requests[r].id \notin Rows
         /\ \A s \in Requests \ {r} : requests[s].id # requests[r].id
    /\ requests[r].step \in {"enroll", "again"} =>
         /\ \A p \in People : users[p].id # requests[r].id
         /\ \A s \in Requests \ {r} :
              requests[s].step \in {"enroll", "again"} => requests[s].id # requests[r].id

LEMMA DrawnAloneStep ==
  ASSUME TypeOK, RequestsKnow, DrawnAlone, [Next]_vars
  PROVE  DrawnAlone'
<1>1. ASSUME NEW r \in Requests, OthersWait(r),
             IsOver(r) \/ IsNamed(r) \/ IsOpening(r) \/ IsSaving(r),
             NEW s \in Requests \ {r}, requests[s].person \in People \ Unlucky, requests[s].step = "open"
      PROVE  requests[s].id \notin Rows' /\ requests'[r].id # requests[s].id
  <2>1. requests[s].id \in Ids /\ requests[s].id \notin Rows /\ requests[r].id # requests[s].id
    BY <1>1 DEF DrawnAlone, RequestsKnow, Knows
  <2>2. requests[s].id \notin Rows'
    <3>1. (UNCHANGED sessions) => Rows' = Rows
      BY DEF Rows
    <3> QED BY <1>1, <2>1, <3>1 DEF IsOver, IsNamed, IsOpening, IsSaving, Stored
  <2>3. requests'[r].id # requests[s].id
    <3>1. CASE IsOver(r) \/ IsSaving(r)
      BY <2>1, <3>1, NothingIsNone DEF IsOver, IsSaving
    <3>2. CASE IsNamed(r)
      BY <2>1, <3>2 DEF IsNamed, IdsDrawn
    <3>3. CASE IsOpening(r)
      BY <3>3 DEF IsOpening, IdsDrawn
    <3> QED BY <1>1, <3>1, <3>2, <3>3
  <2> QED BY <2>2, <2>3
<1>2. ASSUME NEW r \in Requests, OthersWait(r),
             IsOver(r) \/ IsNamed(r) \/ IsOpening(r) \/ IsSaving(r),
             NEW s \in Requests \ {r}, requests[s].person \in People \ Unlucky,
             requests[s].step \in {"enroll", "again"}
      PROVE  /\ \A p \in People : users'[p].id # requests[s].id
             /\ requests'[r].step \in {"enroll", "again"} => requests'[r].id # requests[s].id
  <2>1. /\ \A p \in People : users[p].id # requests[s].id
        /\ requests[r].step \in {"enroll", "again"} => requests[r].id # requests[s].id
    BY <1>2 DEF DrawnAlone
  <2>2. \A p \in People : users'[p].id # requests[s].id
    BY <1>2, <2>1 DEF IsOver, IsNamed, IsOpening, IsSaving, Stored, Enrolled
  <2>3. requests'[r].step \in {"enroll", "again"} => requests'[r].id # requests[s].id
    BY <1>2, <2>1 DEF IsOver, IsNamed, IsOpening, IsSaving, IdsDrawn
  <2> QED BY <2>2, <2>3
<1>3. ASSUME NEW r \in Requests, OthersWait(r), IsOver(r) \/ IsNamed(r) \/ IsOpening(r) \/ IsSaving(r),
             requests'[r].person \in People \ Unlucky
      PROVE  /\ requests'[r].step = "open" =>
                  /\ requests'[r].id \notin Rows'
                  /\ \A s \in Requests \ {r} : requests[s].id # requests'[r].id
             /\ requests'[r].step \in {"enroll", "again"} =>
                  /\ \A p \in People : users'[p].id # requests'[r].id
                  /\ \A s \in Requests \ {r} :
                       requests[s].step \in {"enroll", "again"} => requests[s].id # requests'[r].id
  <2>1. CASE IsOver(r) \/ IsSaving(r)
    BY <2>1 DEF IsOver, IsSaving
  <2>2. CASE IsOpening(r)
    BY <1>3, <2>2 DEF IsOpening, IdsDrawn, Rows
  <2>3. CASE IsNamed(r)
    <3>1. CASE requests'[r].id \in IdsDrawn(requests'[r].person, {users[p].id : p \in People})
      BY <1>3, <2>3, <3>1 DEF IsNamed, IdsDrawn
    <3>2. CASE requests'[r].id = requests[r].id /\ requests[r].step = "enroll"
      BY <1>3, <2>3, <3>2 DEF IsNamed, DrawnAlone
    <3> QED BY <2>3, <3>1, <3>2 DEF IsNamed
  <2> QED BY <1>3, <2>1, <2>2, <2>3
<1>4. ASSUME NEW r \in Requests, OthersWait(r), IsOver(r) \/ IsNamed(r) \/ IsOpening(r) \/ IsSaving(r)
      PROVE  DrawnAlone'
  BY <1>1, <1>2, <1>3, <1>4 DEF DrawnAlone, OthersWait
<1>5. ASSUME NEW p \in People, NEW t \in Tokens, Leaves(p, t) PROVE DrawnAlone'
  BY <1>5, LeavesIs DEF DrawnAlone
<1>6. CASE UNCHANGED <<users, sessions, requests, held>>
  BY <1>6 DEF DrawnAlone, Rows
<1> QED BY <1>4, <1>5, <1>6, RequestSteps

\* A refresh of a person without mishaps still finds its row and its token as
\* it read them, and nobody else's refresh has that person's rows.
SavesOwn ==
  \A r \in Requests : requests[r].step = "save" =>
    LET q == requests[r] IN
    /\ q.person \notin Unlucky =>
         /\ q.id \in Rows /\ sessions[q.id].refresh = q.presented
         /\ q.presented \in held[q.person]
         /\ \A s \in Requests \ {r} : requests[s].presented # q.presented
    /\ \A p \in People \ Unlucky :
         p # q.person /\ q.id \in Rows => sessions[q.id].user # users[p].id

LEMMA OtherRow ==
  ASSUME TypeOK, RequestsKnow, Owned, SavesOwn,
         NEW r \in Requests, requests[r].step = "save", requests[r].person \notin Unlucky,
         NEW m \in Requests \ {r}, Stored(m, requests[m])
  PROVE  requests[m].id # requests[r].id
<1> SUFFICES ASSUME requests[m].id = requests[r].id PROVE FALSE
  OBVIOUS
<1>1. /\ requests[r].person \in People /\ requests[r].id \in Rows
      /\ sessions[requests[r].id].refresh = requests[r].presented
      /\ requests[r].presented \in held[requests[r].person]
      /\ requests[m].presented # requests[r].presented
  BY DEF RequestsKnow, Knows, SavesOwn
<1>2. sessions[requests[r].id].user = users[requests[r].person].id
  BY <1>1 DEF Owned, HeldTokens
<1>3. requests[m].step = "save" /\ requests[m].person \in People
  BY <1>1 DEF Stored, Knows
<1>4. CASE requests[m].person = requests[r].person
  BY <1>1, <1>3, <1>4 DEF SavesOwn
<1>5. CASE requests[m].person # requests[r].person
  BY <1>1, <1>2, <1>3, <1>5 DEF SavesOwn
<1> QED BY <1>4, <1>5

LEMMA RowNotTaken ==
  ASSUME RequestsKnow, SavesOwn, NEW p \in People \ Unlucky,
         NEW m \in Requests, Stored(m, requests[m]), requests[m].person # p, requests[m].id \in Rows
  PROVE  sessions[requests[m].id].user # users[p].id
BY DEF Stored, SavesOwn

LEMMA StoredUser ==
  ASSUME Owned, RequestsKnow, NEW p \in People, NEW m \in Requests, Stored(m, requests[m]),
         requests[m].person # p
  PROVE  sessions'[requests[m].id].user # users[p].id
<1>1. requests[m].person \in People /\ requests[m].user \in Ids
  BY DEF Stored, Knows
<1> QED BY <1>1, NothingIsNone DEF Stored, Owned, OwnAccounts, AccountsDiffer

LEMMA SavesOwnStep ==
  ASSUME TypeOK, RequestsKnow, Owned, DrawnAlone, SavesOwn, [Next]_vars
  PROVE  SavesOwn'
<1> DEFINE Finds(r) == LET q == requests[r] IN
             q.person \notin Unlucky =>
               /\ q.id \in Rows /\ sessions[q.id].refresh = q.presented
               /\ q.presented \in held[q.person]
               /\ \A s \in Requests \ {r} : requests[s].presented # q.presented
           KeepsOff(r) == LET q == requests[r] IN
             \A p \in People \ Unlucky :
               p # q.person /\ q.id \in Rows => sessions[q.id].user # users[p].id
           Moves(m) == OthersWait(m) /\ (IsOver(m) \/ IsNamed(m) \/ IsOpening(m) \/ IsSaving(m))
<1>1. ASSUME NEW m \in Requests, Moves(m), NEW r \in Requests \ {m}, requests[r].step = "save"
      PROVE  Finds(r)'
  <2> SUFFICES ASSUME requests[r].person \notin Unlucky
               PROVE  /\ requests[r].id \in Rows'
                      /\ sessions'[requests[r].id].refresh = requests[r].presented
                      /\ requests[r].presented \in held'[requests[r].person]
                      /\ \A s \in Requests \ {r} : requests'[s].presented # requests[r].presented
    BY <1>1 DEF OthersWait
  <2> DEFINE q == requests[r]
  <2>1. /\ q.person \in People /\ q.presented \in Tokens
        /\ q.id \in Rows /\ sessions[q.id].refresh = q.presented
        /\ q.presented \in held[q.person]
        /\ \A s \in Requests \ {r} : requests[s].presented # q.presented
    BY <1>1 DEF RequestsKnow, Knows, SavesOwn
  <2>2. CASE UNCHANGED <<sessions, held>> /\ requests'[m].presented = None
    BY <1>1, <2>1, <2>2, NothingIsNone DEF OthersWait, Rows
  <2>3. CASE IsSaving(m)
    <3>1. requests'[m].presented # q.presented
      BY <2>1, <2>3 DEF IsSaving, Presents, Owned, HeldTokens
    <3> QED BY <1>1, <2>1, <2>3, <3>1 DEF IsSaving, OthersWait, Rows
  <2>4. CASE Stored(m, requests[m]) /\ requests'[m].presented = None
    <3>1. requests[m].id # q.id
      BY <1>1, <2>4, OtherRow
    <3>2. requests[m].presented # q.presented
      BY <2>1
    <3>3. q.presented \in held'[q.person]
      BY <2>1, <2>4, <3>2 DEF Stored, Cookied
    <3>4. q.id \in Rows' /\ sessions'[q.id] = sessions[q.id]
      BY <2>1, <2>4, <3>1 DEF Stored, Rows
    <3> QED BY <1>1, <2>1, <2>4, <3>3, <3>4, NothingIsNone DEF OthersWait
  <2> QED BY <1>1, <2>2, <2>3, <2>4 DEF IsOver, IsNamed, IsOpening
<1>2. ASSUME NEW m \in Requests, Moves(m), NEW r \in Requests \ {m}, requests[r].step = "save"
      PROVE  KeepsOff(r)'
  <2> SUFFICES ASSUME NEW p \in People \ Unlucky, p # requests[r].person, requests[r].id \in Rows'
               PROVE  sessions'[requests[r].id].user # users'[p].id
    BY <1>1, <1>2 DEF OthersWait
  <2> DEFINE i == requests[r].id
  <2>1. i \in Rows => sessions[i].user # users[p].id
    BY <1>2 DEF SavesOwn
  <2>2. CASE UNCHANGED <<users, sessions>>
    BY <2>1, <2>2 DEF Rows
  <2>3. CASE Stored(m, requests[m])
    <3>1. CASE requests[m].id # i
      BY <2>1, <2>3, <3>1 DEF Stored, Rows
    <3>2. CASE requests[m].id = i /\ requests[m].person # p
      BY <2>3, <3>2, StoredUser DEF Stored
    <3>3. CASE requests[m].id = i /\ requests[m].person = p
      <4>1. requests[m].step # "open"
        BY <1>2, <3>3 DEF DrawnAlone
      <4>2. requests[m].step = "save"
        BY <2>3, <4>1 DEF Stored
      <4>3. /\ i \in Rows /\ sessions[i].refresh = requests[m].presented
            /\ requests[m].presented \in held[p]
        BY <3>3, <4>2 DEF SavesOwn
      <4>4. sessions[i].user = users[p].id
        BY <4>3 DEF Owned, HeldTokens
      <4> QED BY <2>1, <4>3, <4>4
    <3> QED BY <3>1, <3>2, <3>3
  <2>4. CASE Enrolled(m)
    <3>1. i \in Rows /\ sessions' = sessions
      BY <2>4 DEF Enrolled, Rows
    <3>2. PICK o \in People : sessions[i].user = users[o].id
      BY <3>1 DEF Owned, RowsHaveUsers
    <3> QED BY <2>1, <2>4, <3>1, <3>2 DEF Enrolled
  <2> QED BY <1>2, <2>2, <2>3, <2>4 DEF IsOver, IsNamed, IsOpening, IsSaving
<1>3. ASSUME NEW m \in Requests, Moves(m), requests'[m].step = "save"
      PROVE  Finds(m)' /\ KeepsOff(m)'
  <2> DEFINE q == requests'[m]
  <2>1. IsSaving(m)
    BY <1>3 DEF IsOver, IsNamed, IsOpening
  <2>2. q.id \in Rows /\ sessions[q.id].refresh = q.presented /\ q.presented \in held[q.person]
          /\ q.person \in People /\ UNCHANGED <<users, sessions, held>> /\ Rows' = Rows
    BY <2>1 DEF IsSaving, Presents, Rows, Owned, HeldTokens
  <2>3. q.person \notin Unlucky => \A s \in Requests : requests[s].presented # q.presented
    BY <2>1 DEF IsSaving, Presents
  <2>4. sessions[q.id].user = users[q.person].id /\ sessions[q.id].user # None
    BY <2>2, NothingIsNone DEF Owned, HeldTokens, TypeOK, Rows, Session
  <2>5. KeepsOff(m)'
    BY <2>2, <2>4 DEF Owned, AccountsDiffer
  <2>6. Finds(m)'
    BY <1>3, <2>2, <2>3 DEF OthersWait
  <2> QED BY <2>5, <2>6
<1>4. ASSUME NEW p \in People, NEW t \in Tokens, Leaves(p, t), NEW r \in Requests, requests[r].step = "save"
      PROVE  Finds(r)' /\ KeepsOff(r)'
  <2> DEFINE q == requests[r]
  <2>1. KeepsOff(r)'
    <3>1. /\ \A i \in Rows' : i \in Rows /\ sessions'[i] = sessions[i]
          /\ UNCHANGED <<users, requests>>
      BY <1>4, LeavesIs DEF Rows
    <3>2. KeepsOff(r)
      BY <1>4 DEF SavesOwn
    <3> QED BY <3>1, <3>2
  <2>2. ASSUME q.person \notin Unlucky PROVE t # q.presented
    <3>1. q.person \in People /\ q.presented \in held[q.person]
      BY <1>4, <2>2 DEF RequestsKnow, Knows, SavesOwn
    <3> QED BY <1>4, <2>2, <3>1, LeavesIs DEF Owned, HeldTokens
  <2>3. Finds(r)'
    <3> SUFFICES ASSUME q.person \notin Unlucky
                 PROVE  /\ q.id \in Rows' /\ sessions'[q.id].refresh = q.presented
                        /\ q.presented \in held'[q.person]
                        /\ \A s \in Requests \ {r} : requests[s].presented # q.presented
      BY <1>4, LeavesIs
    <3>1. /\ q.person \in People
          /\ q.id \in Rows /\ sessions[q.id].refresh = q.presented
          /\ q.presented \in held[q.person]
          /\ \A s \in Requests \ {r} : requests[s].presented # q.presented
      BY <1>4 DEF RequestsKnow, Knows, SavesOwn
    <3> QED BY <1>4, <2>2, <3>1, LeavesIs DEF Rows
  <2> QED BY <2>1, <2>3
<1>5. ASSUME NEW r \in Requests, requests[r].step = "save" PROVE Finds(r) /\ KeepsOff(r)
  BY <1>5 DEF SavesOwn
<1>6. (\A r \in Requests : requests[r].step = "save" => Finds(r) /\ KeepsOff(r))' => SavesOwn'
  BY DEF SavesOwn
<1>7. ASSUME NEW m \in Requests, Moves(m) PROVE SavesOwn'
  <2>1. ASSUME NEW r \in Requests, requests'[r].step = "save" PROVE Finds(r)' /\ KeepsOff(r)'
    BY <1>1, <1>2, <1>3, <1>7, <2>1 DEF OthersWait
  <2> QED BY <1>6, <2>1
<1>8. ASSUME NEW p \in People, NEW t \in Tokens, Leaves(p, t) PROVE SavesOwn'
  <2>1. requests' = requests
    BY <1>8, LeavesIs
  <2> QED BY <1>4, <1>6, <1>8, <2>1
<1>9. CASE UNCHANGED <<users, sessions, requests, held>>
  BY <1>9 DEF SavesOwn, Rows
<1> QED BY <1>7, <1>8, <1>9, RequestSteps

-----------------------------------------------------------------------------
(* Cookies and rows.                                                       *)

RowsOf(p) == {i \in Rows : sessions[i].user = users[p].id}

LEMMA CookiesStep ==
  ASSUME TypeOK, RequestsKnow, FreshTokens, Owned, DrawnAlone, SavesOwn, CookiesAreSessions, [Next]_vars
  PROVE  CookiesAreSessions'
<1> SUFFICES ASSUME NEW p \in People \ Unlucky
             PROVE  held'[p] = {sessions'[i].refresh : i \in RowsOf(p)'}
  <2>1. HeldTokens'
    BY HeldTokensStep DEF Owned
  <2> QED BY <2>1 DEF CookiesAreSessions, RowsOf, HeldTokens
<1>1. held[p] = {sessions[i].refresh : i \in RowsOf(p)}
  BY DEF CookiesAreSessions, RowsOf
<1>2. ASSUME RowsOf(p)' = RowsOf(p), held'[p] = held[p], \A i \in RowsOf(p) : sessions'[i] = sessions[i]
      PROVE  held'[p] = {sessions'[i].refresh : i \in RowsOf(p)'}
  BY <1>1, <1>2
<1>3. CASE UNCHANGED <<users, sessions, held, jar, handed>>
  <2>1. RowsOf(p)' = RowsOf(p)
    BY <1>3 DEF RowsOf, Rows
  <2> QED BY <1>2, <1>3, <2>1
<1>4. ASSUME NEW m \in Requests, Enrolled(m)
      PROVE  held'[p] = {sessions'[i].refresh : i \in RowsOf(p)'}
  <2>1. Rows' = Rows /\ sessions' = sessions /\ held' = held
    BY <1>4 DEF Enrolled, Rows
  <2>2. CASE requests[m].person # p
    <3>1. RowsOf(p)' = RowsOf(p)
      BY <1>4, <2>1, <2>2 DEF Enrolled, RowsOf
    <3> QED BY <1>2, <2>1, <3>1
  <2>3. CASE requests[m].person = p
    <3>1. RowsOf(p) = {}
      BY <1>4, <2>3, NothingIsNone DEF Enrolled, RowsOf, Rows, TypeOK, Session
    <3>2. RowsOf(p)' = {}
      BY <1>4, <2>1, <2>3 DEF Enrolled, RowsOf, Owned, RowsHaveUsers
    <3> QED BY <1>2, <2>1, <3>1, <3>2
  <2> QED BY <2>2, <2>3
<1>5. ASSUME NEW m \in Requests, Stored(m, requests[m])
      PROVE  held'[p] = {sessions'[i].refresh : i \in RowsOf(p)'}
  <2> DEFINE q == requests[m]
  <2>1. q.id \in Ids /\ q.user = users[q.person].id /\ q.refresh \in Tokens
    BY <1>5 DEF Stored, Knows, Owned, OwnAccounts
  <2>2. CASE q.person # p
    <3>1. q.id \notin RowsOf(p) /\ q.id \notin RowsOf(p)'
      BY <1>5, <2>2, RowNotTaken, StoredUser DEF RowsOf, Stored
    <3>2. RowsOf(p)' = RowsOf(p) /\ \A i \in RowsOf(p) : sessions'[i] = sessions[i]
      BY <1>5, <3>1 DEF Stored, RowsOf, Rows
    <3>3. held'[p] = held[p]
      BY <1>5, <2>2 DEF Stored, Cookied
    <3> QED BY <1>2, <3>2, <3>3
  <2>3. CASE q.person = p
    <3>1. /\ held'[p] = (held[p] \ {q.presented}) \cup {q.refresh}
          /\ sessions'[q.id].refresh = q.refresh
      BY <1>5, <2>3 DEF Stored, Cookied
    <3>2. RowsOf(p)' = RowsOf(p) \cup {q.id}
      BY <1>5, <2>1, <2>3 DEF Stored, RowsOf, Rows
    <3>3. {sessions'[i].refresh : i \in RowsOf(p)'}
            = {sessions[i].refresh : i \in RowsOf(p) \ {q.id}} \cup {q.refresh}
      <4>1. \A i \in RowsOf(p) \ {q.id} : sessions'[i] = sessions[i]
        BY <1>5 DEF Stored, RowsOf, Rows
      <4> QED BY <3>1, <3>2, <4>1
    <3>4. {sessions[i].refresh : i \in RowsOf(p) \ {q.id}} = held[p] \ {q.presented}
      <4>1. CASE q.step = "open"
        <5>1. q.id \notin Rows /\ q.presented = None
          BY <1>5, <4>1 DEF Stored, Knows
        <5>2. None \notin held[p]
          BY NothingIsNone DEF TypeOK
        <5>3. RowsOf(p) \ {q.id} = RowsOf(p)
          BY <5>1 DEF RowsOf
        <5> QED BY <1>1, <5>1, <5>2, <5>3
      <4>2. CASE q.step = "save"
        <5>1. q.id \in Rows /\ sessions[q.id].refresh = q.presented
          BY <2>3, <4>2 DEF SavesOwn
        <5>2. \A i \in RowsOf(p) \ {q.id} : sessions[i].refresh # q.presented
          BY <5>1 DEF Owned, OneRowEach, RowsOf
        <5> QED BY <1>1, <5>1, <5>2
      <4> QED BY <1>5, <4>1, <4>2 DEF Stored
    <3> QED BY <3>1, <3>3, <3>4
  <2> QED BY <2>2, <2>3
<1>6. ASSUME NEW o \in People, NEW t \in Tokens, Leaves(o, t)
      PROVE  held'[p] = {sessions'[i].refresh : i \in RowsOf(p)'}
  <2>1. RowsOf(p)' = {i \in RowsOf(p) : sessions[i].refresh # t}
    BY <1>6, LeavesIs DEF RowsOf, Rows
  <2>2. \A i \in RowsOf(p)' : sessions'[i] = sessions[i]
    BY <1>6, <2>1, LeavesIs DEF RowsOf, Rows
  <2>3. CASE o = p
    <3>1. held'[p] = held[p] \ {t}
      BY <1>6, <2>3, LeavesIs
    <3> QED BY <1>1, <2>1, <2>2, <3>1
  <2>4. CASE o # p
    <3>1. held'[p] = held[p] /\ t \notin held[p]
      BY <1>6, <2>4, LeavesIs DEF Owned, HeldTokens
    <3>2. \A i \in RowsOf(p) : sessions[i].refresh # t
      BY <1>1, <3>1
    <3>3. RowsOf(p)' = RowsOf(p)
      BY <2>1, <3>2 DEF RowsOf
    <3> QED BY <1>2, <2>2, <3>1, <3>3
  <2> QED BY <2>3, <2>4
<1> QED BY <1>3, <1>4, <1>5, <1>6, OwnerSteps

-----------------------------------------------------------------------------
(* The theorems.                                                           *)

AccountsInvariant ==
  /\ TypeOK /\ RequestsKnow /\ FreshTokens
  /\ Owned /\ DrawnAlone /\ SavesOwn /\ CookiesAreSessions

\* Whatever requests run beside each other and whatever befalls the unlucky:
\* tables, handlers and cookies keep their types, and tokens, rows, accounts and
\* drawn ids have one owner.
THEOREM AccountsInvariantHolds == Spec => []AccountsInvariant
<1>1. Init => AccountsInvariant
  <2> SUFFICES ASSUME Init PROVE AccountsInvariant
    OBVIOUS
  <2>1. TypeOK
    BY NothingIsNone, SecondAssumption DEF Init, TypeOK
  <2>2. /\ \A r \in Requests : requests[r] = NoRequest
        /\ \A p \in People : users[p] = NoAccount /\ held[p] = {} /\ jar[p] = {}
        /\ Rows = {} /\ handed = {}
    BY DEF Init, Rows
  <2>3. RequestsKnow /\ FreshTokens /\ DrawnAlone /\ SavesOwn
    BY <2>2, NothingIsNone DEF RequestsKnow, Knows, FreshTokens, DrawnAlone, SavesOwn
  <2>4. Owned
    BY <2>2, NothingIsNone
    DEF Owned, AccountsDiffer, OwnAccounts, HeldTokens, OneRowEach, RowsHaveUsers
  <2>5. CookiesAreSessions
    BY <2>2 DEF CookiesAreSessions
  <2> QED BY <2>1, <2>3, <2>4, <2>5 DEF AccountsInvariant
<1>2. AccountsInvariant /\ [Next]_vars => AccountsInvariant'
  <2> SUFFICES ASSUME AccountsInvariant, [Next]_vars PROVE AccountsInvariant'
    OBVIOUS
  <2>1. TypeOK /\ RequestsKnow /\ FreshTokens /\ Owned /\ DrawnAlone /\ SavesOwn /\ CookiesAreSessions
    BY DEF AccountsInvariant
  <2>2. TypeOK' /\ RequestsKnow' /\ FreshTokens'
    BY <2>1, TypeStep, KnowsStep, FreshStep
  <2>3. Owned'
    BY <2>1, AccountsDifferStep, OwnAccountsStep, HeldTokensStep, OneRowEachStep, RowsHaveUsersStep
    DEF Owned
  <2>4. DrawnAlone' /\ SavesOwn' /\ CookiesAreSessions'
    BY <2>1, DrawnAloneStep, SavesOwnStep, CookiesStep
  <2> QED BY <2>2, <2>3, <2>4 DEF AccountsInvariant
<1> QED BY <1>1, <1>2, PTL DEF Spec

\* The tables, the handlers' variables and the cookies keep their types.
THEOREM AccountsTypeInvariant == Spec => []TypeOK
<1>1. AccountsInvariant => TypeOK
  BY DEF AccountsInvariant
<1> QED BY <1>1, AccountsInvariantHolds, PTL

\* For everyone whom no mishap befalls, the rows of the sessions table hold just
\* the tokens they were told and have not spent, in a registration's answer or
\* in a cookie, and every cookie has its row, whatever others do beside them and
\* whatever befalls the others (Create, Save, DeleteByRefreshToken).
THEOREM CookiesAreSessionsHolds == Spec => []CookiesAreSessions
<1>1. AccountsInvariant => CookiesAreSessions
  BY DEF AccountsInvariant
<1> QED BY <1>1, AccountsInvariantHolds, PTL

\* A token that was handed out and then replaced or logged out never works
\* again, for anyone: what a refresh writes back is always a fresh token.
THEOREM SpentStaysSpentHolds == Spec => SpentStaysSpent
<1>1. AccountsInvariant /\ [Next]_vars => [(handed \ Live) \cap Live' = {}]_vars
  <2> SUFFICES ASSUME AccountsInvariant, [Next]_vars, NEW t \in Live', t \in handed PROVE t \in Live
    OBVIOUS
  <2>1. ASSUME NEW r \in Requests, Stored(r, requests[r]), t = requests[r].refresh PROVE FALSE
    <3>1. requests[r].refresh # None
      BY <2>1, NothingIsNone DEF Stored, Knows
    <3> QED BY <2>1, <3>1 DEF AccountsInvariant, FreshTokens
  <2> QED BY <2>1, LiveSteps DEF AccountsInvariant
<1> QED BY <1>1, AccountsInvariantHolds, PTL DEF Spec, SpentStaysSpent

\* Only a refused INSERT ends a request that has chosen its name.
LEMMA EndIsRefusal ==
  ASSUME TypeOK, RequestsKnow, Next, NEW r \in Requests, requests[r].step \in {"enroll", "again"},
         requests'[r].step = "idle"
  PROVE  NotEnrolled(r)
<1>1. ASSUME NEW s \in Requests, NEW q, Go(s, q), s # r \/ q.step # "idle" PROVE FALSE
  BY <1>1 DEF Go, TypeOK
<1>2. ASSUME NEW s \in Requests, NEW p \in People, NEW n \in Chosen, Register(s, p, n) PROVE FALSE
  <2>1. s # r
    BY <1>2 DEF Register, Idle
  <2> QED BY <1>1, <1>2, <2>1 DEF Register, RegisterUser, Refuse
<1>3. ASSUME NEW s \in Requests, NEW i \in Ids, Name(s, i) PROVE FALSE
  <2>1. s # r
    BY <1>3 DEF Name
  <2> QED BY <1>1, <1>3, <2>1 DEF Name, Refuse
<1>4. ASSUME NEW s \in Requests, NEW i \in Ids, NEW t \in Tokens, Enroll(s, i, t) PROVE FALSE
  <2>1. requests[s] \in Request /\ requests[s].id \in Ids /\ requests[s].presented = None
    BY <1>4 DEF Enroll, RequestsKnow, Knows, TypeOK
  <2>2. Issued(requests[s], requests[s].id, i, t).step = "open"
    BY <2>1, IssuedIs DEF TypeOK, Opener
  <2> QED BY <1>1, <1>4, <2>2 DEF Enroll
<1>5. ASSUME NEW s \in Requests, Open(s) \/ Save(s) PROVE FALSE
  <2>1. s # r
    BY <1>5 DEF Open, Save
  <2> QED BY <1>1, <1>5, <2>1 DEF Open, Save, Answer, Refuse
<1>6. ASSUME NEW s \in Requests, NEW p \in People, NEW right \in BOOLEAN, NEW i \in Ids, NEW t \in Tokens,
             Login(s, p, right, i, t) \/ Google(s, p, i, t)
      PROVE  FALSE
  <2>1. s # r
    BY <1>6 DEF Login, Google, Idle
  <2> QED BY <1>1, <1>6, <2>1 DEF Login, LoginUser, Google, Refuse
<1>7. ASSUME NEW s \in Requests, NEW p \in People, NEW t \in Tokens, NEW fresh \in Tokens,
             Refresh(s, p, t, fresh) \/ Logout(s, p, t)
      PROVE  FALSE
  <2>1. s # r
    BY <1>7 DEF Refresh, Logout, Idle
  <2> QED BY <1>1, <1>7, <2>1 DEF Refresh, RefreshToken, Logout, Refuse
<1>8. ASSUME NEW s \in Requests, NotEnrolled(s) PROVE s = r
  BY <1>1, <1>8 DEF NotEnrolled, Refuse
<1>9. ~(Tick \/ DayPasses)
  BY DEF Tick, DayPasses
<1> QED BY <1>2, <1>3, <1>4, <1>5, <1>6, <1>7, <1>8, <1>9 DEF Next

\* Google's sign-in is refused a new account only when the address has got one
\* meanwhile or the full name is taken, or a mishap befalls it: its second
\* attempt never fails on its own id or on a short name.
THEOREM GoogleFindsANameHolds == Spec => GoogleFindsAName
<1> DEFINE Found(r) ==
             LET q == requests[r] IN
               (/\ q.op = "google" /\ q.step \in {"enroll", "again"}
                /\ requests'[r].step = "idle")
               => \/ HasAccount(q.person) \/ NameTaken(FullName[q.person])
                  \/ q.person \in Unlucky
<1>1. ASSUME AccountsInvariant, Next, NEW r \in Requests PROVE Found(r)
  <2> DEFINE q == requests[r]
  <2> SUFFICES ASSUME q.op = "google", q.step \in {"enroll", "again"}, requests'[r].step = "idle",
                      q.person \notin Unlucky
               PROVE  HasAccount(q.person) \/ NameTaken(FullName[q.person])
    OBVIOUS
  <2>1. TypeOK /\ RequestsKnow /\ DrawnAlone
    BY <1>1 DEF AccountsInvariant
  <2>2. NotEnrolled(r) /\ q \in Request /\ Knows(q)
    BY <1>1, <2>1, EndIsRefusal DEF TypeOK, RequestsKnow
  <2>3. ~Enrolls(q)
    BY <2>2 DEF NotEnrolled
  <2>4. ~IsUser(q.id)
    BY <2>1, <2>2 DEF DrawnAlone, Knows, IsUser
  <2>5. q.step = "again"
    <3>1. Again(q).step = "again"
      BY <2>2 DEF Again, Request
    <3>2. q.step = "enroll" => requests'[r] = Again(q)
      BY <2>1, <2>2, <2>3 DEF NotEnrolled, Go, TypeOK
    <3> QED BY <3>1, <3>2
  <2> QED BY <2>2, <2>3, <2>4, <2>5 DEF Enrolls, Knows
<1>2. AccountsInvariant /\ [Next]_vars => [\A r \in Requests : Found(r)]_vars
  BY <1>1
<1> QED BY <1>2, AccountsInvariantHolds, PTL DEF Spec, GoogleFindsAName

=============================================================================
