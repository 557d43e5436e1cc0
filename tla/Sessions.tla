------------------------------ MODULE Sessions ------------------------------
(***************************************************************************)
(* Login, logout and sessions (internal/session, session_store.go,         *)
(* bitcask_store.go, ttlcache.go, LoginHandler and CaptchaHandler).        *)
(*                                                                         *)
(* A session lives in the memory of the pod, where all requests share one  *)
(* object, and, once its user asked to be remembered, in the database,     *)
(* from which every request that finds none in memory gets a copy of its   *)
(* own. A login is throttled by a count of failures per user.              *)
(*                                                                         *)
(* Durations are left out: what lasts some time may end at any time.       *)
(***************************************************************************)
EXTENDS Naturals, FiniteSets

CONSTANTS
  User,             \* the accounts
  Sid,              \* bound: session ids
  Request,          \* concurrent requests
  MaxFailedLogins,  \* failures beyond which an account is locked
  MaxRequests,      \* bound: requests
  MaxRestarts,      \* bound: restarts of the pod
  NoUser,           \* not logged in
  NoSid,            \* no session
  Absent            \* not in the database

ASSUME SessionsAssumption ==
  /\ IsFiniteSet(Request)
  /\ NoUser \notin User
  /\ NoSid \notin Sid
  /\ Absent \notin [user : User \cup {NoUser}, persist : BOOLEAN]
  /\ MaxFailedLogins \in Nat /\ MaxRequests \in Nat /\ MaxRestarts \in Nat

VARIABLES
  issued,       \* sessions a cookie was set for
  data,         \* Session.Data of the object in memory, captchaText left out
  cached,       \* sessions of SessionStore.cached
  db,           \* sessions of the database
  expired,      \* sessions past ExpiresAt, and past that of their cookie
  failures,     \* TTLCache of LoginHandler
  request,      \* the state of each request, see Requests
  requests,     \* number of requests so far
  restarts,     \* number of restarts so far
  wrong,        \* history: wrong passwords given for each user
  remembered,   \* history: logins with "remember me" that have ended
  leaving,      \* history: sessions with a logout that has begun to delete
  loggedOut,    \* history: sessions with a logout that has ended
  revived       \* history: sessions stored after their logout had begun to delete

storeVars == <<issued, data, cached, db, expired>>
boundVars == <<requests, restarts>>
historyVars == <<wrong, remembered, leaving, loggedOut, revived>>
vars == <<storeVars, failures, request, boundVars, historyVars>>

Data == [user : User \cup {NoUser}, persist : BOOLEAN]

Empty == [user |-> NoUser, persist |-> FALSE]

NoFailures == [value |-> 0, over |-> FALSE]

Idle == [pc |-> "idle", sid |-> NoSid, own |-> FALSE, copy |-> Empty,
         user |-> NoUser, remember |-> FALSE, read |-> 0, out |-> {}]

Lives(s) == s \in cached \/ db[s] # Absent

Locked(u) == failures[u].value > MaxFailedLogins

(* What a request sees in its session.                                     *)
Seen(r) == IF request[r].own THEN request[r].copy ELSE data[request[r].sid]

Init ==
  /\ issued = {}
  /\ data = [s \in Sid |-> Empty]
  /\ cached = {}
  /\ db = [s \in Sid |-> Absent]
  /\ expired = {}
  /\ failures = [u \in User |-> NoFailures]
  /\ request = [r \in Request |-> Idle]
  /\ requests = 0
  /\ restarts = 0
  /\ wrong = [u \in User |-> 0]
  /\ remembered = {}
  /\ leaving = {}
  /\ loggedOut = {}
  /\ revived = {}

-----------------------------------------------------------------------------
(* Manager.GetOrCreate: the shared object, a copy of what is in the        *)
(* database (whose ExpiresAt nobody looks at), or a new session, kept in   *)
(* memory only.                                                            *)
Begin(r, q) ==
  /\ request[r] = Idle
  /\ requests < MaxRequests
  /\ requests' = requests + 1
  /\ \/ \E s \in (issued \ expired) \cap cached :
          /\ request' = [request EXCEPT ![r] = [q EXCEPT !.sid = s]]
          /\ UNCHANGED <<issued, cached>>
     \/ \E s \in issued \ (expired \cup cached) :
          /\ db[s] # Absent
          /\ request' = [request EXCEPT ![r] = [q EXCEPT !.sid = s, !.own = TRUE, !.copy = db[s]]]
          /\ UNCHANGED <<issued, cached>>
     \/ \E s \in Sid \ issued :
          /\ request' = [request EXCEPT ![r] = [q EXCEPT !.sid = s]]
          /\ issued' = issued \cup {s}
          /\ cached' = cached \cup {s}
  /\ UNCHANGED <<data, db, expired, failures, restarts, historyVars>>

(* Whether the database gets the session: a copy is stored when a user is  *)
(* logged in, the shared object when it is to persist.                     *)

(* Mutant: the shared object is kept as soon as a user is logged in. *)
KeptForEveryUser(r, d) == d.user # NoUser

(* Mutant: the session is synced before the value is set. *)
KeptAsItWas(r, d) ==
  IF request[r].own THEN d.user # NoUser ELSE data[request[r].sid].persist

Kept(r, d) == IF request[r].own THEN d.user # NoUser ELSE d.persist

(* Session.Set: the shared object changes for everyone and is cached       *)
(* again, a copy only changes in the database it came from.                *)
Set(r, d) ==
  LET s == request[r].sid IN
  /\ db' = IF Kept(r, d) THEN [db EXCEPT ![s] = d] ELSE db
  /\ data' = IF request[r].own THEN data ELSE [data EXCEPT ![s] = d]
  /\ cached' = IF request[r].own THEN cached ELSE cached \cup {s}
  /\ revived' = IF s \in leaving THEN revived \cup {s} ELSE revived

(* CaptchaHandler stores the text of the image in the session.             *)
Captcha(r) ==
  /\ request[r].pc = "captcha"
  /\ Set(r, Seen(r))
  /\ request' = [request EXCEPT ![r] = Idle]
  /\ UNCHANGED <<issued, expired, failures, boundVars, wrong, remembered, leaving, loggedOut>>

-----------------------------------------------------------------------------
(* LoginHandler.                                                           *)

(* Mutant: refused attempts count as failures as well. *)
CheckLockedAndCount(r) ==
  /\ request[r].pc = "throttle"
  /\ request' = [request EXCEPT ![r] =
                   IF Locked(request[r].user) THEN Idle ELSE [@ EXCEPT !.pc = "check"]]
  /\ failures' = IF Locked(request[r].user)
                 THEN [failures EXCEPT ![request[r].user].value = @ + 1] ELSE failures
  /\ UNCHANGED <<storeVars, boundVars, historyVars>>

CheckLocked(r) ==
  /\ request[r].pc = "throttle"
  /\ request' = [request EXCEPT ![r] =
                   IF Locked(request[r].user) THEN Idle ELSE [@ EXCEPT !.pc = "check"]]
  /\ UNCHANGED <<storeVars, failures, boundVars, historyVars>>

(* TTLCache.Inc reads under one lock ...                                   *)
WrongPassword(r) ==
  LET u == request[r].user IN
  /\ request[r].pc = "check"
  /\ wrong' = [wrong EXCEPT ![u] = @ + 1]
  /\ request' = [request EXCEPT ![r].pc = "count", ![r].read = failures[u].value]
  /\ UNCHANGED <<storeVars, failures, boundVars, remembered, leaving, loggedOut, revived>>

(* ... and writes under another.                                           *)
Count(r) ==
  /\ request[r].pc = "count"
  /\ failures' = [failures EXCEPT ![request[r].user] =
                    [value |-> request[r].read + 1, over |-> FALSE]]
  /\ request' = [request EXCEPT ![r] = Idle]
  /\ UNCHANGED <<storeVars, boundVars, historyVars>>

(* Mutant: a login takes one failure off instead of all. *)
RightPasswordDec(r) ==
  /\ request[r].pc = "check"
  /\ failures' = [failures EXCEPT ![request[r].user] =
                    [value |-> failures[request[r].user].value - 1, over |-> FALSE]]
  /\ request' = [request EXCEPT ![r].pc = "login"]
  /\ UNCHANGED <<storeVars, boundVars, historyVars>>

RightPassword(r) ==
  /\ request[r].pc = "check"
  /\ failures' = [failures EXCEPT ![request[r].user] = NoFailures]
  /\ request' = [request EXCEPT ![r].pc = "login"]
  /\ UNCHANGED <<storeVars, boundVars, historyVars>>

SetUsername(r) ==
  LET q == request[r]
      d == [Seen(r) EXCEPT !.user = q.user]
  IN
  /\ q.pc = "login"
  /\ Set(r, d)
  /\ request' = [request EXCEPT ![r] =
                   IF q.remember THEN [q EXCEPT !.pc = "remember", !.copy = IF q.own THEN d ELSE @]
                   ELSE Idle]
  /\ UNCHANGED <<issued, expired, failures, boundVars, wrong, remembered, leaving, loggedOut>>

SetPersist(r) ==
  /\ request[r].pc = "remember"
  /\ Set(r, [Seen(r) EXCEPT !.persist = TRUE])
  /\ request' = [request EXCEPT ![r] = Idle]
  /\ remembered' = remembered \cup {request[r].sid}
  /\ UNCHANGED <<issued, expired, failures, boundVars, wrong, leaving, loggedOut>>

-----------------------------------------------------------------------------
(* Mutant: only the session in memory is deleted. *)
LogoutLeavesDb(r) ==
  /\ request[r].pc = "logout"
  /\ leaving' = leaving \cup {request[r].sid}
  /\ request' = [request EXCEPT ![r].pc = "forget"]
  /\ UNCHANGED <<storeVars, failures, boundVars, wrong, remembered, loggedOut, revived>>

(* LogoutHandler: SessionStore.DelSession deletes in the database first.   *)
LogoutDb(r) ==
  /\ request[r].pc = "logout"
  /\ db' = [db EXCEPT ![request[r].sid] = Absent]
  /\ leaving' = leaving \cup {request[r].sid}
  /\ request' = [request EXCEPT ![r].pc = "forget"]
  /\ UNCHANGED <<issued, data, cached, expired, failures, boundVars, wrong, remembered, loggedOut,
                 revived>>

LogoutCached(r) ==
  /\ request[r].pc = "forget"
  /\ cached' = cached \ {request[r].sid}
  /\ loggedOut' = loggedOut \cup {request[r].sid}
  /\ request' = [request EXCEPT ![r] = Idle]
  /\ UNCHANGED <<issued, data, db, expired, failures, boundVars, wrong, remembered, leaving, revived>>

-----------------------------------------------------------------------------
(* Time, and what happens in the course of it.                             *)

Expire(s) ==
  /\ s \in issued \ expired
  /\ expired' = expired \cup {s}
  /\ UNCHANGED <<issued, data, cached, db, failures, request, boundVars, historyVars>>

(* SessionCacheTTL after the last Set.                                     *)
Uncache(s) ==
  /\ s \in cached
  /\ cached' = cached \ {s}
  /\ UNCHANGED <<issued, data, db, expired, failures, request, boundVars, historyVars>>

(* DeleteOldSessionsJob.                                                   *)
DeleteOld(s) ==
  /\ s \in expired
  /\ db[s] # Absent
  /\ db' = [db EXCEPT ![s] = Absent]
  /\ UNCHANGED <<issued, data, cached, expired, failures, request, boundVars, historyVars>>

(* Five minutes after the last failure; a sweep may come up to five        *)
(* minutes later still, and until then the count stands.                   *)
FailuresOver(u) ==
  /\ failures[u] # NoFailures
  /\ ~failures[u].over
  /\ failures' = [failures EXCEPT ![u].over = TRUE]
  /\ UNCHANGED <<storeVars, request, boundVars, historyVars>>

Sweep ==
  /\ \E u \in User : failures[u].over
  /\ failures' = [u \in User |-> IF failures[u].over THEN NoFailures ELSE failures[u]]
  /\ UNCHANGED <<storeVars, request, boundVars, historyVars>>

Restart ==
  /\ restarts < MaxRestarts
  /\ restarts' = restarts + 1
  /\ data' = [s \in Sid |-> Empty]
  /\ cached' = {}
  /\ failures' = [u \in User |-> NoFailures]
  /\ request' = [r \in Request |-> Idle]
  /\ UNCHANGED <<issued, db, expired, requests, historyVars>>

-----------------------------------------------------------------------------
Arrive(r) ==
  \/ \E u \in User, remember \in BOOLEAN :
       Begin(r, [Idle EXCEPT !.pc = "throttle", !.user = u, !.remember = remember,
                             !.out = loggedOut])
  \/ Begin(r, [Idle EXCEPT !.pc = "captcha", !.out = loggedOut])
  \/ Begin(r, [Idle EXCEPT !.pc = "logout", !.out = loggedOut])

LoginStep(r) ==
  CheckLocked(r) \/ WrongPassword(r) \/ Count(r) \/ RightPassword(r) \/ SetUsername(r)
  \/ SetPersist(r)

Handle(r) == LoginStep(r) \/ Captcha(r) \/ LogoutDb(r) \/ LogoutCached(r)

Next ==
  \/ \E r \in Request : Arrive(r) \/ Handle(r)
  \/ \E s \in Sid : Expire(s) \/ Uncache(s) \/ DeleteOld(s)
  \/ \E u \in User : FailuresOver(u)
  \/ Sweep
  \/ Restart

Spec == Init /\ [][Next]_vars

-----------------------------------------------------------------------------
Requests ==
  [pc : {"idle", "captcha", "throttle", "check", "count", "login", "remember", "logout", "forget"},
   sid : Sid \cup {NoSid}, own : BOOLEAN,
   copy : Data, user : User \cup {NoUser}, remember : BOOLEAN, read : Nat, out : SUBSET Sid]

TypeOK ==
  /\ issued \subseteq Sid
  /\ data \in [Sid -> Data]
  /\ cached \subseteq issued
  /\ db \in [Sid -> Data \cup {Absent}]
  /\ \A s \in Sid : db[s] # Absent => s \in issued
  /\ expired \subseteq issued
  /\ failures \in [User -> [value : Nat, over : BOOLEAN]]
  /\ request \in [Request -> Requests]
  /\ \A r \in Request : request[r].pc # "idle" => request[r].sid \in issued
  /\ requests \in 0 .. MaxRequests
  /\ restarts \in 0 .. MaxRestarts
  /\ wrong \in [User -> Nat]
  /\ remembered \subseteq Sid /\ leaving \subseteq Sid
  /\ loggedOut \subseteq leaving /\ revived \subseteq leaving

(* Only what a user asked to be remembered outlives a restart: nothing     *)
(* else is ever in the database, and what is there has a user.             *)
OnlyRememberedPersist ==
  \A s \in Sid : db[s] # Absent => db[s].persist /\ db[s].user # NoUser

(* Who logged in with "remember me" stays logged in, across restarts and   *)
(* whatever leaves the memory, until the session expires or a logout       *)
(* begins: no request that wrote an older state of the session took the    *)
(* login away.                                                             *)
RememberedStaysIn ==
  \A s \in remembered \ (expired \cup leaving) : db[s] # Absent

(* After a logout its session comes back only through a request that was   *)
(* begun before the logout ended: both copies are gone, in an order that   *)
(* lets nobody begin with the one while the other is deleted.              *)
LogoutHolds ==
  [][\A s \in loggedOut \ revived :
       Lives(s)' => \E r \in Request : request[r].sid = s /\ s \notin request[r].out]_vars

(* An account is locked for failures that happened: lost updates make the  *)
(* count smaller, never larger than the wrong passwords given.             *)
LockDeserved == \A u \in User : failures[u].value <= wrong[u]

-----------------------------------------------------------------------------
(* What the safety properties rest on.                                     *)

(* Whatever may be stored to persist has a user: the shared object, the    *)
(* copies, which come from the database, and what a login goes on with.    *)
StoreSound ==
  /\ \A s \in Sid : data[s].persist => data[s].user # NoUser
  /\ \A r \in Request : request[r].own => request[r].copy.persist /\ request[r].copy.user # NoUser
  /\ \A r \in Request :
       /\ request[r].pc = "remember" /\ ~request[r].own => data[request[r].sid].user # NoUser
       /\ request[r].pc \in {"throttle", "check", "count", "login", "remember"}
            => request[r].user \in User

(* A session that is being deleted has left the database first, and one    *)
(* that a request finds after its logout was stored since.                 *)
LogoutSound ==
  /\ leaving \subseteq issued
  /\ \A s \in leaving \ revived : db[s] = Absent
  /\ \A s \in loggedOut \ revived : s \notin cached
  /\ \A r \in Request :
       /\ request[r].pc = "forget" => request[r].sid \in leaving
       /\ request[r].sid \in request[r].out => request[r].sid \in revived

(* A failure that is being counted has happened since the count was read.  *)
CountSound ==
  \A r \in Request : request[r].pc = "count" => request[r].read < wrong[request[r].user]

SessionInv ==
  /\ TypeOK
  /\ OnlyRememberedPersist /\ RememberedStaysIn /\ LockDeserved
  /\ StoreSound /\ LogoutSound /\ CountSound
=============================================================================
