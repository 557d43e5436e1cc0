-------------------------- MODULE SessionsProofs --------------------------
(* Theorems about sessions and the login throttle, for any accounts,       *)
(* sessions, requests and limits.                                          *)
EXTENDS Sessions, TLAPS

(* What is never absent, and what a request is made of.                    *)
LEMMA DataFacts ==
  /\ Empty \in Data
  /\ \A d \in Data : d # Absent
  /\ \A d \in Data, u \in User : [d EXCEPT !.user = u] \in Data
  /\ \A d \in Data : [d EXCEPT !.persist = TRUE] \in Data
  BY SessionsAssumption DEF Data, Empty

(* What a request goes on as.                                              *)
LEMMA RequestFacts ==
  /\ Idle \in Requests
  /\ \A q \in Requests, pc \in {"check", "login", "forget"} : [q EXCEPT !.pc = pc] \in Requests
  /\ \A q \in Requests, n \in Nat : [q EXCEPT !.pc = "count", !.read = n] \in Requests
  /\ \A q \in Requests, d \in Data : [q EXCEPT !.pc = "remember", !.copy = d] \in Requests
  BY DataFacts DEF Idle, Requests

(* What a request sees in its session is data of a session.                *)
LEMMA SeenType ==
  ASSUME TypeOK, NEW r \in Request, request[r].pc # "idle"
  PROVE  request[r].sid \in issued /\ request[r].sid \in Sid /\ Seen(r) \in Data
  BY DEF TypeOK, Requests, Seen

(* Before the first request there is nothing to be sound about.            *)
LEMMA SessionInvInit == Init => SessionInv
  <1> SUFFICES ASSUME Init PROVE SessionInv
    OBVIOUS
  <1> USE SessionsAssumption DEF Init, Idle, Empty, NoFailures
  <1>1. TypeOK
    BY DEF TypeOK, Data, Requests
  <1>2. OnlyRememberedPersist /\ RememberedStaysIn /\ LockDeserved
    BY DEF OnlyRememberedPersist, RememberedStaysIn, LockDeserved
  <1>3. StoreSound /\ LogoutSound /\ CountSound
    BY DEF StoreSound, LogoutSound, CountSound
  <1> QED BY <1>1, <1>2, <1>3 DEF SessionInv

(* What Session.Set does to the stores.                                    *)
LEMMA SetFacts ==
  ASSUME TypeOK, NEW r \in Request, request[r].pc # "idle", NEW d \in Data, Set(r, d),
         UNCHANGED issued
  PROVE  /\ data' \in [Sid -> Data] /\ db' \in [Sid -> Data \cup {Absent}]
         /\ cached' \subseteq issued'
         /\ \A s \in Sid : db'[s] # Absent => s \in issued'
         /\ \A s \in Sid : db[s] # Absent => db'[s] # Absent
  <1> USE SeenType, DataFacts DEF TypeOK, Set
  <1>1. request[r].sid \in issued /\ request[r].sid \in Sid
    OBVIOUS
  <1>2. data' \in [Sid -> Data] /\ db' \in [Sid -> Data \cup {Absent}]
    BY <1>1
  <1>3. cached' \subseteq issued'
    BY <1>1
  <1>4. \A s \in Sid : db'[s] # Absent => s \in issued'
    BY <1>1
  <1>5. \A s \in Sid : db[s] # Absent => db'[s] # Absent
    BY <1>1
  <1> QED BY <1>2, <1>3, <1>4, <1>5

(* A request that arrives: it has a session that lives, or a new one, and  *)
(* no data of its own but a copy of what is in the database.               *)
Arrives(r, new) ==
  /\ request[r] = Idle /\ request' = [request EXCEPT ![r] = new]
  /\ new \in Requests /\ new.pc \in {"throttle", "captcha", "logout"}
  /\ new.pc = "throttle" => new.user \in User
  /\ new.out = loggedOut
  /\ new.own => db[new.sid] # Absent /\ new.copy = db[new.sid]
  /\ \/ new.sid \in issued /\ Lives(new.sid) /\ UNCHANGED <<issued, cached>>
     \/ /\ new.sid \in Sid \ issued
        /\ issued' = issued \cup {new.sid} /\ cached' = cached \cup {new.sid}
  /\ requests' \in 0 .. MaxRequests
  /\ UNCHANGED <<data, db, expired, failures, restarts, historyVars>>

LEMMA ArriveFacts ==
  ASSUME TypeOK, NEW r \in Request, Arrive(r)
  PROVE  \E new : Arrives(r, new)
  <1> DEFINE Blank(q) == /\ q \in Requests /\ q.pc \in {"throttle", "captcha", "logout"}
                         /\ q.pc = "throttle" => q.user \in User
                         /\ q.out = loggedOut /\ ~q.own
  <1>1. PICK q : Blank(q) /\ Begin(r, q)
    <2>1. CASE \E u \in User, remember \in BOOLEAN :
                 Begin(r, [Idle EXCEPT !.pc = "throttle", !.user = u, !.remember = remember,
                                       !.out = loggedOut])
      <3>1. PICK u \in User, remember \in BOOLEAN :
                 Begin(r, [Idle EXCEPT !.pc = "throttle", !.user = u, !.remember = remember,
                                       !.out = loggedOut])
        BY <2>1
      <3>2. Blank([Idle EXCEPT !.pc = "throttle", !.user = u, !.remember = remember,
                               !.out = loggedOut])
        BY DataFacts DEF TypeOK, Requests, Idle
      <3> QED BY <3>1, <3>2
    <2>2. CASE Begin(r, [Idle EXCEPT !.pc = "captcha", !.out = loggedOut])
      <3>1. Blank([Idle EXCEPT !.pc = "captcha", !.out = loggedOut])
        BY DataFacts DEF TypeOK, Requests, Idle
      <3> QED BY <2>2, <3>1
    <2>3. CASE Begin(r, [Idle EXCEPT !.pc = "logout", !.out = loggedOut])
      <3>1. Blank([Idle EXCEPT !.pc = "logout", !.out = loggedOut])
        BY DataFacts DEF TypeOK, Requests, Idle
      <3> QED BY <2>3, <3>1
    <2> QED BY <2>1, <2>2, <2>3 DEF Arrive
  <1>2. /\ request[r] = Idle /\ requests' \in 0 .. MaxRequests
        /\ UNCHANGED <<data, db, expired, failures, restarts, historyVars>>
    <2>1. /\ request[r] = Idle /\ requests < MaxRequests /\ requests' = requests + 1
          /\ UNCHANGED <<data, db, expired, failures, restarts, historyVars>>
      BY <1>1, Zenon DEF Begin
    <2> QED BY <2>1, SessionsAssumption DEF TypeOK
  <1>3. CASE \E s \in (issued \ expired) \cap cached :
               /\ request' = [request EXCEPT ![r] = [q EXCEPT !.sid = s]]
               /\ UNCHANGED <<issued, cached>>
    <2>1. PICK s \in (issued \ expired) \cap cached :
               /\ request' = [request EXCEPT ![r] = [q EXCEPT !.sid = s]]
               /\ UNCHANGED <<issued, cached>>
      BY <1>3
    <2>2. Arrives(r, [q EXCEPT !.sid = s])
      BY <1>1, <1>2, <2>1 DEF Arrives, TypeOK, Requests, Lives
    <2> QED BY <2>2
  <1>4. CASE \E s \in issued \ (expired \cup cached) :
               /\ db[s] # Absent
               /\ request' = [request EXCEPT ![r] = [q EXCEPT !.sid = s, !.own = TRUE, !.copy = db[s]]]
               /\ UNCHANGED <<issued, cached>>
    <2>1. PICK s \in issued \ (expired \cup cached) :
               /\ db[s] # Absent
               /\ request' = [request EXCEPT ![r] = [q EXCEPT !.sid = s, !.own = TRUE, !.copy = db[s]]]
               /\ UNCHANGED <<issued, cached>>
      BY <1>4
    <2>2. Arrives(r, [q EXCEPT !.sid = s, !.own = TRUE, !.copy = db[s]])
      BY <1>1, <1>2, <2>1 DEF Arrives, TypeOK, Requests, Lives
    <2> QED BY <2>2
  <1>5. CASE \E s \in Sid \ issued :
               /\ request' = [request EXCEPT ![r] = [q EXCEPT !.sid = s]]
               /\ issued' = issued \cup {s}
               /\ cached' = cached \cup {s}
    <2>1. PICK s \in Sid \ issued :
               /\ request' = [request EXCEPT ![r] = [q EXCEPT !.sid = s]]
               /\ issued' = issued \cup {s}
               /\ cached' = cached \cup {s}
      BY <1>5
    <2>2. Arrives(r, [q EXCEPT !.sid = s])
      BY <1>1, <1>2, <2>1 DEF Arrives, TypeOK, Requests, Lives
    <2> QED BY <2>2
  <1> QED BY <1>1, <1>3, <1>4, <1>5 DEF Begin

(* Every step keeps the types.                                             *)
LEMMA TypeStep == SessionInv /\ [Next]_vars => TypeOK'
  <1> SUFFICES ASSUME SessionInv, [Next]_vars PROVE TypeOK'
    OBVIOUS
  <1> USE SessionsAssumption
      DEF SessionInv, TypeOK, storeVars, boundVars, historyVars
  <1>1. ASSUME NEW r \in Request, Arrive(r) PROVE TypeOK'
    <2>1. PICK new : Arrives(r, new)
      BY <1>1, ArriveFacts
    <2> QED BY <2>1 DEF Arrives
  <1>2. ASSUME NEW r \in Request, CheckLocked(r) PROVE TypeOK'
    <2>1. request[r] \in Requests /\ request' \in [Request -> Requests]
      BY <1>2, RequestFacts DEF CheckLocked, StoreSound
    <2>2. \A q \in Request : request'[q].pc # "idle" => request'[q].sid \in issued
      BY <1>2 DEF CheckLocked, Idle
    <2> QED BY <1>2, <2>1, <2>2 DEF CheckLocked, StoreSound, Requests
  <1>3. ASSUME NEW r \in Request, WrongPassword(r) PROVE TypeOK'
    <2>1. request[r] \in Requests /\ request' \in [Request -> Requests]
      BY <1>3, RequestFacts DEF WrongPassword, StoreSound
    <2>2. \A q \in Request : request'[q].pc # "idle" => request'[q].sid \in issued
      BY <1>3 DEF WrongPassword, Idle
    <2> QED BY <1>3, <2>1, <2>2 DEF WrongPassword, StoreSound, Requests
  <1>4. ASSUME NEW r \in Request, Count(r) PROVE TypeOK'
    BY <1>4, DataFacts DEF Count, StoreSound, Requests, Idle
  <1>5. ASSUME NEW r \in Request, RightPassword(r) PROVE TypeOK'
    BY <1>5 DEF RightPassword, StoreSound, Requests, NoFailures
  <1>6. ASSUME NEW r \in Request, SetUsername(r) PROVE TypeOK'
    <2>1. request[r].pc # "idle"
      BY <1>6 DEF SetUsername
    <2>2. Seen(r) \in Data
      BY <2>1, SeenType
    <2>3. Set(r, [Seen(r) EXCEPT !.user = request[r].user]) /\ UNCHANGED issued
      BY <1>6 DEF SetUsername
    <2>4. [Seen(r) EXCEPT !.user = request[r].user] \in Data
      BY <1>6, <2>2, DataFacts DEF StoreSound, SetUsername
    <2>5. /\ data' \in [Sid -> Data] /\ db' \in [Sid -> Data \cup {Absent}]
          /\ cached' \subseteq issued' /\ \A s \in Sid : db'[s] # Absent => s \in issued'
      BY <2>1, <2>3, <2>4, SetFacts
    <2>6. request' \in [Request -> Requests]
      <3> DEFINE d == [Seen(r) EXCEPT !.user = request[r].user]
                 c == IF request[r].own THEN d ELSE request[r].copy
      <3>1. c \in Data
        BY <2>4 DEF Requests
      <3>2. request' = [request EXCEPT ![r] =
                          IF request[r].remember
                          THEN [request[r] EXCEPT !.pc = "remember", !.copy = c] ELSE Idle]
        BY <1>6 DEF SetUsername
      <3> QED BY <3>1, <3>2, RequestFacts
    <2>7. revived' \subseteq leaving' /\ remembered' \subseteq Sid
      BY <2>1, <2>3, <1>6 DEF SetUsername, Set
    <2>8. \A q \in Request : request'[q].pc # "idle" => request'[q].sid \in issued'
      BY <2>1, <1>6 DEF SetUsername, Idle
    <2> QED BY <1>6, <2>5, <2>6, <2>7, <2>8 DEF SetUsername
  <1>7. ASSUME NEW r \in Request, SetPersist(r) PROVE TypeOK'
    <2>1. request[r].pc # "idle"
      BY <1>7 DEF SetPersist
    <2>2. Seen(r) \in Data
      BY <2>1, SeenType
    <2>3. Set(r, [Seen(r) EXCEPT !.persist = TRUE]) /\ UNCHANGED issued
      BY <1>7 DEF SetPersist
    <2>4. [Seen(r) EXCEPT !.persist = TRUE] \in Data
      BY <1>7, <2>2, DataFacts
    <2>5. /\ data' \in [Sid -> Data] /\ db' \in [Sid -> Data \cup {Absent}]
          /\ cached' \subseteq issued' /\ \A s \in Sid : db'[s] # Absent => s \in issued'
      BY <2>1, <2>3, <2>4, SetFacts
    <2>6. request' \in [Request -> Requests]
      BY <1>7, <2>2, <2>4, RequestFacts, DataFacts DEF SetPersist
    <2>7. revived' \subseteq leaving' /\ remembered' \subseteq Sid
      BY <2>1, <2>3, <1>7 DEF SetPersist, Set
    <2>8. \A q \in Request : request'[q].pc # "idle" => request'[q].sid \in issued'
      BY <2>1, <1>7 DEF SetPersist, Idle
    <2> QED BY <1>7, <2>5, <2>6, <2>7, <2>8 DEF SetPersist
  <1>8. ASSUME NEW r \in Request, Captcha(r) PROVE TypeOK'
    <2>1. request[r].pc # "idle"
      BY <1>8 DEF Captcha
    <2>2. Seen(r) \in Data
      BY <2>1, SeenType
    <2>3. Set(r, Seen(r)) /\ UNCHANGED issued
      BY <1>8 DEF Captcha
    <2>4. Seen(r) \in Data
      BY <1>8, <2>2, DataFacts
    <2>5. /\ data' \in [Sid -> Data] /\ db' \in [Sid -> Data \cup {Absent}]
          /\ cached' \subseteq issued' /\ \A s \in Sid : db'[s] # Absent => s \in issued'
      BY <2>1, <2>3, <2>4, SetFacts
    <2>6. request' \in [Request -> Requests]
      BY <1>8, <2>2, <2>4, RequestFacts, DataFacts DEF Captcha
    <2>7. revived' \subseteq leaving' /\ remembered' \subseteq Sid
      BY <2>1, <2>3, <1>8 DEF Captcha, Set
    <2>8. \A q \in Request : request'[q].pc # "idle" => request'[q].sid \in issued'
      BY <2>1, <1>8 DEF Captcha, Idle
    <2> QED BY <1>8, <2>5, <2>6, <2>7, <2>8 DEF Captcha
  <1>9. ASSUME NEW r \in Request, LogoutDb(r) PROVE TypeOK'
    <2>1. request[r] \in Requests /\ request' \in [Request -> Requests]
      BY <1>9, RequestFacts DEF LogoutDb, StoreSound
    <2>2. \A q \in Request : request'[q].pc # "idle" => request'[q].sid \in issued
      BY <1>9 DEF LogoutDb, Idle
    <2> QED BY <1>9, <2>1, <2>2 DEF LogoutDb, StoreSound, Requests
  <1>10. ASSUME NEW r \in Request, LogoutCached(r) PROVE TypeOK'
    BY <1>10, DataFacts DEF LogoutCached, LogoutSound, Requests, Idle
  <1>11. ASSUME NEW s \in Sid, Expire(s) PROVE TypeOK'
    BY <1>11 DEF Expire, Requests, Idle, NoFailures, Data, Empty
  <1>12. ASSUME NEW s \in Sid, Uncache(s) PROVE TypeOK'
    BY <1>12 DEF Uncache, Requests, Idle, NoFailures, Data, Empty
  <1>13. ASSUME NEW s \in Sid, DeleteOld(s) PROVE TypeOK'
    BY <1>13 DEF DeleteOld, Requests, Idle, NoFailures, Data, Empty
  <1>14. ASSUME NEW u \in User, FailuresOver(u) PROVE TypeOK'
    BY <1>14 DEF FailuresOver, NoFailures
  <1>15. CASE Sweep
    BY <1>15 DEF Sweep, Requests, Idle, NoFailures, Data, Empty
  <1>16. CASE Restart
    BY <1>16 DEF Restart, Requests, Idle, NoFailures, Data, Empty
  <1>17. CASE UNCHANGED vars
    BY <1>17 DEF vars
  <1> QED BY <1>1, <1>2, <1>3, <1>4, <1>5, <1>6, <1>7, <1>8, <1>9, <1>10, <1>11, <1>12, <1>13, <1>14, <1>15, <1>16, <1>17 DEF Next, Handle, LoginStep

(* Every step keeps what may be stored sound.                              *)
LEMMA StoreStep == SessionInv /\ [Next]_vars => (OnlyRememberedPersist /\ StoreSound)'
  <1> SUFFICES ASSUME SessionInv, [Next]_vars PROVE (OnlyRememberedPersist /\ StoreSound)'
    OBVIOUS
  <1> USE SessionsAssumption
      DEF SessionInv, TypeOK, OnlyRememberedPersist, StoreSound, storeVars, boundVars, historyVars
  <1>1. ASSUME NEW r \in Request, Arrive(r) PROVE (OnlyRememberedPersist /\ StoreSound)'
    <2>1. PICK new : Arrives(r, new)
      BY <1>1, ArriveFacts
    <2> QED BY <2>1, TypeStep DEF Arrives, Idle, Requests, Lives
  <1>2. ASSUME NEW r \in Request, CheckLocked(r) PROVE (OnlyRememberedPersist /\ StoreSound)'
    BY <1>2 DEF CheckLocked, Idle, Requests, Data, Empty
  <1>3. ASSUME NEW r \in Request, WrongPassword(r) PROVE (OnlyRememberedPersist /\ StoreSound)'
    BY <1>3 DEF WrongPassword, Idle, Requests, Data, Empty
  <1>4. ASSUME NEW r \in Request, Count(r) PROVE (OnlyRememberedPersist /\ StoreSound)'
    BY <1>4 DEF Count, Idle, Requests, Data, Empty
  <1>5. ASSUME NEW r \in Request, RightPassword(r) PROVE (OnlyRememberedPersist /\ StoreSound)'
    BY <1>5 DEF RightPassword, Idle, Requests, Data, Empty
  <1>6. ASSUME NEW r \in Request, SetUsername(r) PROVE (OnlyRememberedPersist /\ StoreSound)'
    <2>1. request[r].pc # "idle"
      BY <1>6 DEF SetUsername
    <2>2. Seen(r) \in Data
      BY <2>1, SeenType
    <2>3. Set(r, [Seen(r) EXCEPT !.user = request[r].user]) /\ UNCHANGED issued
      BY <1>6 DEF SetUsername
    <2>4. [Seen(r) EXCEPT !.user = request[r].user] \in Data
      BY <1>6, <2>2, DataFacts DEF StoreSound, SetUsername
    <2>5. \A s \in Sid : db[s] # Absent => db'[s] # Absent
      BY <2>1, <2>3, <2>4, SetFacts
    <2>6. request[r].user \in User /\ request[r].user # NoUser
      BY <1>6, SessionsAssumption DEF SetUsername
    <2>7. request'[r].own => request'[r].copy = [Seen(r) EXCEPT !.user = request[r].user]
      BY <1>6 DEF SetUsername, Idle, Requests
    <2>8. \A q \in Request \ {r} : request'[q] = request[q]
      BY <1>6 DEF SetUsername
    <2>9. \/ request'[r].pc = "idle" /\ ~request'[r].own
          \/ /\ request'[r].own = request[r].own /\ request'[r].sid = request[r].sid
             /\ request'[r].user = request[r].user
      <3>1. request[r] \in Requests
        OBVIOUS
      <3> QED BY <1>6, <3>1 DEF SetUsername, Requests, Idle
    <2>10. OnlyRememberedPersist'
      BY <2>1, <2>2, <2>3, <2>6, SeenType DEF Set, Kept, Seen, Data
    <2>11. \A s \in Sid : data'[s].persist => data'[s].user # NoUser
      BY <2>1, <2>2, <2>3, <2>6, SeenType DEF Set, Data
    <2>12. request'[r].own => request'[r].copy.persist /\ request'[r].copy.user # NoUser
      BY <2>2, <2>6, <2>7, <2>9 DEF Data, Seen
    <2>13. request'[r].pc = "remember" /\ ~request'[r].own => data'[request'[r].sid].user # NoUser
      BY <2>1, <2>2, <2>3, <2>6, <2>9, SeenType DEF Set, Data, Idle
    <2>14. \A q \in Request \ {r} :
             request[q].pc = "remember" /\ ~request[q].own => data'[request[q].sid].user # NoUser
      BY <2>1, <2>2, <2>3, <2>6, SeenType DEF Set, Data
    <2>15. StoreSound'
      BY <2>6, <2>8, <2>9, <2>11, <2>12, <2>13, <2>14 DEF Idle
    <2> QED BY <2>10, <2>15
  <1>7. ASSUME NEW r \in Request, SetPersist(r) PROVE (OnlyRememberedPersist /\ StoreSound)'
    BY <1>7, SeenType DEF SetPersist, Set, Kept, Seen, Idle, Requests, Data, Empty
  <1>8. ASSUME NEW r \in Request, Captcha(r) PROVE (OnlyRememberedPersist /\ StoreSound)'
    BY <1>8, SeenType DEF Captcha, Set, Kept, Seen, Idle, Requests, Data, Empty
  <1>9. ASSUME NEW r \in Request, LogoutDb(r) PROVE (OnlyRememberedPersist /\ StoreSound)'
    BY <1>9 DEF LogoutDb, Idle, Requests, Data, Empty
  <1>10. ASSUME NEW r \in Request, LogoutCached(r) PROVE (OnlyRememberedPersist /\ StoreSound)'
    BY <1>10 DEF LogoutCached, Idle, Requests, Data, Empty
  <1>11. ASSUME NEW s \in Sid, Expire(s) PROVE (OnlyRememberedPersist /\ StoreSound)'
    BY <1>11 DEF Expire, Idle, Requests, Data, Empty
  <1>12. ASSUME NEW s \in Sid, Uncache(s) PROVE (OnlyRememberedPersist /\ StoreSound)'
    BY <1>12 DEF Uncache, Idle, Requests, Data, Empty
  <1>13. ASSUME NEW s \in Sid, DeleteOld(s) PROVE (OnlyRememberedPersist /\ StoreSound)'
    BY <1>13 DEF DeleteOld, Idle, Requests, Data, Empty
  <1>14. ASSUME NEW u \in User, FailuresOver(u) PROVE (OnlyRememberedPersist /\ StoreSound)'
    BY <1>14 DEF FailuresOver, Idle, Requests, Data, Empty
  <1>15. CASE Sweep
    BY <1>15 DEF Sweep, Idle, Requests, Data, Empty
  <1>16. CASE Restart
    BY <1>16 DEF Restart, Idle, Requests, Data, Empty
  <1>17. CASE UNCHANGED vars
    BY <1>17 DEF vars
  <1> QED BY <1>1, <1>2, <1>3, <1>4, <1>5, <1>6, <1>7, <1>8, <1>9, <1>10, <1>11, <1>12, <1>13, <1>14, <1>15, <1>16, <1>17 DEF Next, Handle, LoginStep

(* No step takes a remembered login away.                                  *)
LEMMA RememberStep == SessionInv /\ [Next]_vars => RememberedStaysIn'
  <1> SUFFICES ASSUME SessionInv, [Next]_vars PROVE RememberedStaysIn'
    OBVIOUS
  <1> USE SessionsAssumption
      DEF SessionInv, TypeOK, RememberedStaysIn, storeVars, boundVars, historyVars
  <1>1. ASSUME NEW r \in Request, Arrive(r) PROVE RememberedStaysIn'
    <2>1. PICK new : Arrives(r, new)
      BY <1>1, ArriveFacts
    <2> QED BY <2>1, TypeStep DEF Arrives, Idle, Requests, Lives
  <1>2. ASSUME NEW r \in Request, CheckLocked(r) PROVE RememberedStaysIn'
    BY <1>2, SeenType DEF CheckLocked, Set
  <1>3. ASSUME NEW r \in Request, WrongPassword(r) PROVE RememberedStaysIn'
    BY <1>3, SeenType DEF WrongPassword, Set
  <1>4. ASSUME NEW r \in Request, Count(r) PROVE RememberedStaysIn'
    BY <1>4, SeenType DEF Count, Set
  <1>5. ASSUME NEW r \in Request, RightPassword(r) PROVE RememberedStaysIn'
    BY <1>5, SeenType DEF RightPassword, Set
  <1>6. ASSUME NEW r \in Request, SetUsername(r) PROVE RememberedStaysIn'
    <2>1. request[r].pc # "idle"
      BY <1>6 DEF SetUsername
    <2>2. Seen(r) \in Data
      BY <2>1, SeenType
    <2>3. Set(r, [Seen(r) EXCEPT !.user = request[r].user]) /\ UNCHANGED issued
      BY <1>6 DEF SetUsername
    <2>4. [Seen(r) EXCEPT !.user = request[r].user] \in Data
      BY <1>6, <2>2, DataFacts DEF StoreSound, SetUsername
    <2>5. \A s \in Sid : db[s] # Absent => db'[s] # Absent
      BY <2>1, <2>3, <2>4, SetFacts
    <2> QED BY <1>6, <2>5 DEF SetUsername
  <1>7. ASSUME NEW r \in Request, SetPersist(r) PROVE RememberedStaysIn'
    <2>1. request[r].pc # "idle"
      BY <1>7 DEF SetPersist
    <2>2. Seen(r) \in Data
      BY <2>1, SeenType
    <2>3. Set(r, [Seen(r) EXCEPT !.persist = TRUE]) /\ UNCHANGED issued
      BY <1>7 DEF SetPersist
    <2>4. [Seen(r) EXCEPT !.persist = TRUE] \in Data
      BY <1>7, <2>2, DataFacts
    <2>5. \A s \in Sid : db[s] # Absent => db'[s] # Absent
      BY <2>1, <2>3, <2>4, SetFacts
    <2>6. Kept(r, [Seen(r) EXCEPT !.persist = TRUE])
      BY <2>2 DEF Kept, Seen, StoreSound, Data
    <2>7. db'[request[r].sid] # Absent
      BY <2>3, <2>4, <2>6, <2>1, SeenType, DataFacts DEF Set
    <2> QED BY <1>7, <2>5, <2>7 DEF SetPersist
  <1>8. ASSUME NEW r \in Request, Captcha(r) PROVE RememberedStaysIn'
    <2>1. request[r].pc # "idle"
      BY <1>8 DEF Captcha
    <2>2. Seen(r) \in Data
      BY <2>1, SeenType
    <2>3. Set(r, Seen(r)) /\ UNCHANGED issued
      BY <1>8 DEF Captcha
    <2>4. Seen(r) \in Data
      BY <1>8, <2>2, DataFacts
    <2>5. \A s \in Sid : db[s] # Absent => db'[s] # Absent
      BY <2>1, <2>3, <2>4, SetFacts
    <2> QED BY <1>8, <2>5 DEF Captcha
  <1>9. ASSUME NEW r \in Request, LogoutDb(r) PROVE RememberedStaysIn'
    BY <1>9, SeenType DEF LogoutDb, Set
  <1>10. ASSUME NEW r \in Request, LogoutCached(r) PROVE RememberedStaysIn'
    BY <1>10, SeenType DEF LogoutCached, Set
  <1>11. ASSUME NEW s \in Sid, Expire(s) PROVE RememberedStaysIn'
    BY <1>11, SeenType DEF Expire, Set
  <1>12. ASSUME NEW s \in Sid, Uncache(s) PROVE RememberedStaysIn'
    BY <1>12, SeenType DEF Uncache, Set
  <1>13. ASSUME NEW s \in Sid, DeleteOld(s) PROVE RememberedStaysIn'
    BY <1>13, SeenType DEF DeleteOld, Set
  <1>14. ASSUME NEW u \in User, FailuresOver(u) PROVE RememberedStaysIn'
    BY <1>14, SeenType DEF FailuresOver, Set
  <1>15. CASE Sweep
    BY <1>15, SeenType DEF Sweep, Set
  <1>16. CASE Restart
    BY <1>16, SeenType DEF Restart, Set
  <1>17. CASE UNCHANGED vars
    BY <1>17 DEF vars
  <1> QED BY <1>1, <1>2, <1>3, <1>4, <1>5, <1>6, <1>7, <1>8, <1>9, <1>10, <1>11, <1>12, <1>13, <1>14, <1>15, <1>16, <1>17 DEF Next, Handle, LoginStep

(* Every step keeps a deleted session deleted or marks it.                 *)
LEMMA LogoutStep == SessionInv /\ [Next]_vars => LogoutSound'
  <1> SUFFICES ASSUME SessionInv, [Next]_vars PROVE LogoutSound'
    OBVIOUS
  <1> USE SessionsAssumption
      DEF SessionInv, TypeOK, LogoutSound, storeVars, boundVars, historyVars
  <1>1. ASSUME NEW r \in Request, Arrive(r) PROVE LogoutSound'
    <2>1. PICK new : Arrives(r, new)
      BY <1>1, ArriveFacts
    <2> QED BY <2>1, TypeStep DEF Arrives, Idle, Requests, Lives
  <1>2. ASSUME NEW r \in Request, CheckLocked(r) PROVE LogoutSound'
    BY <1>2, SeenType DEF CheckLocked, Set, Idle, Requests
  <1>3. ASSUME NEW r \in Request, WrongPassword(r) PROVE LogoutSound'
    BY <1>3, SeenType DEF WrongPassword, Set, Idle, Requests
  <1>4. ASSUME NEW r \in Request, Count(r) PROVE LogoutSound'
    BY <1>4, SeenType DEF Count, Set, Idle, Requests
  <1>5. ASSUME NEW r \in Request, RightPassword(r) PROVE LogoutSound'
    BY <1>5, SeenType DEF RightPassword, Set, Idle, Requests
  <1>6. ASSUME NEW r \in Request, SetUsername(r) PROVE LogoutSound'
    BY <1>6, SeenType DEF SetUsername, Set, Idle, Requests
  <1>7. ASSUME NEW r \in Request, SetPersist(r) PROVE LogoutSound'
    BY <1>7, SeenType DEF SetPersist, Set, Idle, Requests
  <1>8. ASSUME NEW r \in Request, Captcha(r) PROVE LogoutSound'
    BY <1>8, SeenType DEF Captcha, Set, Idle, Requests
  <1>9. ASSUME NEW r \in Request, LogoutDb(r) PROVE LogoutSound'
    BY <1>9, SeenType DEF LogoutDb, Set, Idle, Requests
  <1>10. ASSUME NEW r \in Request, LogoutCached(r) PROVE LogoutSound'
    BY <1>10, SeenType DEF LogoutCached, Set, Idle, Requests
  <1>11. ASSUME NEW s \in Sid, Expire(s) PROVE LogoutSound'
    BY <1>11, SeenType DEF Expire, Set, Idle, Requests
  <1>12. ASSUME NEW s \in Sid, Uncache(s) PROVE LogoutSound'
    BY <1>12, SeenType DEF Uncache, Set, Idle, Requests
  <1>13. ASSUME NEW s \in Sid, DeleteOld(s) PROVE LogoutSound'
    BY <1>13, SeenType DEF DeleteOld, Set, Idle, Requests
  <1>14. ASSUME NEW u \in User, FailuresOver(u) PROVE LogoutSound'
    BY <1>14, SeenType DEF FailuresOver, Set, Idle, Requests
  <1>15. CASE Sweep
    BY <1>15, SeenType DEF Sweep, Set, Idle, Requests
  <1>16. CASE Restart
    BY <1>16, SeenType DEF Restart, Set, Idle, Requests
  <1>17. CASE UNCHANGED vars
    BY <1>17 DEF vars
  <1> QED BY <1>1, <1>2, <1>3, <1>4, <1>5, <1>6, <1>7, <1>8, <1>9, <1>10, <1>11, <1>12, <1>13, <1>14, <1>15, <1>16, <1>17 DEF Next, Handle, LoginStep

(* No step counts a failure that did not happen.                           *)
LEMMA CountStep == SessionInv /\ [Next]_vars => (LockDeserved /\ CountSound)'
  <1> SUFFICES ASSUME SessionInv, [Next]_vars PROVE (LockDeserved /\ CountSound)'
    OBVIOUS
  <1> USE SessionsAssumption
      DEF SessionInv, TypeOK, LockDeserved, CountSound, StoreSound, NoFailures, storeVars, boundVars, historyVars
  <1>1. ASSUME NEW r \in Request, Arrive(r) PROVE (LockDeserved /\ CountSound)'
    <2>1. PICK new : Arrives(r, new)
      BY <1>1, ArriveFacts
    <2> QED BY <2>1, TypeStep DEF Arrives, Idle, Requests, Lives
  <1>2. ASSUME NEW r \in Request, CheckLocked(r) PROVE (LockDeserved /\ CountSound)'
    BY <1>2 DEF CheckLocked, Idle, Requests
  <1>3. ASSUME NEW r \in Request, WrongPassword(r) PROVE (LockDeserved /\ CountSound)'
    BY <1>3 DEF WrongPassword, Idle, Requests
  <1>4. ASSUME NEW r \in Request, Count(r) PROVE (LockDeserved /\ CountSound)'
    BY <1>4 DEF Count, Idle, Requests
  <1>5. ASSUME NEW r \in Request, RightPassword(r) PROVE (LockDeserved /\ CountSound)'
    BY <1>5 DEF RightPassword, Idle, Requests
  <1>6. ASSUME NEW r \in Request, SetUsername(r) PROVE (LockDeserved /\ CountSound)'
    BY <1>6 DEF SetUsername, Idle, Requests
  <1>7. ASSUME NEW r \in Request, SetPersist(r) PROVE (LockDeserved /\ CountSound)'
    BY <1>7 DEF SetPersist, Idle, Requests
  <1>8. ASSUME NEW r \in Request, Captcha(r) PROVE (LockDeserved /\ CountSound)'
    BY <1>8 DEF Captcha, Idle, Requests
  <1>9. ASSUME NEW r \in Request, LogoutDb(r) PROVE (LockDeserved /\ CountSound)'
    BY <1>9 DEF LogoutDb, Idle, Requests
  <1>10. ASSUME NEW r \in Request, LogoutCached(r) PROVE (LockDeserved /\ CountSound)'
    BY <1>10 DEF LogoutCached, Idle, Requests
  <1>11. ASSUME NEW s \in Sid, Expire(s) PROVE (LockDeserved /\ CountSound)'
    BY <1>11 DEF Expire, Idle, Requests
  <1>12. ASSUME NEW s \in Sid, Uncache(s) PROVE (LockDeserved /\ CountSound)'
    BY <1>12 DEF Uncache, Idle, Requests
  <1>13. ASSUME NEW s \in Sid, DeleteOld(s) PROVE (LockDeserved /\ CountSound)'
    BY <1>13 DEF DeleteOld, Idle, Requests
  <1>14. ASSUME NEW u \in User, FailuresOver(u) PROVE (LockDeserved /\ CountSound)'
    BY <1>14 DEF FailuresOver, Idle, Requests
  <1>15. CASE Sweep
    BY <1>15 DEF Sweep, Idle, Requests
  <1>16. CASE Restart
    BY <1>16 DEF Restart, Idle, Requests
  <1>17. CASE UNCHANGED vars
    BY <1>17 DEF vars
  <1> QED BY <1>1, <1>2, <1>3, <1>4, <1>5, <1>6, <1>7, <1>8, <1>9, <1>10, <1>11, <1>12, <1>13, <1>14, <1>15, <1>16, <1>17 DEF Next, Handle, LoginStep

(* The request that s comes back through was begun before its logout ended. *)
ComesBackOld(s) == \E r \in Request : request[r].sid = s /\ s \notin request[r].out

(* A session that is logged out comes back only through an older request.  *)
LEMMA HoldStep ==
  ASSUME SessionInv, [Next]_vars, NEW s \in loggedOut \ revived, Lives(s)'
  PROVE  ComesBackOld(s)
  <1>0. s \in issued /\ s \in Sid /\ s \notin cached /\ db[s] = Absent
    BY DEF SessionInv, TypeOK, LogoutSound
  <1> USE <1>0, SessionsAssumption
      DEF SessionInv, TypeOK, LogoutSound, Lives, ComesBackOld, storeVars, boundVars, historyVars
  <1>1. ASSUME NEW r \in Request, Arrive(r) PROVE ComesBackOld(s)
    <2>1. PICK new : Arrives(r, new)
      BY <1>1, ArriveFacts
    <2> QED BY <2>1, TypeStep DEF Arrives, Idle, Requests, Lives
  <1>2. ASSUME NEW r \in Request, CheckLocked(r) PROVE ComesBackOld(s)
    BY <1>2 DEF CheckLocked
  <1>3. ASSUME NEW r \in Request, WrongPassword(r) PROVE ComesBackOld(s)
    BY <1>3 DEF WrongPassword
  <1>4. ASSUME NEW r \in Request, Count(r) PROVE ComesBackOld(s)
    BY <1>4 DEF Count
  <1>5. ASSUME NEW r \in Request, RightPassword(r) PROVE ComesBackOld(s)
    BY <1>5 DEF RightPassword
  <1>6. ASSUME NEW r \in Request, SetUsername(r) PROVE ComesBackOld(s)
    BY <1>6, SeenType DEF SetUsername, Set
  <1>7. ASSUME NEW r \in Request, SetPersist(r) PROVE ComesBackOld(s)
    BY <1>7, SeenType DEF SetPersist, Set
  <1>8. ASSUME NEW r \in Request, Captcha(r) PROVE ComesBackOld(s)
    BY <1>8, SeenType DEF Captcha, Set
  <1>9. ASSUME NEW r \in Request, LogoutDb(r) PROVE ComesBackOld(s)
    BY <1>9 DEF LogoutDb
  <1>10. ASSUME NEW r \in Request, LogoutCached(r) PROVE ComesBackOld(s)
    BY <1>10 DEF LogoutCached
  <1>11. ASSUME NEW z \in Sid, Expire(z) PROVE ComesBackOld(s)
    BY <1>11 DEF Expire
  <1>12. ASSUME NEW z \in Sid, Uncache(z) PROVE ComesBackOld(s)
    BY <1>12 DEF Uncache
  <1>13. ASSUME NEW z \in Sid, DeleteOld(z) PROVE ComesBackOld(s)
    BY <1>13 DEF DeleteOld
  <1>14. ASSUME NEW u \in User, FailuresOver(u) PROVE ComesBackOld(s)
    BY <1>14 DEF FailuresOver
  <1>15. CASE Sweep
    BY <1>15 DEF Sweep
  <1>16. CASE Restart
    BY <1>16 DEF Restart
  <1>17. CASE UNCHANGED vars
    BY <1>17 DEF vars
  <1> QED BY <1>1, <1>2, <1>3, <1>4, <1>5, <1>6, <1>7, <1>8, <1>9, <1>10, <1>11, <1>12, <1>13, <1>14, <1>15, <1>16, <1>17 DEF Next, Handle, LoginStep

-----------------------------------------------------------------------------
LEMMA SessionInvStep == SessionInv /\ [Next]_vars => SessionInv'
  BY TypeStep, StoreStep, RememberStep, LogoutStep, CountStep DEF SessionInv

(* The types and everything else the properties rest on hold always, for   *)
(* any number of accounts, sessions, requests and restarts.                *)
THEOREM SessionsCorrect == Spec => []SessionInv
  BY SessionInvInit, SessionInvStep, PTL DEF Spec

(* Login, logout and captcha requests leave the session stores well-typed. *)
THEOREM SessionsTyped == Spec => []TypeOK
  <1>1. SessionInv => TypeOK
    BY DEF SessionInv
  <1> QED BY <1>1, SessionsCorrect, PTL

(* What is in the database was asked to be remembered and has a user.      *)
THEOREM DatabaseDeserved == Spec => []OnlyRememberedPersist
  <1>1. SessionInv => OnlyRememberedPersist
    BY DEF SessionInv
  <1> QED BY <1>1, SessionsCorrect, PTL

(* A remembered login lasts until it expires or its user logs out.         *)
THEOREM LoginsLast == Spec => []RememberedStaysIn
  <1>1. SessionInv => RememberedStaysIn
    BY DEF SessionInv
  <1> QED BY <1>1, SessionsCorrect, PTL

(* The throttle never counts more failures than there were.                *)
THEOREM LocksDeserved == Spec => []LockDeserved
  <1>1. SessionInv => LockDeserved
    BY DEF SessionInv
  <1> QED BY <1>1, SessionsCorrect, PTL

(* LogoutHandler's order, database first, holds against all requests begun *)
(* after it has ended.                                                     *)
THEOREM LogoutsHold == Spec => LogoutHolds
  <1>1. SessionInv /\ [Next]_vars =>
          [\A s \in loggedOut \ revived :
             Lives(s)' => \E r \in Request : request[r].sid = s /\ s \notin request[r].out]_vars
    BY HoldStep DEF ComesBackOld
  <1> QED BY <1>1, SessionsCorrect, PTL DEF Spec, LogoutHolds
===========================================================================
