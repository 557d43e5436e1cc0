--------------------------- MODULE AccountsProofs ---------------------------
(***************************************************************************)
(* Proofs about Accounts: records stay records; a name has a file when and *)
(* only when it is a user or a feed; a feed has one owner unless archived; *)
(* and who follows is in the list of whom it follows.  Each holds however  *)
(* requests meet, except of the names they met on.                         *)
(***************************************************************************)
EXTENDS Accounts, FiniteSetTheorems, TLAPS

-----------------------------------------------------------------------------
(* Types                                                                   *)

Nicks == UNION {[D -> Names] : D \in SUBSET Names}
Record == [feeds : SUBSET Names, following : Nicks, followers : SUBSET Names]
Database == UNION {[D -> Record] : D \in SUBSET Names}
Stages == {"stat", "own", "other", "load", "list", "listFeed", "append", "file", "feed",
           "fixed", "fixedFeed", "write", "account", "next"}
Ops == {"register", "feed", "fix", "archive", "manage", "transfer", "followers", "follow",
        "import", "unfollow", "settings", "post", "delete"}
Handling == [op : Ops, at : Stages, u : Names, x : Names, arg : Names,
             mine : Record, theirs : Record]
Working == [Requests -> Handling \cup {Idle}]

Typed ==
  /\ users \in Database /\ feeds \in Database /\ files \in SUBSET Names
  /\ req \in Working
  /\ left \in 0..MaxRequests /\ restarts \in 0..MaxRestarts
  /\ hurt \in SUBSET Names /\ archived \in SUBSET Names
  /\ astray \in SUBSET (Names \X Names)

LEMMA NotIdle == \A q \in Handling : q # Idle /\ q.at # "idle"
BY DEF Handling, Stages, Idle

LEMMA NicksAre ==
  ASSUME NEW f \in Nicks
  PROVE  DOMAIN f \subseteq Names /\ f \in [DOMAIN f -> Names] /\ Range(f) \subseteq Names
BY DEF Nicks, Range

LEMMA DatabaseIs ==
  ASSUME NEW db \in Database
  PROVE  /\ DOMAIN db \subseteq Names /\ db \in [DOMAIN db -> Record]
         /\ \A n \in DOMAIN db : db[n] \in Record
BY DEF Database

LEMMA PutNick ==
  ASSUME NEW f \in Nicks, NEW n \in Names, NEW x \in Names
  PROVE  Put(f, n, x) \in Nicks
<1>1. Put(f, n, x) \in [DOMAIN f \cup {n} -> Names]
  BY NicksAre DEF Put
<1>2. DOMAIN f \cup {n} \in SUBSET Names
  BY NicksAre
<1> QED BY <1>1, <1>2 DEF Nicks

LEMMA WithoutNick ==
  ASSUME NEW f \in Nicks, NEW n
  PROVE  Without(f, n) \in Nicks
<1>1. Without(f, n) \in [DOMAIN f \ {n} -> Names]
  BY NicksAre DEF Without, Restrict
<1>2. DOMAIN f \ {n} \in SUBSET Names
  BY NicksAre
<1> QED BY <1>1, <1>2 DEF Nicks

LEMMA PutRecord ==
  ASSUME NEW db \in Database, NEW n \in Names, NEW rec \in Record
  PROVE  Put(db, n, rec) \in Database /\ DOMAIN Put(db, n, rec) = DOMAIN db \cup {n}
<1>1. Put(db, n, rec) \in [DOMAIN db \cup {n} -> Record]
  BY DatabaseIs DEF Put
<1>2. DOMAIN db \cup {n} \in SUBSET Names
  BY DatabaseIs
<1> QED BY <1>1, <1>2 DEF Database

LEMMA WithoutRecord ==
  ASSUME NEW db \in Database, NEW n
  PROVE  Without(db, n) \in Database /\ DOMAIN Without(db, n) = DOMAIN db \ {n}
<1>1. Without(db, n) \in [DOMAIN db \ {n} -> Record]
  BY DatabaseIs DEF Without, Restrict
<1>2. DOMAIN db \ {n} \in SUBSET Names
  BY DatabaseIs
<1> QED BY <1>1, <1>2 DEF Database

LEMMA FreshIs ==
  ASSUME NEW names \in SUBSET Names
  PROVE  Fresh(names) \in Record
<1>1. Restrict([n \in Names |-> n], {}) \in [{} -> Names]
  BY DEF Restrict
<1>2. Restrict([n \in Names |-> n], {}) \in Nicks
  BY <1>1 DEF Nicks
<1> QED BY <1>2 DEF Fresh, Record

(* What the handlers make of a record is one.                              *)
LEMMA RecordsMade ==
  ASSUME NEW rec \in Record, NEW x \in Names, NEW nick \in Names
  PROVE  /\ Following(rec, nick, x) \in Record
         /\ Owning(rec, x) \in Record /\ Disowning(rec, x) \in Record
         /\ Listing(rec, x) \in Record /\ Unlisting(rec, x) \in Record
         /\ Creating(rec, x) \in Record /\ Detaching(rec, x) \in Record
         /\ [rec EXCEPT !.following = Without(@, nick)] \in Record
<1>1. \A q \in Record, m \in Names : Following(q, m, x) \in Record
  BY PutNick DEF Following, Record
<1>2. Owning(rec, x) \in Record /\ Disowning(rec, x) \in Record
  BY DEF Owning, Disowning, Record
<1>3. Listing(rec, x) \in Record /\ Unlisting(rec, x) \in Record
  BY DEF Listing, Unlisting, Record
<1>4. \A q \in Record, m \in Names : [q EXCEPT !.following = Without(@, m)] \in Record
  BY WithoutNick DEF Record
<1>5. Creating(rec, x) \in Record
  BY <1>1, <1>2 DEF Creating
<1>6. Detaching(rec, x) \in Record
  BY <1>2, <1>4 DEF Detaching
<1> QED BY <1>1, <1>2, <1>3, <1>4, <1>5, <1>6

(* A save hurts names only, and the name itself when there was no record.  *)
LEMMA MetIs ==
  ASSUME NEW db \in Database, NEW n \in Names, NEW read \in Record
  PROVE  /\ Met(db, n, read) \subseteq Names
         /\ n \notin Met(db, n, read) => n \in DOMAIN db
<1>1. (IF n \in DOMAIN db THEN db[n] ELSE Fresh({})) \in Record
  BY FreshIs, DatabaseIs
<1>2. \A there \in Record : there.feeds \subseteq Names /\ read.feeds \subseteq Names
  BY DEF Record
<1> QED BY <1>1, <1>2 DEF Met

LEMMA HandlingIs ==
  ASSUME Typed, NEW r \in Requests, req[r] # Idle
  PROVE  req[r] \in Handling
BY DEF Typed, Working

LEMMA HalfwayNames ==
  ASSUME Typed, NEW r \in Requests
  PROVE  Halfway(r) \subseteq Names
<1>1. CASE req[r] = Idle
  BY <1>1 DEF Halfway, Idle
<1>2. CASE req[r] # Idle
  BY <1>2, HandlingIs DEF Halfway, Handling, Record
<1> QED BY <1>1, <1>2

LEMMA Moves ==
  ASSUME Typed, NEW r \in Requests, NEW q \in Handling \cup {Idle}
  PROVE  /\ [req EXCEPT ![r] = q] \in Working
         /\ [req EXCEPT ![r] = q][r] = q
         /\ \A s \in Requests \ {r} : [req EXCEPT ![r] = q][s] = req[s]
BY DEF Typed, Working

LEMMA Goes ==
  ASSUME Typed, NEW r \in Requests, req[r] # Idle, NEW at \in Stages
  PROVE  /\ [req[r] EXCEPT !.at = at] \in Handling
         /\ [req EXCEPT ![r].at = at] = [req EXCEPT ![r] = [req[r] EXCEPT !.at = at]]
         /\ [req EXCEPT ![r].at = at] \in Working
<1>1. [req[r] EXCEPT !.at = at] \in Handling
  BY HandlingIs DEF Handling
<1>2. [req EXCEPT ![r].at = at] = [req EXCEPT ![r] = [req[r] EXCEPT !.at = at]]
  OBVIOUS
<1> QED BY <1>1, <1>2, Moves

LEMMA Arrives ==
  ASSUME Typed, NEW r \in Requests, NEW op \in Ops, NEW at \in Stages, NEW u \in Names,
         NEW x \in Names, NEW arg \in Names, NEW theirs \in Record,
         Load(r, op, at, u, x, arg, theirs), hurt' \in SUBSET Names
  PROVE  /\ Typed'
         /\ \E q \in Handling : /\ q.op = op /\ q.at = at /\ q.u = u /\ q.x = x
                                /\ q.mine = IF u \in DOMAIN users THEN users[u] ELSE Fresh({})
                                /\ q.theirs = theirs
                                /\ req' = [req EXCEPT ![r] = q]
<1> DEFINE own == IF u \in DOMAIN users THEN users[u] ELSE Fresh({})
           q == [op |-> op, at |-> at, u |-> u, x |-> x, arg |-> arg, mine |-> own,
                 theirs |-> theirs]
<1>1. own \in Record
  BY FreshIs, DatabaseIs DEF Typed
<1> HIDE DEF own
<1>2. q \in Handling
  BY <1>1 DEF Handling
<1>3. req' = [req EXCEPT ![r] = q]
  BY DEF Load, own
<1>4. left' \in 0..MaxRequests
  BY AccountsAssumption DEF Load, Typed
<1>5. q.op = op /\ q.at = at /\ q.u = u /\ q.x = x /\ q.mine = own /\ q.theirs = theirs
  OBVIOUS
<1> HIDE DEF q
<1>6. req' \in Working
  BY <1>2, <1>3, Moves
<1>7. Typed'
  BY <1>4, <1>6 DEF Typed, Load
<1> QED BY <1>2, <1>3, <1>5, <1>7 DEF own

(* Whoever saves a record of its user found one, or hurts the name.        *)
LEMMA OwnSaves ==
  ASSUME Typed, NEW r \in Requests, req[r] # Idle, NEW rec \in Record, NEW seen,
         SaveOwn(r, rec, seen)
  PROVE  /\ users' \in Database /\ feeds' \in Database /\ files' \in SUBSET Names
         /\ left' \in 0..MaxRequests /\ restarts' \in 0..MaxRestarts
         /\ hurt' \in SUBSET Names /\ astray' \in SUBSET (Names \X Names)
         /\ hurt \subseteq hurt'
         /\ \A n \in Names \ hurt' : n \in DOMAIN users' <=> n \in DOMAIN users
<1> DEFINE q == req[r]
<1>1. q \in Handling
  BY HandlingIs
<1>2. q.u \in Names /\ q.x \in Names /\ q.mine \in Record
  BY <1>1 DEF Handling
<1>3. Range(q.mine.following) \subseteq Names
  BY <1>2, NicksAre DEF Record
<1> HIDE DEF q
<1>4. users' = Put(users, q.u, rec) /\ users \in Database
  BY DEF SaveOwn, Typed, q
<1>5. users' \in Database /\ DOMAIN users' = DOMAIN users \cup {q.u}
  BY <1>2, <1>4, PutRecord
<1>6. hurt \subseteq hurt' /\ Met(users, q.u, q.mine) \subseteq hurt'
  BY DEF SaveOwn, q
<1>7. hurt' \in SUBSET Names
  BY <1>2, <1>4, MetIs DEF SaveOwn, q, Typed
<1>8. astray' \in SUBSET (Names \X Names)
  BY <1>2, <1>3 DEF SaveOwn, q, Typed
<1>9. \A n \in Names \ hurt' : n \in DOMAIN users' <=> n \in DOMAIN users
  BY <1>2, <1>4, <1>5, <1>6, MetIs
<1> QED BY <1>5, <1>6, <1>7, <1>8, <1>9 DEF SaveOwn, Typed

(* So does whoever saves another record.                                   *)
LEMMA OtherSaves ==
  ASSUME NEW db \in Database, NEW x \in Names, NEW rec \in Record, NEW read \in Record
  PROVE  /\ Put(db, x, rec) \in Database /\ Met(db, x, read) \subseteq Names
         /\ \A n \in Names \ Met(db, x, read) :
              n \in DOMAIN Put(db, x, rec) <=> n \in DOMAIN db
<1>1. Put(db, x, rec) \in Database /\ DOMAIN Put(db, x, rec) = DOMAIN db \cup {x}
  BY PutRecord
<1>2. Met(db, x, read) \subseteq Names /\ (x \notin Met(db, x, read) => x \in DOMAIN db)
  BY MetIs
<1> QED BY <1>1, <1>2

-----------------------------------------------------------------------------
(* Requests that are not between two steps about a name                    *)

Aside(q) ==
  q = Idle \/ /\ q.op # "delete"
              /\ q.at \in {"stat", "write"} => q.op \in {"register", "feed"}
              /\ q.op = "register" => q.x = q.u /\ q.at # "account"
              /\ q.op \in {"feed", "fix"} => q.at # "feed"

(* The step leaves all names as they were taken, but for those it hurts.   *)
Same ==
  /\ hurt \subseteq hurt'
  /\ \A n \in Names \ hurt' : /\ n \in DOMAIN users' <=> n \in DOMAIN users
                              /\ n \in DOMAIN feeds' <=> n \in DOMAIN feeds
                              /\ n \in files' <=> n \in files

Quiet(r) ==
  /\ Same /\ Aside(req[r])
  /\ \E q \in Handling \cup {Idle} : Aside(q) /\ req' = [req EXCEPT ![r] = q]

LEMMA QuietArrival ==
  ASSUME Typed, NEW r \in Requests, NEW op \in Ops, NEW at \in Stages, NEW u \in Names,
         NEW x \in Names, NEW arg \in Names, NEW theirs \in Record,
         op # "delete", at \notin {"write", "account", "feed"},
         at = "stat" => op \in {"register", "feed"}, op = "register" => x = u,
         Arrive(r, op, at, u, x, arg, theirs)
  PROVE  Typed' /\ Quiet(r)
<1>1. Typed' /\ \E q \in Handling : /\ q.op = op /\ q.at = at /\ q.u = u /\ q.x = x
                                    /\ q.theirs = theirs /\ req' = [req EXCEPT ![r] = q]
  BY Arrives DEF Arrive, Typed
<1>2. Same /\ req[r] = Idle
  BY DEF Arrive, Load, Same
<1>3. \A q \in Handling : q.op = op /\ q.at = at /\ q.u = u /\ q.x = x => Aside(q)
  BY DEF Aside
<1> QED BY <1>1, <1>2, <1>3 DEF Quiet, Aside

(* All that is left of a request is that it goes on, or ends.              *)
LEMMA QuietMove ==
  ASSUME Typed, NEW r \in Requests, Same, Aside(req[r]), NEW q \in Handling \cup {Idle}, Aside(q),
         req' = [req EXCEPT ![r] = q],
         users' \in Database, feeds' \in Database, files' \in SUBSET Names,
         left' \in 0..MaxRequests, restarts' \in 0..MaxRestarts,
         hurt' \in SUBSET Names, archived' \in SUBSET Names, astray' \in SUBSET (Names \X Names)
  PROVE  Typed' /\ Quiet(r)
<1>1. req' \in Working
  BY Moves
<1> QED BY <1>1 DEF Typed, Quiet

LEMMA EndIs ==
  ASSUME NEW r \in Requests, End(r)
  PROVE  req' = [req EXCEPT ![r] = Idle] /\ Aside(Idle)
BY DEF End, Aside

LEMMA GoIs ==
  ASSUME Typed, NEW r \in Requests, req[r] # Idle, NEW at \in Stages, Go(r, at)
  PROVE  LET q == [req[r] EXCEPT !.at = at] IN
         /\ q \in Handling /\ q.at = at /\ q.op = req[r].op /\ q.u = req[r].u /\ q.x = req[r].x
         /\ q.theirs = req[r].theirs /\ q.mine = req[r].mine
         /\ req' = [req EXCEPT ![r] = q]
<1>1. [req[r] EXCEPT !.at = at] \in Handling
  BY Goes
<1>2. req' = [req EXCEPT ![r] = [req[r] EXCEPT !.at = at]]
  BY Goes DEF Go
<1>3. req[r] \in Handling
  BY HandlingIs
<1> QED BY <1>1, <1>2, <1>3 DEF Handling

LEMMA StatNameQuiet ==
  ASSUME Typed, NEW r \in Requests, Aside(req[r]), StatName(r)
  PROVE  Typed' /\ Quiet(r)
<1>1. req[r] # Idle
  BY DEF StatName, Idle
<1>2. Same /\ UNCHANGED <<users, feeds, files, left, restarts, hurt, astray, archived>>
  BY DEF StatName, Same
<1>3. CASE End(r)
  BY <1>2, <1>3, EndIs, QuietMove DEF Typed
<1>4. CASE Go(r, "write")
  <2> DEFINE q == [req[r] EXCEPT !.at = "write"]
  <2>1. /\ q \in Handling /\ q.at = "write" /\ q.op = req[r].op /\ q.u = req[r].u
        /\ q.x = req[r].x /\ req' = [req EXCEPT ![r] = q]
    <3>1. "write" \in Stages
      BY DEF Stages
    <3> QED BY <1>1, <1>4, <3>1, GoIs
  <2>2. Aside(q)
    BY <1>1, <2>1 DEF Aside, StatName
  <2> HIDE DEF q
  <2> QED BY <1>2, <2>1, <2>2, QuietMove DEF Typed
<1> QED BY <1>3, <1>4 DEF StatName

(* Steps that save the record of the user and end, or go on.               *)
LEMMA OwnQuiet ==
  ASSUME Typed, NEW r \in Requests, req[r] # Idle, Aside(req[r]), NEW rec \in Record, NEW seen,
         SaveOwn(r, rec, seen), archived' \in SUBSET Names,
         \/ End(r)
         \/ \E at \in Stages : /\ at \notin {"stat", "write", "account", "feed"} /\ Go(r, at)
  PROVE  Typed' /\ Quiet(r)
<1>1. /\ users' \in Database /\ feeds' \in Database /\ files' \in SUBSET Names
      /\ left' \in 0..MaxRequests /\ restarts' \in 0..MaxRestarts
      /\ hurt' \in SUBSET Names /\ astray' \in SUBSET (Names \X Names)
      /\ hurt \subseteq hurt'
      /\ \A n \in Names \ hurt' : n \in DOMAIN users' <=> n \in DOMAIN users
  BY OwnSaves
<1>2. Same
  BY <1>1 DEF Same, SaveOwn
<1>3. CASE End(r)
  BY <1>1, <1>2, <1>3, EndIs, QuietMove
<1>4. ASSUME NEW at \in Stages, at \notin {"stat", "write", "account", "feed"}, Go(r, at)
      PROVE  Typed' /\ Quiet(r)
  <2> DEFINE q == [req[r] EXCEPT !.at = at]
  <2>1. /\ q \in Handling /\ q.at = at /\ q.op = req[r].op /\ q.u = req[r].u
        /\ q.x = req[r].x /\ req' = [req EXCEPT ![r] = q]
    BY <1>4, GoIs
  <2>2. Aside(q)
    BY <1>4, <2>1 DEF Aside
  <2> HIDE DEF q
  <2> QED BY <1>1, <1>2, <2>1, <2>2, QuietMove
<1> QED BY <1>3, <1>4

(* What the steps of the handlers read of the records is typed.            *)
LEMMA Facts ==
  ASSUME Typed
  PROVE  /\ \A n \in DOMAIN users : n \in Names /\ users[n] \in Record
         /\ \A n \in DOMAIN feeds : n \in Names /\ feeds[n] \in Record
         /\ \A r \in Requests : req[r] # Idle =>
              /\ req[r] \in Handling /\ req[r].u \in Names /\ req[r].x \in Names
              /\ req[r].arg \in Names /\ req[r].mine \in Record /\ req[r].theirs \in Record
         /\ Fresh({}) \in Record
<1>1. \A r \in Requests : req[r] # Idle => req[r] \in Handling
  BY HandlingIs
<1>2. \A q \in Handling : /\ q.u \in Names /\ q.x \in Names /\ q.arg \in Names
                          /\ q.mine \in Record /\ q.theirs \in Record
  BY DEF Handling
<1>3. users \in Database /\ feeds \in Database
  BY DEF Typed
<1> QED BY <1>1, <1>2, <1>3, DatabaseIs, FreshIs

LEMMA ArrivalsQuiet ==
  ASSUME Typed, NEW r \in Requests,
         \/ \E n \in Names : RegisterCheck(r, n)
         \/ \E u, x \in Names : FeedArrive(r, u, x)
         \/ FixArrive(r)
         \/ \E u, x \in Names : ArchiveArrive(r, u, x)
         \/ \E u, x \in Names : ManageArrive(r, u, x)
         \/ \E u, x, to \in Names : TransferArrive(r, u, x, to)
         \/ \E u, nick, x \in Names : FollowArrive(r, u, nick, x)
         \/ \E u, x \in Names : ImportArrive(r, u, x)
         \/ \E u, nick \in Names : UnfollowArrive(r, u, nick)
         \/ \E u \in Names : SettingsArrive(r, u)
         \/ \E u, x \in Names : PostArrive(r, u, x)
  PROVE  Typed' /\ Quiet(r)
<1> USE Facts, QuietArrival DEF Stages, Ops
<1>1. ASSUME NEW n \in Names, RegisterCheck(r, n) PROVE Typed' /\ Quiet(r)
  BY <1>1 DEF RegisterCheck
<1>2. ASSUME NEW u \in Names, NEW x \in Names, FeedArrive(r, u, x) PROVE Typed' /\ Quiet(r)
  BY <1>2 DEF FeedArrive
<1>3. CASE FixArrive(r)
  BY <1>3, AccountsAssumption DEF FixArrive
<1>4. ASSUME NEW u \in Names, NEW x \in Names, ArchiveArrive(r, u, x) PROVE Typed' /\ Quiet(r)
  BY <1>4 DEF ArchiveArrive
<1>5. ASSUME NEW u \in Names, NEW x \in Names, ManageArrive(r, u, x) PROVE Typed' /\ Quiet(r)
  BY <1>5 DEF ManageArrive
<1>6. ASSUME NEW u \in Names, NEW x \in Names, NEW to \in Names, TransferArrive(r, u, x, to)
      PROVE  Typed' /\ Quiet(r)
  BY <1>6 DEF TransferArrive
<1>7. ASSUME NEW u \in Names, NEW nick \in Names, NEW x \in Names, FollowArrive(r, u, nick, x)
      PROVE  Typed' /\ Quiet(r)
  BY <1>7 DEF FollowArrive
<1>8. ASSUME NEW u \in Names, NEW x \in Names, ImportArrive(r, u, x) PROVE Typed' /\ Quiet(r)
  BY <1>8 DEF ImportArrive
<1>9. ASSUME NEW u \in Names, NEW nick \in Names, UnfollowArrive(r, u, nick)
      PROVE  Typed' /\ Quiet(r)
  <2>1. users[u].following \in Nicks /\ nick \in DOMAIN users[u].following
    BY <1>9 DEF UnfollowArrive, Record
  <2>2. users[u].following[nick] \in Names
    BY <2>1, NicksAre
  <2> QED BY <1>9, <2>2 DEF UnfollowArrive
<1>10. ASSUME NEW u \in Names, SettingsArrive(r, u) PROVE Typed' /\ Quiet(r)
  BY <1>10 DEF SettingsArrive
<1>11. ASSUME NEW u \in Names, NEW x \in Names, PostArrive(r, u, x) PROVE Typed' /\ Quiet(r)
  BY <1>11 DEF PostArrive
<1> QED BY <1>1, <1>2, <1>3, <1>4, <1>5, <1>6, <1>7, <1>8, <1>9, <1>10, <1>11

LEMMA OwnStepsQuiet ==
  ASSUME Typed, NEW r \in Requests,
         \/ FeedSaveOwn(r) \/ ArchiveSaveOwn(r) \/ TransferFrom(r) \/ ImportSaveOwn(r)
         \/ UnfollowSaveOwn(r) \/ SettingsSaveOwn(r)
  PROVE  Typed' /\ Quiet(r)
<1> USE Facts DEF Stages
<1>1. req[r] # Idle /\ Aside(req[r]) /\ archived' \in SUBSET Names
  BY DEF FeedSaveOwn, ArchiveSaveOwn, TransferFrom, ImportSaveOwn, UnfollowSaveOwn,
         SettingsSaveOwn, At, Aside, Typed
<1>2. CASE FeedSaveOwn(r)
  BY <1>1, <1>2, OwnQuiet, RecordsMade DEF FeedSaveOwn
<1>3. CASE ArchiveSaveOwn(r)
  BY <1>1, <1>3, OwnQuiet, RecordsMade DEF ArchiveSaveOwn
<1>4. CASE TransferFrom(r)
  BY <1>1, <1>4, OwnQuiet, RecordsMade DEF TransferFrom
<1>5. CASE ImportSaveOwn(r)
  BY <1>1, <1>5, OwnQuiet, RecordsMade DEF ImportSaveOwn
<1>6. CASE UnfollowSaveOwn(r)
  BY <1>1, <1>6, OwnQuiet, RecordsMade DEF UnfollowSaveOwn
<1>7. CASE SettingsSaveOwn(r)
  BY <1>1, <1>7, OwnQuiet DEF SettingsSaveOwn
<1> QED BY <1>2, <1>3, <1>4, <1>5, <1>6, <1>7

(* Steps that save another record and end.                                 *)
LEMMA OtherUserQuiet ==
  ASSUME Typed, NEW r \in Requests, req[r] # Idle, req[r].op \notin {"register", "feed", "fix", "delete"},
         req[r].at \notin {"stat", "write"},
         NEW x \in Names, NEW rec \in Record, NEW read \in Record, NEW more \in SUBSET Names,
         users' = Put(users, x, rec), feeds' = feeds, hurt' = hurt \cup more,
         Met(users, x, read) \subseteq more,
         End(r), astray' \in SUBSET (Names \X Names), UNCHANGED <<files, left, restarts, archived>>
  PROVE  Typed' /\ Quiet(r)
<1>1. users \in Database /\ feeds \in Database /\ hurt \in SUBSET Names
  BY DEF Typed
<1>2. /\ Put(users, x, rec) \in Database
      /\ \A n \in Names \ Met(users, x, read) :
           n \in DOMAIN Put(users, x, rec) <=> n \in DOMAIN users
  BY <1>1, OtherSaves
<1>3. users' \in Database /\ hurt' \in SUBSET Names /\ Same
  BY <1>1, <1>2 DEF Same
<1>4. Aside(req[r])
  BY DEF Aside
<1> QED BY <1>1, <1>3, <1>4, EndIs, QuietMove DEF Typed

LEMMA OtherFeedQuiet ==
  ASSUME Typed, NEW r \in Requests, req[r] # Idle, req[r].op \notin {"register", "feed", "fix", "delete"},
         req[r].at \notin {"stat", "write"},
         NEW x \in Names, NEW rec \in Record, NEW read \in Record, NEW more \in SUBSET Names,
         feeds' = Put(feeds, x, rec), users' = users, hurt' = hurt \cup more,
         Met(feeds, x, read) \subseteq more,
         End(r), astray' \in SUBSET (Names \X Names), UNCHANGED <<files, left, restarts, archived>>
  PROVE  Typed' /\ Quiet(r)
<1>1. users \in Database /\ feeds \in Database /\ hurt \in SUBSET Names
  BY DEF Typed
<1>2. /\ Put(feeds, x, rec) \in Database
      /\ \A n \in Names \ Met(feeds, x, read) :
           n \in DOMAIN Put(feeds, x, rec) <=> n \in DOMAIN feeds
  BY <1>1, OtherSaves
<1>3. feeds' \in Database /\ hurt' \in SUBSET Names /\ Same
  BY <1>1, <1>2 DEF Same
<1>4. Aside(req[r])
  BY DEF Aside
<1> QED BY <1>1, <1>3, <1>4, EndIs, QuietMove DEF Typed

LEMMA OtherStepsQuiet ==
  ASSUME Typed, NEW r \in Requests,
         \/ ArchiveSaveFeed(r) \/ ManageSave(r) \/ TransferTo(r)
         \/ FixFollowersSave(r) \/ FollowList(r) \/ UnfollowList(r)
  PROVE  Typed' /\ Quiet(r)
<1> DEFINE q == req[r]
           userMet(x, read) == Met(users, x, read)
           feedMet(x, read) == Met(feeds, x, read)
<1>1. /\ q # Idle /\ q.at \notin {"stat", "write"}
      /\ q.op \notin {"register", "feed", "fix", "delete"}
  BY DEF ArchiveSaveFeed, ManageSave, TransferTo, FixFollowersSave, FollowList, UnfollowList, At
<1>2. q.u \in Names /\ q.x \in Names /\ q.arg \in Names /\ q.theirs \in Record /\ q.mine \in Record
  BY <1>1, Facts
<1>3. astray \in SUBSET (Names \X Names) /\ {<<q.u, q.x>>} \in SUBSET (Names \X Names)
  BY <1>2 DEF Typed
<1>4. \A x \in Names, read \in Record : userMet(x, read) \in SUBSET Names /\ feedMet(x, read) \in SUBSET Names
  BY MetIs DEF Typed
<1>5. /\ Unlisting(q.theirs, q.u) \in Record /\ Listing(q.theirs, q.u) \in Record
      /\ Owning(q.theirs, q.x) \in Record /\ Disowning(q.theirs, q.x) \in Record
  BY <1>2, RecordsMade
<1>6. CASE ArchiveSaveFeed(r)
  <2> DEFINE fixes == {req[o].x : o \in {p \in Requests : At(p, "fix", "own")}}
             rec == Unlisting(q.theirs, q.u)
             more == feedMet(q.x, q.theirs) \cup fixes
  <2>1. fixes \in SUBSET Names
    BY Facts DEF At
  <2>2. hurt' = hurt \cup more /\ feeds' = Put(feeds, q.x, rec)
    BY <1>6 DEF ArchiveSaveFeed
  <2>3. astray' \in SUBSET (Names \X Names)
    BY <1>3, <1>6 DEF ArchiveSaveFeed
  <2>4. more \in SUBSET Names /\ Met(feeds, q.x, q.theirs) \subseteq more /\ rec \in Record
    BY <1>2, <1>4, <1>5, <2>1
  <2>5. users' = users /\ End(r) /\ UNCHANGED <<files, left, restarts, archived>>
    BY <1>6 DEF ArchiveSaveFeed
  <2> HIDE DEF rec, more
  <2> QED BY <1>1, <1>2, <2>2, <2>3, <2>4, <2>5, OtherFeedQuiet
<1>7. CASE ManageSave(r)
  <2> DEFINE more == feedMet(q.x, q.theirs)
  <2>1. /\ hurt' = hurt \cup more /\ feeds' = Put(feeds, q.x, q.theirs) /\ users' = users
        /\ End(r) /\ UNCHANGED <<files, left, restarts, astray, archived>>
    BY <1>7 DEF ManageSave
  <2>2. more \in SUBSET Names /\ Met(feeds, q.x, q.theirs) \subseteq more
    BY <1>2, <1>4
  <2> HIDE DEF more
  <2> QED BY <1>1, <1>2, <1>3, <2>1, <2>2, OtherFeedQuiet
<1>8. CASE TransferTo(r)
  <2> DEFINE read == IF q.arg = q.u THEN Disowning(q.theirs, q.x) ELSE q.theirs
             rec == Owning(q.theirs, q.x)
             more == userMet(q.arg, read)
  <2>1. /\ hurt' = hurt \cup more /\ users' = Put(users, q.arg, rec) /\ feeds' = feeds
        /\ End(r) /\ UNCHANGED <<files, left, restarts, astray, archived>>
    BY <1>8 DEF TransferTo
  <2>2. read \in Record /\ rec \in Record
    BY <1>2, <1>5
  <2> HIDE DEF read, rec
  <2>3. more \in SUBSET Names /\ Met(users, q.arg, read) \subseteq more
    BY <1>2, <1>4, <2>2
  <2> HIDE DEF more
  <2> QED BY <1>1, <1>2, <1>3, <2>1, <2>2, <2>3, OtherUserQuiet
<1>9. CASE FixFollowersSave(r)
  <2>1. astray' \in SUBSET (Names \X Names)
    BY <1>2, <1>3, <1>9 DEF FixFollowersSave, Record
  <2>2. CASE At(r, "followers", "fixed")
    <3> DEFINE more == userMet(q.x, q.mine)
    <3>1. /\ hurt' = hurt \cup more /\ users' = Put(users, q.x, q.theirs) /\ feeds' = feeds
          /\ End(r) /\ UNCHANGED <<files, left, restarts, archived>>
      BY <1>9, <2>2 DEF FixFollowersSave, At
    <3>2. more \in SUBSET Names /\ Met(users, q.x, q.mine) \subseteq more
      BY <1>2, <1>4
    <3> HIDE DEF more
    <3> QED BY <1>1, <1>2, <2>1, <3>1, <3>2, OtherUserQuiet
  <2>3. CASE At(r, "followers", "fixedFeed")
    <3> DEFINE more == feedMet(q.x, q.mine)
    <3>1. /\ hurt' = hurt \cup more /\ feeds' = Put(feeds, q.x, q.theirs) /\ users' = users
          /\ End(r) /\ UNCHANGED <<files, left, restarts, archived>>
      BY <1>9, <2>3 DEF FixFollowersSave, At
    <3>2. more \in SUBSET Names /\ Met(feeds, q.x, q.mine) \subseteq more
      BY <1>2, <1>4
    <3> HIDE DEF more
    <3> QED BY <1>1, <1>2, <2>1, <3>1, <3>2, OtherFeedQuiet
  <2> QED BY <1>9, <2>2, <2>3 DEF FixFollowersSave
<1>10. CASE FollowList(r)
  <2> DEFINE rec == Listing(q.theirs, q.u)
  <2>1. CASE At(r, "follow", "list")
    <3> DEFINE more == userMet(q.x, q.theirs)
    <3>1. /\ hurt' = hurt \cup more /\ users' = Put(users, q.x, rec) /\ feeds' = feeds
          /\ End(r) /\ UNCHANGED <<files, left, restarts, astray, archived>>
      BY <1>10, <2>1 DEF FollowList, At
    <3>2. more \in SUBSET Names /\ Met(users, q.x, q.theirs) \subseteq more /\ rec \in Record
      BY <1>2, <1>4, <1>5
    <3> HIDE DEF more, rec
    <3> QED BY <1>1, <1>2, <1>3, <3>1, <3>2, OtherUserQuiet
  <2>2. CASE At(r, "follow", "listFeed")
    <3> DEFINE more == feedMet(q.x, q.theirs)
    <3>1. /\ hurt' = hurt \cup more /\ feeds' = Put(feeds, q.x, rec) /\ users' = users
          /\ End(r) /\ UNCHANGED <<files, left, restarts, astray, archived>>
      BY <1>10, <2>2 DEF FollowList, At
    <3>2. more \in SUBSET Names /\ Met(feeds, q.x, q.theirs) \subseteq more /\ rec \in Record
      BY <1>2, <1>4, <1>5
    <3> HIDE DEF more, rec
    <3> QED BY <1>1, <1>2, <1>3, <3>1, <3>2, OtherFeedQuiet
  <2> QED BY <1>10, <2>1, <2>2 DEF FollowList
<1>11. CASE UnfollowList(r)
  <2> DEFINE rec == Unlisting(q.theirs, q.u)
             more == userMet(q.x, q.theirs)
  <2>1. /\ hurt' = hurt \cup more /\ users' = Put(users, q.x, rec) /\ feeds' = feeds
        /\ End(r) /\ UNCHANGED <<files, left, restarts, archived>>
    BY <1>11 DEF UnfollowList
  <2>2. astray' \in SUBSET (Names \X Names)
    BY <1>3, <1>11 DEF UnfollowList
  <2>3. more \in SUBSET Names /\ Met(users, q.x, q.theirs) \subseteq more /\ rec \in Record
    BY <1>2, <1>4, <1>5
  <2> HIDE DEF more, rec
  <2> QED BY <1>1, <1>2, <2>1, <2>2, <2>3, OtherUserQuiet
<1> QED BY <1>6, <1>7, <1>8, <1>9, <1>10, <1>11

(* Steps of a follow, an unfollow, a post or of FixFollowers that read.    *)
LEMMA ReadingsQuiet ==
  ASSUME Typed, NEW r \in Requests,
         \/ FollowSaveOwn(r) \/ FollowLoad(r) \/ UnfollowLoad(r) \/ PostAppend(r)
         \/ \E x \in DOMAIN users : FixFollowersArrive(r, x, "fixed", users[x])
         \/ \E x \in DOMAIN feeds : FixFollowersArrive(r, x, "fixedFeed", feeds[x])
  PROVE  Typed' /\ Quiet(r)
<1>1. CASE FollowSaveOwn(r)
  <2>1. req[r] # Idle /\ Aside(req[r]) /\ archived' \in SUBSET Names
    BY <1>1 DEF FollowSaveOwn, At, Aside, Typed
  <2>2. Following(req[r].mine, req[r].arg, req[r].x) \in Record /\ "load" \in Stages
    BY <2>1, Facts, RecordsMade DEF Stages
  <2>3. CASE End(r) /\ UNCHANGED <<users, feeds, files, left, restarts, hurt, astray>>
    <3>1. Same
      BY <2>3 DEF Same
    <3> QED BY <2>1, <2>3, <3>1, EndIs, QuietMove DEF Typed
  <2> QED BY <1>1, <2>1, <2>2, <2>3, OwnQuiet DEF FollowSaveOwn
<1>2. CASE PostAppend(r)
  <2>1. req[r] # Idle /\ Aside(req[r])
    BY <1>2 DEF PostAppend, At, Aside
  <2>2. Same /\ hurt' \in SUBSET Names /\ files' \in SUBSET Names
    BY <1>2, <2>1, Facts DEF PostAppend, Same, Typed
  <2> QED BY <1>2, <2>1, <2>2, EndIs, QuietMove DEF PostAppend, Typed
<1>3. CASE FollowLoad(r) \/ UnfollowLoad(r)
  <2>1. req[r] # Idle /\ Aside(req[r]) /\ req[r].op \in {"follow", "unfollow"}
    BY <1>3 DEF FollowLoad, UnfollowLoad, At, Aside
  <2>2. /\ Same /\ astray' \in SUBSET (Names \X Names)
        /\ UNCHANGED <<users, feeds, files, left, restarts, hurt, archived>>
    BY <1>3, <2>1, Facts DEF FollowLoad, UnfollowLoad, Same, Typed
  <2>3. CASE End(r)
    BY <2>1, <2>2, <2>3, EndIs, QuietMove DEF Typed
  <2>4. ASSUME NEW at \in {"list", "listFeed"}, NEW rec \in Record,
               req' = [req EXCEPT ![r].at = at, ![r].theirs = rec]
        PROVE  Typed' /\ Quiet(r)
    <3> DEFINE q == [req[r] EXCEPT !.at = at, !.theirs = rec]
    <3>1. q \in Handling /\ q.op = req[r].op /\ q.at = at
      BY <2>1, <2>4, Facts DEF Handling, Stages
    <3>2. req' = [req EXCEPT ![r] = q]
      BY <2>4
    <3> HIDE DEF q
    <3>3. Aside(q)
      BY <2>1, <3>1 DEF Aside
    <3> QED BY <2>1, <2>2, <3>1, <3>2, <3>3, QuietMove DEF Typed
  <2> QED BY <1>3, <2>3, <2>4, Facts DEF FollowLoad, UnfollowLoad
<1>4. ASSUME NEW x \in Names, NEW at \in {"fixed", "fixedFeed"}, NEW rec \in Record,
             FixFollowersArrive(r, x, at, rec)
      PROVE  Typed' /\ Quiet(r)
  <2> DEFINE more == {u \in DOMAIN users : Follows(users[u], x)}
             theirs == [rec EXCEPT !.followers = @ \cup more]
             q == [op |-> "followers", at |-> at, u |-> x, x |-> x, arg |-> x,
                   mine |-> rec, theirs |-> theirs]
  <2>1. more \subseteq Names
    BY Facts
  <2> HIDE DEF more
  <2>2. theirs \in Record
    BY <2>1 DEF Record
  <2> HIDE DEF theirs
  <2>3. q \in Handling /\ Aside(q)
    BY <1>4, <2>2 DEF Handling, Ops, Stages, Aside
  <2>4. req' = [req EXCEPT ![r] = q]
    BY <1>4 DEF FixFollowersArrive, more, theirs
  <2> HIDE DEF q
  <2>5. left' \in 0..MaxRequests /\ Aside(req[r]) /\ Same
    BY <1>4, AccountsAssumption DEF FixFollowersArrive, Typed, Aside, Same
  <2> QED BY <1>4, <2>3, <2>4, <2>5, QuietMove DEF FixFollowersArrive, Typed
<1> QED BY <1>1, <1>2, <1>3, <1>4, Facts

-----------------------------------------------------------------------------
(* Names                                                                   *)

Good(n) == Held(n) /\ Made(n) /\ GivenUp(n)

SetsSame(n) ==
  /\ Making(n)' = Making(n) /\ Fixing(n)' = Fixing(n) /\ Emptying(n)' = Emptying(n)
  /\ Closing(n)' = Closing(n) /\ Deleting(n)' = Deleting(n) /\ Listed(n)' \subseteq Listed(n)

LEMMA GoodStays ==
  ASSUME NEW n \in Names, Good(n), SetsSame(n), n \in DOMAIN users' <=> n \in DOMAIN users,
         n \in DOMAIN feeds' <=> n \in DOMAIN feeds, n \in files' <=> n \in files
  PROVE  Good(n)'
<1>1. Held(n)'
  BY DEF Good, SetsSame, Held
<1>2. Made(n)'
  BY DEF Good, SetsSame, Made
<1>3. GivenUp(n)'
  BY DEF Good, SetsSame, GivenUp
<1> QED BY <1>1, <1>2, <1>3 DEF Good

(* A step of one request moves no other in or out of these sets.           *)
LEMMA OthersSame ==
  ASSUME Typed, NEW r \in Requests, NEW q \in Handling \cup {Idle}, req' = [req EXCEPT ![r] = q],
         NEW n
  PROVE  /\ Making(n)' \ {r} = Making(n) \ {r} /\ Fixing(n)' \ {r} = Fixing(n) \ {r}
         /\ Emptying(n)' \ {r} = Emptying(n) \ {r} /\ Closing(n)' \ {r} = Closing(n) \ {r}
         /\ Deleting(n)' \ {r} = Deleting(n) \ {r} /\ Listed(n)' \ {r} = Listed(n) \ {r}
<1>1. \A s \in Requests \ {r} : req'[s] = req[s]
  BY Moves
<1> QED BY <1>1 DEF Making, Fixing, Emptying, Closing, Deleting, Listed, At

(* What puts a request into one of them.                                   *)
Makes(q, n) == /\ q # Idle /\ q.x = n
               /\ \/ q.op = "register" /\ q.at = "account"
                  \/ q.op = "feed" /\ q.at = "feed"
Fixes(q, n) == q # Idle /\ q.op = "fix" /\ q.at = "feed" /\ q.x = n
Empties(q, n) == q # Idle /\ q.op = "delete" /\ q.at = "file" /\ q.x = n
Closes(q, n) == q # Idle /\ q.op = "delete" /\ q.at = "account" /\ q.u = n
Deletes(q, n) == q # Idle /\ q.op = "delete" /\ q.u = n
Lists(q, n) == q # Idle /\ q.op = "delete" /\ n \in q.theirs.feeds

LEMMA Whose ==
  ASSUME NEW r \in Requests, NEW n
  PROVE  /\ r \in Making(n) <=> Makes(req[r], n)
         /\ r \in Fixing(n) <=> Fixes(req[r], n)
         /\ r \in Emptying(n) <=> Empties(req[r], n)
         /\ r \in Closing(n) <=> Closes(req[r], n)
         /\ r \in Deleting(n) <=> Deletes(req[r], n)
         /\ r \in Listed(n) <=> Lists(req[r], n)
BY DEF Making, Fixing, Emptying, Closing, Deleting, Listed, At,
       Makes, Fixes, Empties, Closes, Deletes, Lists

LEMMA AsideIs ==
  ASSUME NEW r \in Requests, Aside(req[r]), NEW n
  PROVE  r \notin ((Making(n) \cup Fixing(n)) \cup (Emptying(n) \cup Closing(n)))
                    \cup (Deleting(n) \cup Listed(n))
BY DEF Aside, Making, Fixing, Emptying, Closing, Deleting, Listed, At

LEMMA StagedStays ==
  ASSUME Typed, NEW r \in Requests, NEW q \in Handling \cup {Idle}, req' = [req EXCEPT ![r] = q],
         \A s \in Requests : req[s] = Idle \/ Staged(s),
         q = Idle \/ /\ q.at \in {"stat", "write"} => q.op \in {"register", "feed"}
                     /\ q.op = "register" => q.x = q.u
                     /\ q.op = "delete" /\ q.at = "file" =>
                          IF q.theirs.feeds = {} THEN q.x = q.u ELSE q.x \in q.theirs.feeds
  PROVE  \A s \in Requests : req'[s] = Idle \/ Staged(s)'
<1>1. req'[r] = q /\ \A s \in Requests \ {r} : req'[s] = req[s]
  BY Moves
<1> QED BY <1>1 DEF Staged, At

LEMMA QuietKeeps ==
  ASSUME Typed, NamesInv, NEW r \in Requests, Quiet(r)
  PROVE  NamesInv'
<1>1. PICK q \in Handling \cup {Idle} : Aside(q) /\ req' = [req EXCEPT ![r] = q]
  BY DEF Quiet
<1>2. req'[r] = q /\ Aside(req[r]) /\ Aside(req'[r])
  BY <1>1, Moves DEF Quiet
<1>3. \A s \in Requests : req'[s] = Idle \/ Staged(s)'
  BY <1>1, StagedStays DEF NamesInv, Aside
<1>4. ASSUME NEW n \in Names \ hurt'
      PROVE  Good(n)'
  <2>1. r \notin ((Making(n) \cup Fixing(n)) \cup (Emptying(n) \cup Closing(n)))
                   \cup (Deleting(n) \cup Listed(n))
    BY <1>2, AsideIs
  <2>2. r \notin ((Making(n)' \cup Fixing(n)') \cup (Emptying(n)' \cup Closing(n)'))
                   \cup (Deleting(n)' \cup Listed(n)')
    BY <1>2 DEF Aside, Making, Fixing, Emptying, Closing, Deleting, Listed, At
  <2>3. SetsSame(n)
    <3>1. /\ Making(n)' \ {r} = Making(n) \ {r} /\ Fixing(n)' \ {r} = Fixing(n) \ {r}
          /\ Emptying(n)' \ {r} = Emptying(n) \ {r} /\ Closing(n)' \ {r} = Closing(n) \ {r}
          /\ Deleting(n)' \ {r} = Deleting(n) \ {r} /\ Listed(n)' \ {r} = Listed(n) \ {r}
      BY <1>1, OthersSame
    <3> QED BY <2>1, <2>2, <3>1 DEF SetsSame
  <2>4. Good(n)
    BY <1>4 DEF Quiet, Same, NamesInv, Good
  <2> QED BY <1>4, <2>3, <2>4, GoodStays DEF Quiet, Same
<1> QED BY <1>3, <1>4 DEF NamesInv, Good

(* Where the request goes, the sets follow.                                *)
LEMMA SetsMove ==
  ASSUME Typed, NEW r \in Requests, NEW q \in Handling \cup {Idle}, req' = [req EXCEPT ![r] = q],
         NEW n
  PROVE  /\ Making(n)' = IF Makes(q, n) THEN Making(n) \cup {r} ELSE Making(n) \ {r}
         /\ Fixing(n)' = IF Fixes(q, n) THEN Fixing(n) \cup {r} ELSE Fixing(n) \ {r}
         /\ Emptying(n)' = IF Empties(q, n) THEN Emptying(n) \cup {r} ELSE Emptying(n) \ {r}
         /\ Closing(n)' = IF Closes(q, n) THEN Closing(n) \cup {r} ELSE Closing(n) \ {r}
         /\ Deleting(n)' = IF Deletes(q, n) THEN Deleting(n) \cup {r} ELSE Deleting(n) \ {r}
         /\ Listed(n)' = IF Lists(q, n) THEN Listed(n) \cup {r} ELSE Listed(n) \ {r}
<1>1. /\ Making(n)' \ {r} = Making(n) \ {r} /\ Fixing(n)' \ {r} = Fixing(n) \ {r}
      /\ Emptying(n)' \ {r} = Emptying(n) \ {r} /\ Closing(n)' \ {r} = Closing(n) \ {r}
      /\ Deleting(n)' \ {r} = Deleting(n) \ {r} /\ Listed(n)' \ {r} = Listed(n) \ {r}
  BY OthersSame
<1>2. req'[r] = q
  BY Moves
<1>3. /\ r \in Making(n)' <=> Makes(q, n)
      /\ r \in Fixing(n)' <=> Fixes(q, n)
      /\ r \in Emptying(n)' <=> Empties(q, n)
      /\ r \in Closing(n)' <=> Closes(q, n)
      /\ r \in Deleting(n)' <=> Deletes(q, n)
      /\ r \in Listed(n)' <=> Lists(q, n)
  BY <1>2 DEF Making, Fixing, Emptying, Closing, Deleting, Listed, At,
              Makes, Fixes, Empties, Closes, Deletes, Lists
<1> QED BY <1>1, <1>3

LEMMA SetsLeft ==
  ASSUME Typed, NEW r \in Requests, NEW q \in Handling \cup {Idle}, req' = [req EXCEPT ![r] = q],
         NEW n, ~Makes(q, n), ~Fixes(q, n), ~Empties(q, n), ~Closes(q, n), ~Deletes(q, n), ~Lists(q, n)
  PROVE  /\ Making(n)' = Making(n) \ {r} /\ Fixing(n)' = Fixing(n) \ {r}
         /\ Emptying(n)' = Emptying(n) \ {r} /\ Closing(n)' = Closing(n) \ {r}
         /\ Deleting(n)' = Deleting(n) \ {r} /\ Listed(n)' = Listed(n) \ {r}
<1>1. /\ Making(n)' \ {r} = Making(n) \ {r} /\ Fixing(n)' \ {r} = Fixing(n) \ {r}
      /\ Emptying(n)' \ {r} = Emptying(n) \ {r} /\ Closing(n)' \ {r} = Closing(n) \ {r}
      /\ Deleting(n)' \ {r} = Deleting(n) \ {r} /\ Listed(n)' \ {r} = Listed(n) \ {r}
  BY OthersSame
<1>2. req'[r] = q
  BY Moves
<1>3. /\ r \notin Making(n)' /\ r \notin Fixing(n)' /\ r \notin Emptying(n)'
      /\ r \notin Closing(n)' /\ r \notin Deleting(n)' /\ r \notin Listed(n)'
  BY <1>2 DEF Making, Fixing, Emptying, Closing, Deleting, Listed, At,
              Makes, Fixes, Empties, Closes, Deletes, Lists
<1> QED BY <1>1, <1>3

LEMMA SetsEnd ==
  ASSUME Typed, NEW r \in Requests, req' = [req EXCEPT ![r] = Idle], NEW n
  PROVE  /\ Making(n)' = Making(n) \ {r} /\ Fixing(n)' = Fixing(n) \ {r}
         /\ Emptying(n)' = Emptying(n) \ {r} /\ Closing(n)' = Closing(n) \ {r}
         /\ Deleting(n)' = Deleting(n) \ {r} /\ Listed(n)' = Listed(n) \ {r}
<1>1. /\ ~Makes(Idle, n) /\ ~Fixes(Idle, n) /\ ~Empties(Idle, n) /\ ~Closes(Idle, n)
      /\ ~Deletes(Idle, n) /\ ~Lists(Idle, n)
  BY DEF Makes, Fixes, Empties, Closes, Deletes, Lists
<1>2. Idle \in Handling \cup {Idle}
  OBVIOUS
<1> QED BY <1>1, <1>2, SetsLeft

(* A file is written for a name that has none: nobody else makes it.       *)
LEMMA WriteFileKeeps ==
  ASSUME Typed, NamesInv, NEW r \in Requests, WriteFile(r)
  PROVE  Typed' /\ NamesInv'
<1> DEFINE x == req[r].x
           to == IF req[r].op = "register" THEN "account" ELSE "feed"
           q == [req[r] EXCEPT !.at = to]
<1>1. /\ req[r] # Idle /\ req[r].at = "write" /\ req[r].op \in {"register", "feed"}
      /\ req[r].op = "register" => req[r].x = req[r].u
  BY DEF WriteFile, NamesInv, Staged, Idle
<1>2. /\ q \in Handling /\ q.at = to /\ q.op = req[r].op /\ q.u = req[r].u /\ q.x = req[r].x
      /\ req' = [req EXCEPT ![r] = q]
  <2>1. to \in Stages /\ Go(r, to)
    BY DEF Stages, WriteFile
  <2> HIDE DEF to
  <2> QED BY <1>1, <2>1, GoIs
<1>3. q # Idle /\ x \in Names
  BY <1>1, <1>2, NotIdle, Facts
<1> HIDE DEF q
<1>4. /\ files' = files \cup {x} /\ hurt \subseteq hurt'
      /\ x \in files => x \in hurt'
      /\ UNCHANGED <<users, feeds, left, restarts, astray, archived>>
      /\ hurt' \in SUBSET Names
  BY <1>3 DEF WriteFile, Typed
<1>5. Typed'
  <2>1. req' \in Working
    BY <1>2, Moves
  <2> QED BY <1>3, <1>4, <2>1 DEF Typed
<1>6. \A s \in Requests : req'[s] = Idle \/ Staged(s)'
  BY <1>1, <1>2, StagedStays DEF NamesInv
<1>7. ASSUME NEW n \in Names \ hurt'
      PROVE  Good(n)'
  <2>1. Good(n)
    BY <1>4, <1>7 DEF NamesInv, Good
  <2>2. /\ Making(n)' = IF n = x THEN Making(n) \cup {r} ELSE Making(n) \ {r}
        /\ Fixing(n)' = Fixing(n) \ {r}
        /\ Emptying(n)' = Emptying(n) \ {r} /\ Closing(n)' = Closing(n) \ {r}
        /\ Deleting(n)' = Deleting(n) \ {r} /\ Listed(n)' = Listed(n) \ {r}
    <3>1. Makes(q, n) <=> n = x
      BY <1>1, <1>2, <1>3 DEF Makes
    <3>2. /\ ~Fixes(q, n) /\ ~Empties(q, n) /\ ~Closes(q, n) /\ ~Deletes(q, n) /\ ~Lists(q, n)
      BY <1>1, <1>2 DEF Fixes, Empties, Closes, Deletes, Lists
    <3> QED BY <1>2, <3>1, <3>2, SetsMove
  <2>3. /\ r \notin Making(n) /\ r \notin Fixing(n) /\ r \notin Emptying(n) /\ r \notin Closing(n)
        /\ r \notin Deleting(n) /\ r \notin Listed(n)
    BY <1>1, Whose DEF Makes, Fixes, Empties, Closes, Deletes, Lists
  <2>4. CASE n # x
    <3>1. SetsSame(n)
      BY <2>2, <2>3, <2>4 DEF SetsSame
    <3> QED BY <1>4, <2>1, <2>4, <3>1, GoodStays
  <2>5. CASE n = x
    <3>1. /\ Making(n)' = Making(n) \cup {r} /\ Fixing(n)' = Fixing(n)
          /\ Emptying(n)' = Emptying(n) /\ Closing(n)' = Closing(n)
          /\ Deleting(n)' = Deleting(n) /\ Listed(n)' = Listed(n)
      BY <2>2, <2>3, <2>5
    <3>2. n \notin files /\ n \in files'
      BY <1>4, <1>7, <2>5
    <3>3. n \notin DOMAIN feeds /\ Making(n) = {} /\ Emptying(n) = {}
      BY <2>1, <3>2 DEF Good, Held, Made, GivenUp
    <3>4. Held(n)'
      BY <1>4, <2>1, <3>1, <3>2, <3>3 DEF Good, Held
    <3>5. Made(n)'
      BY <1>4, <2>1, <3>1, <3>2, <3>3 DEF Good, Held, Made
    <3>6. GivenUp(n)'
      BY <1>4, <2>1, <3>1, <3>2, <3>3 DEF Good, GivenUp
    <3> QED BY <3>4, <3>5, <3>6 DEF Good
  <2> QED BY <2>4, <2>5
<1> QED BY <1>5, <1>6, <1>7 DEF NamesInv, Good

(* A request that has taken one of two steps has not finished with the name. *)
LEMMA BusyHalfway ==
  ASSUME NEW n, NEW r \in (Making(n) \cup Fixing(n)) \cup (Emptying(n) \cup Closing(n))
  PROVE  n \in Halfway(r)
BY DEF Making, Fixing, Emptying, Closing, Halfway, At

(* What no other deletion is to delete, no other deletion has listed.      *)
LEMMA NotDoomed ==
  ASSUME NEW r \in Requests, NEW n, n \notin Doomed(r)
  PROVE  Deleting(n) \cup Listed(n) \subseteq {r}
BY DEF Doomed, Deleting, Listed

LEMMA ClosingDeletes ==
  ASSUME NEW n
  PROVE  Closing(n) \subseteq Deleting(n)
BY DEF Closing, Deleting, At

LEMMA RegisterSaveKeeps ==
  ASSUME Typed, NamesInv, NEW r \in Requests, RegisterSave(r)
  PROVE  Typed' /\ NamesInv'
<1> DEFINE x == req[r].u
<1>1. /\ req[r] # Idle /\ req[r].op = "register" /\ req[r].at = "account"
      /\ req[r].x = x /\ x \in Names
  BY Facts DEF RegisterSave, At, NamesInv, Staged
<1>2. Idle \in Handling \cup {Idle} /\ req' = [req EXCEPT ![r] = Idle]
  BY DEF RegisterSave, End
<1>3. users' \in Database /\ DOMAIN users' = DOMAIN users \cup {x}
  <2>1. Fresh({}) \in Record /\ users' = Put(users, x, Fresh({})) /\ users \in Database
    BY FreshIs DEF RegisterSave, Typed
  <2> QED BY <1>1, <2>1, PutRecord
<1>4. /\ hurt \subseteq hurt'
      /\ x \in DOMAIN users \cup DOMAIN feeds => x \in hurt'
      /\ x \notin files => x \in hurt'
      /\ hurt' \in SUBSET Names
  <2> DEFINE lost == UNION {users[n].feeds : n \in DOMAIN users \cap {x}}
  <2>1. lost \subseteq Names
    BY Facts DEF Record
  <2>2. hurt' = hurt \cup ((DOMAIN users \cup DOMAIN feeds) \cap {x}) \cup ({x} \ files) \cup lost
    BY DEF RegisterSave
  <2> HIDE DEF lost
  <2> QED BY <1>1, <2>1, <2>2 DEF Typed
<1>5. UNCHANGED <<feeds, files, left, restarts, astray, archived>>
  BY DEF RegisterSave
<1>6. Typed'
  <2>1. req' \in Working
    BY <1>2, Moves
  <2> QED BY <1>3, <1>4, <1>5, <2>1 DEF Typed
<1>7. \A s \in Requests : req'[s] = Idle \/ Staged(s)'
  BY <1>2, StagedStays DEF NamesInv
<1>8. ASSUME NEW n \in Names \ hurt'
      PROVE  Good(n)'
  <2>1. Good(n)
    BY <1>4, <1>8 DEF NamesInv, Good
  <2>2. /\ Making(n)' = Making(n) \ {r} /\ Fixing(n)' = Fixing(n) \ {r}
        /\ Emptying(n)' = Emptying(n) \ {r} /\ Closing(n)' = Closing(n) \ {r}
        /\ Deleting(n)' = Deleting(n) \ {r} /\ Listed(n)' = Listed(n) \ {r}
    BY <1>2, SetsEnd
  <2>3. /\ r \notin Fixing(n) /\ r \notin Emptying(n) /\ r \notin Closing(n)
        /\ r \notin Deleting(n) /\ r \notin Listed(n)
        /\ r \in Making(n) <=> n = x
    BY <1>1, Whose DEF Makes, Fixes, Empties, Closes, Deletes, Lists
  <2>4. CASE n # x
    <3>1. SetsSame(n)
      BY <2>2, <2>3, <2>4 DEF SetsSame
    <3> QED BY <1>3, <1>5, <2>1, <2>4, <3>1, GoodStays
  <2>5. CASE n = x
    <3>1. n \notin DOMAIN users /\ n \notin DOMAIN feeds /\ n \in files
      BY <1>4, <1>8, <2>5
    <3>2. Making(n) = {r} /\ Emptying(n) = {} /\ Deleting(n) = {} /\ Closing(n) = {}
      BY <2>1, <2>3, <2>5, <3>1, ClosingDeletes DEF Good, Made, GivenUp
    <3>3. Held(n)'
      BY <1>3, <1>5, <2>5, <3>1 DEF Held
    <3>4. Made(n)'
      BY <2>2, <3>2 DEF Made
    <3>5. GivenUp(n)'
      BY <1>5, <2>1, <2>2, <2>3, <3>2 DEF Good, GivenUp
    <3> QED BY <3>3, <3>4, <3>5 DEF Good
  <2> QED BY <2>4, <2>5
<1> QED BY <1>6, <1>7, <1>8 DEF NamesInv, Good

LEMMA FixFileKeeps ==
  ASSUME Typed, NamesInv, NEW r \in Requests, FixFile(r)
  PROVE  Typed' /\ NamesInv'
<1> DEFINE x == req[r].x
           q == [req[r] EXCEPT !.at = "feed"]
<1>1. req[r] # Idle /\ req[r].op = "fix" /\ req[r].at = "file" /\ x \in Names
  BY Facts DEF FixFile, At
<1>2. /\ q \in Handling /\ q.at = "feed" /\ q.op = "fix" /\ q.x = x
      /\ req' = [req EXCEPT ![r] = q]
  <2>1. "feed" \in Stages /\ Go(r, "feed")
    BY DEF Stages, FixFile
  <2> QED BY <1>1, <2>1, GoIs
<1>3. q # Idle
  BY <1>2, NotIdle
<1> HIDE DEF q
<1>4. /\ files' = files \cup {x}
      /\ UNCHANGED <<users, feeds, left, restarts, hurt, astray, archived>>
  BY DEF FixFile
<1>5. Typed'
  <2>1. req' \in Working
    BY <1>2, Moves
  <2> QED BY <1>1, <1>4, <2>1 DEF Typed
<1>6. \A s \in Requests : req'[s] = Idle \/ Staged(s)'
  BY <1>2, StagedStays DEF NamesInv
<1>7. ASSUME NEW n \in Names \ hurt'
      PROVE  Good(n)'
  <2>1. Good(n)
    BY <1>4, <1>7 DEF NamesInv, Good
  <2>2. /\ Making(n)' = Making(n) \ {r}
        /\ Fixing(n)' = IF n = x THEN Fixing(n) \cup {r} ELSE Fixing(n) \ {r}
        /\ Emptying(n)' = Emptying(n) \ {r} /\ Closing(n)' = Closing(n) \ {r}
        /\ Deleting(n)' = Deleting(n) \ {r} /\ Listed(n)' = Listed(n) \ {r}
    <3>1. /\ Fixes(q, n) <=> n = x
          /\ ~Makes(q, n) /\ ~Empties(q, n) /\ ~Closes(q, n) /\ ~Deletes(q, n) /\ ~Lists(q, n)
      BY <1>2, <1>3 DEF Makes, Fixes, Empties, Closes, Deletes, Lists
    <3> QED BY <1>2, <3>1, SetsMove
  <2>3. /\ r \notin Making(n) /\ r \notin Fixing(n) /\ r \notin Emptying(n) /\ r \notin Closing(n)
        /\ r \notin Deleting(n) /\ r \notin Listed(n)
    BY <1>1, Whose DEF Makes, Fixes, Empties, Closes, Deletes, Lists
  <2>4. CASE n # x
    <3>1. SetsSame(n)
      BY <2>2, <2>3, <2>4 DEF SetsSame
    <3> QED BY <1>4, <2>1, <2>4, <3>1, GoodStays
  <2>5. CASE n = x
    <3>1. n \in files' /\ r \in Fixing(n)'
      BY <1>4, <2>2, <2>5
    <3>2. Held(n)'
      BY <1>4, <2>1, <3>1 DEF Good, Held
    <3>3. Made(n)'
      BY <1>4, <2>1, <2>2, <2>3, <3>1 DEF Good, Made
    <3>4. GivenUp(n)'
      BY <1>4, <2>1, <2>2, <2>3, <3>1 DEF Good, GivenUp
    <3> QED BY <3>2, <3>3, <3>4 DEF Good
  <2> QED BY <2>4, <2>5
<1> QED BY <1>5, <1>6, <1>7 DEF NamesInv, Good

LEMMA FeedSaveKeeps ==
  ASSUME Typed, NamesInv, NEW r \in Requests, FeedSave(r)
  PROVE  Typed' /\ NamesInv'
<1> DEFINE x == req[r].x
           q == [req[r] EXCEPT !.at = "own"]
<1>1. /\ req[r] # Idle /\ req[r].op \in {"feed", "fix"} /\ req[r].at = "feed"
      /\ x \in Names /\ req[r].u \in Names
  BY Facts DEF FeedSave, At
<1>2. /\ q \in Handling /\ q.at = "own" /\ q.op = req[r].op /\ q.x = x
      /\ req' = [req EXCEPT ![r] = q]
  <2>1. "own" \in Stages /\ Go(r, "own")
    BY DEF Stages, FeedSave
  <2> QED BY <1>1, <2>1, GoIs
<1> HIDE DEF q
<1>3. feeds' \in Database /\ DOMAIN feeds' = DOMAIN feeds \cup {x}
  <2>1. /\ Fresh({req[r].u}) \in Record /\ feeds' = Put(feeds, x, Fresh({req[r].u}))
        /\ feeds \in Database
    BY <1>1, FreshIs DEF FeedSave, Typed
  <2> QED BY <1>1, <2>1, PutRecord
<1>4. /\ hurt \subseteq hurt' /\ hurt' \subseteq hurt \cup {x}
      /\ x \in DOMAIN users => x \in hurt'
      /\ x \notin files => x \in hurt'
      /\ x \in OthersWith(r) => x \in hurt'
  BY DEF FeedSave
<1>5. UNCHANGED <<users, files, left, restarts, archived>>
  BY DEF FeedSave
<1>6. Typed'
  <2>1. req' \in Working
    BY <1>2, Moves
  <2>2. astray' \in SUBSET (Names \X Names)
    BY <1>1 DEF FeedSave, Typed
  <2> QED BY <1>1, <1>3, <1>4, <1>5, <2>1, <2>2 DEF Typed
<1>7. \A s \in Requests : req'[s] = Idle \/ Staged(s)'
  BY <1>1, <1>2, StagedStays DEF NamesInv
<1>8. ASSUME NEW n \in Names \ hurt'
      PROVE  Good(n)'
  <2>1. Good(n)
    BY <1>4, <1>8 DEF NamesInv, Good
  <2>2. /\ Making(n)' = Making(n) \ {r} /\ Fixing(n)' = Fixing(n) \ {r}
        /\ Emptying(n)' = Emptying(n) \ {r} /\ Closing(n)' = Closing(n) \ {r}
        /\ Deleting(n)' = Deleting(n) \ {r} /\ Listed(n)' = Listed(n) \ {r}
    <3>1. /\ ~Makes(q, n) /\ ~Fixes(q, n) /\ ~Empties(q, n) /\ ~Closes(q, n)
          /\ ~Deletes(q, n) /\ ~Lists(q, n)
      BY <1>1, <1>2 DEF Makes, Fixes, Empties, Closes, Deletes, Lists
    <3> QED BY <1>2, <3>1, SetsLeft
  <2>3. /\ n # x => r \notin Making(n) /\ r \notin Fixing(n)
        /\ r \notin Emptying(n) /\ r \notin Closing(n)
        /\ r \notin Deleting(n) /\ r \notin Listed(n)
    BY <1>1, Whose DEF Makes, Fixes, Empties, Closes, Deletes, Lists
  <2>4. CASE n # x
    <3>1. SetsSame(n)
      BY <2>2, <2>3, <2>4 DEF SetsSame
    <3> QED BY <1>3, <1>5, <2>1, <2>4, <3>1, GoodStays
  <2>5. CASE n = x
    <3>1. n \notin DOMAIN users /\ n \in files /\ n \in DOMAIN feeds'
      BY <1>3, <1>4, <1>8, <2>5
    <3>2. (Making(n) \cup Fixing(n)) \cup (Emptying(n) \cup Closing(n)) \subseteq {r}
      <4> SUFFICES ASSUME NEW o \in (Making(n) \cup Fixing(n)) \cup (Emptying(n) \cup Closing(n)),
                          o # r
                   PROVE  FALSE
        OBVIOUS
      <4>1. n \in Halfway(o) /\ o \in Requests \ {r}
        BY BusyHalfway DEF Making, Fixing, Emptying, Closing
      <4> QED BY <1>4, <1>8, <2>5, <4>1 DEF OthersWith
    <3>3. /\ Making(n)' = {} /\ Fixing(n)' = {} /\ Emptying(n)' = {} /\ Closing(n)' = {}
          /\ Deleting(n)' = {}
      BY <2>1, <2>2, <3>1, <3>2 DEF Good, GivenUp
    <3>4. Held(n)'
      BY <1>5, <3>1 DEF Held
    <3>5. Made(n)' /\ GivenUp(n)'
      BY <3>1, <3>3 DEF Made, GivenUp
    <3> QED BY <3>4, <3>5 DEF Good
  <2> QED BY <2>4, <2>5
<1> QED BY <1>6, <1>7, <1>8 DEF NamesInv, Good

LEMMA DeleteArriveKeeps ==
  ASSUME Typed, NamesInv, NEW r \in Requests, NEW u \in Names, DeleteArrive(r, u)
  PROVE  Typed' /\ NamesInv'
<1> DEFINE theirs == [Fresh({}) EXCEPT !.feeds = users[u].feeds \cap DOMAIN feeds]
<1>1. u \in DOMAIN users /\ req[r] = Idle
  BY DEF DeleteArrive, Load
<1>2. theirs \in Record /\ theirs.feeds \subseteq DOMAIN feeds
  BY <1>1, Facts DEF Record
<1>3. Load(r, "delete", "own", u, u, u, theirs) /\ hurt' \in SUBSET Names /\ hurt \subseteq hurt'
  BY <1>1, Facts DEF DeleteArrive, Record, Typed
<1> HIDE DEF theirs
<1>4. Typed' /\ \E q \in Handling : /\ q.op = "delete" /\ q.at = "own" /\ q.u = u /\ q.x = u
                                    /\ q.theirs = theirs /\ req' = [req EXCEPT ![r] = q]
  BY <1>2, <1>3, Arrives DEF Ops, Stages
<1>5. PICK q \in Handling : /\ q.op = "delete" /\ q.at = "own" /\ q.u = u
                            /\ q.theirs = theirs /\ req' = [req EXCEPT ![r] = q]
  BY <1>4
<1>6. q # Idle /\ UNCHANGED <<users, feeds, files>>
  BY <1>3, NotIdle DEF Load
<1>7. \A s \in Requests : req'[s] = Idle \/ Staged(s)'
  BY <1>5, StagedStays DEF NamesInv
<1>8. ASSUME NEW n \in Names \ hurt'
      PROVE  Good(n)'
  <2>1. Good(n)
    BY <1>3, <1>8 DEF NamesInv, Good
  <2>2. /\ Making(n)' = Making(n) \ {r} /\ Fixing(n)' = Fixing(n) \ {r}
        /\ Emptying(n)' = Emptying(n) \ {r} /\ Closing(n)' = Closing(n) \ {r}
        /\ Deleting(n)' = IF n = u THEN Deleting(n) \cup {r} ELSE Deleting(n) \ {r}
        /\ Listed(n)' = IF n \in theirs.feeds THEN Listed(n) \cup {r} ELSE Listed(n) \ {r}
    <3>1. /\ ~Makes(q, n) /\ ~Fixes(q, n) /\ ~Empties(q, n) /\ ~Closes(q, n)
          /\ Deletes(q, n) <=> n = u
          /\ Lists(q, n) <=> n \in theirs.feeds
      BY <1>5, <1>6 DEF Makes, Fixes, Empties, Closes, Deletes, Lists
    <3> QED BY <1>5, <3>1, SetsMove
  <2>3. /\ r \notin Making(n) /\ r \notin Fixing(n) /\ r \notin Emptying(n) /\ r \notin Closing(n)
        /\ r \notin Deleting(n) /\ r \notin Listed(n)
    BY <1>1, Whose DEF Makes, Fixes, Empties, Closes, Deletes, Lists
  <2>4. /\ Making(n)' = Making(n) /\ Fixing(n)' = Fixing(n) /\ Emptying(n)' = Emptying(n)
        /\ Closing(n)' = Closing(n)
    BY <2>2, <2>3
  <2>5. Held(n)'
    BY <1>6, <2>1, <2>4 DEF Good, Held
  <2>6. Made(n)'
    BY <1>6, <2>1, <2>4 DEF Good, Made
  <2>7. GivenUp(n)'
    BY <1>1, <1>2, <1>6, <2>1, <2>2, <2>4 DEF Good, GivenUp
  <2> QED BY <2>5, <2>6, <2>7 DEF Good
<1> QED BY <1>4, <1>7, <1>8 DEF NamesInv, Good

(* A deletion that gives up hurts what it leaves behind.                   *)
LEMMA GivesUp ==
  ASSUME Typed, NEW r \in Requests, NEW x \in Names, DeleteFeed(r, x), End(r)
  PROVE  /\ hurt' = hurt \cup {req[r].u} \cup req[r].mine.feeds
         /\ UNCHANGED <<users, feeds, files, left, restarts, astray, archived>>
<1>1. req' # [req EXCEPT ![r].at = "file", ![r].x = x]
  <2>1. req'[r] = Idle
    BY Moves DEF End
  <2>2. [req EXCEPT ![r].at = "file", ![r].x = x][r].at = "file"
    BY HandlingIs DEF DeleteFeed, At, Handling, Typed, Working
  <2> QED BY <2>1, <2>2 DEF Idle
<1> QED BY <1>1 DEF DeleteFeed

LEMMA DeleteStops ==
  ASSUME Typed, NamesInv, NEW r \in Requests, NEW x \in Names, DeleteFeed(r, x), End(r)
  PROVE  Typed' /\ NamesInv'
<1>1. /\ req[r] # Idle /\ req[r].op = "delete" /\ req[r].at \in {"own", "next"}
      /\ req[r].u \in Names /\ req[r].mine.feeds \subseteq Names
  BY Facts DEF DeleteFeed, At, Record
<1>2. Idle \in Handling \cup {Idle} /\ req' = [req EXCEPT ![r] = Idle]
  BY DEF End
<1>3. /\ hurt' = hurt \cup {req[r].u} \cup req[r].mine.feeds
      /\ UNCHANGED <<users, feeds, files, left, restarts, astray, archived>>
  BY GivesUp
<1>4. Typed'
  <2>1. req' \in Working
    BY <1>2, Moves
  <2> QED BY <1>1, <1>3, <2>1 DEF Typed
<1>5. \A s \in Requests : req'[s] = Idle \/ Staged(s)'
  BY <1>2, StagedStays DEF NamesInv
<1>6. ASSUME NEW n \in Names \ hurt'
      PROVE  Good(n)'
  <2>1. Good(n) /\ n # req[r].u
    BY <1>3, <1>6 DEF NamesInv, Good
  <2>2. /\ Making(n)' = Making(n) \ {r} /\ Fixing(n)' = Fixing(n) \ {r}
        /\ Emptying(n)' = Emptying(n) \ {r} /\ Closing(n)' = Closing(n) \ {r}
        /\ Deleting(n)' = Deleting(n) \ {r} /\ Listed(n)' = Listed(n) \ {r}
    BY <1>2, SetsEnd
  <2>3. /\ r \notin Making(n) /\ r \notin Fixing(n) /\ r \notin Emptying(n) /\ r \notin Closing(n)
        /\ r \notin Deleting(n)
    BY <1>1, <2>1, Whose DEF Makes, Fixes, Empties, Closes, Deletes
  <2>4. SetsSame(n)
    BY <2>2, <2>3 DEF SetsSame
  <2> QED BY <1>3, <2>1, <2>4, GoodStays
<1> QED BY <1>4, <1>5, <1>6 DEF NamesInv, Good

(* The feed goes, or the last of them all, and its file is to follow: it   *)
(* is there, and nobody else deletes it or makes it.                       *)
LEMMA DeleteGoesOn ==
  ASSUME Typed, NamesInv, NEW r \in Requests, NEW x \in Names, DeleteFeed(r, x), ~End(r)
  PROVE  Typed' /\ NamesInv'
<1> DEFINE q == [req[r] EXCEPT !.at = "file", !.x = x]
           u == req[r].u
           theirs == req[r].theirs
<1>1. /\ req[r] # Idle /\ req[r].op = "delete" /\ req[r].at \in {"own", "next"}
      /\ req[r] \in Handling
  BY HandlingIs DEF DeleteFeed, At
<1>2. /\ x \in files \/ (theirs.feeds # {} /\ x \notin DOMAIN feeds)
      /\ IF theirs.feeds = {} THEN x = u ELSE x \in theirs.feeds
      /\ feeds' = Without(feeds, x)
      /\ req' = [req EXCEPT ![r].at = "file", ![r].x = x]
      /\ hurt' = hurt \cup ({x} \cap Doomed(r))
      /\ astray' = astray \cup (Names \X {x})
      /\ UNCHANGED <<users, files, left, restarts, archived>>
  BY DEF DeleteFeed
<1>3. /\ q \in Handling /\ q.at = "file" /\ q.op = "delete" /\ q.u = u /\ q.x = x
      /\ q.theirs = theirs /\ req' = [req EXCEPT ![r] = q]
  BY <1>1, <1>2 DEF Handling, Stages
<1>4. q # Idle
  BY <1>3, NotIdle
<1> HIDE DEF q
<1>5. feeds' \in Database /\ DOMAIN feeds' = DOMAIN feeds \ {x}
  BY <1>2, WithoutRecord DEF Typed
<1>6. Typed'
  <2>1. req' \in Working
    BY <1>3, Moves
  <2>2. hurt' \in SUBSET Names /\ astray' \in SUBSET (Names \X Names)
    BY <1>2 DEF Typed
  <2> QED BY <1>2, <1>5, <2>1, <2>2 DEF Typed
<1>7. \A s \in Requests : req'[s] = Idle \/ Staged(s)'
  BY <1>2, <1>3, StagedStays DEF NamesInv
<1>8. ASSUME NEW n \in Names \ hurt'
      PROVE  Good(n)'
  <2>1. Good(n)
    BY <1>2, <1>8 DEF NamesInv, Good
  <2>2. /\ Making(n)' = Making(n) \ {r} /\ Fixing(n)' = Fixing(n) \ {r}
        /\ Emptying(n)' = IF n = x THEN Emptying(n) \cup {r} ELSE Emptying(n) \ {r}
        /\ Closing(n)' = Closing(n) \ {r}
        /\ Deleting(n)' = IF n = u THEN Deleting(n) \cup {r} ELSE Deleting(n) \ {r}
        /\ Listed(n)' = IF n \in theirs.feeds THEN Listed(n) \cup {r} ELSE Listed(n) \ {r}
    <3>1. /\ ~Makes(q, n) /\ ~Fixes(q, n) /\ ~Closes(q, n)
          /\ Empties(q, n) <=> n = x
          /\ Deletes(q, n) <=> n = u
          /\ Lists(q, n) <=> n \in theirs.feeds
      BY <1>3, <1>4 DEF Makes, Fixes, Empties, Closes, Deletes, Lists
    <3> QED BY <1>3, <3>1, SetsMove
  <2>3. /\ r \notin Making(n) /\ r \notin Fixing(n) /\ r \notin Emptying(n) /\ r \notin Closing(n)
        /\ r \in Deleting(n) <=> n = u
        /\ r \in Listed(n) <=> n \in theirs.feeds
    BY <1>1, Whose DEF Makes, Fixes, Empties, Closes, Deletes, Lists
  <2>4. CASE n # x
    <3>1. SetsSame(n)
      BY <2>2, <2>3, <2>4 DEF SetsSame
    <3> QED BY <1>2, <1>5, <2>1, <2>4, <3>1, GoodStays
  <2>5. CASE n = x
    <3>1. Deleting(n) \cup Listed(n) \subseteq {r}
      BY <1>2, <1>8, <2>5, NotDoomed
    <3>2. Closing(n) = {}
      BY <2>3, <3>1, ClosingDeletes
    <3>3. /\ n \in files /\ Emptying(n) = {} /\ Making(n) = {}
          /\ n \in DOMAIN users => n = u /\ theirs.feeds = {}
      <4>1. CASE n \in theirs.feeds
        <5>1. n \in DOMAIN feeds /\ n \in files /\ n \notin DOMAIN users
          BY <2>1, <2>3, <4>1 DEF Good, Held, GivenUp
        <5> QED BY <2>1, <5>1 DEF Good, Made, GivenUp
      <4>2. CASE theirs.feeds = {}
        <5> n = u
          BY <1>2, <2>5, <4>2
        <5>1. n \in DOMAIN users /\ n \in files
          BY <1>2, <2>1, <2>3, <2>5, <4>2 DEF Good, GivenUp
        <5>2. Making(n) = {}
          BY <2>1, <3>2, <5>1 DEF Good, Made
        <5>3. Emptying(n) = {}
          BY <2>1, <2>3, <3>1, <5>1 DEF Good, GivenUp
        <5> QED BY <4>2, <5>1, <5>2, <5>3
      <4> QED BY <1>2, <2>5, <4>1, <4>2
    <3>4. /\ Making(n)' = {} /\ Emptying(n)' = {r} /\ Closing(n)' = {}
          /\ Deleting(n)' = Deleting(n) /\ Listed(n)' \subseteq {r}
          /\ n \in DOMAIN users => r \in Deleting(n)' \ Listed(n)'
      BY <2>2, <2>3, <2>5, <3>1, <3>2, <3>3
    <3>5. n \notin DOMAIN feeds' /\ n \in files'
      BY <1>2, <1>5, <2>5, <3>3
    <3>6. Held(n)' /\ Made(n)'
      BY <3>4, <3>5 DEF Held, Made
    <3>7. GivenUp(n)'
      BY <1>2, <2>1, <3>3, <3>4, <3>5 DEF Good, GivenUp
    <3> QED BY <3>6, <3>7 DEF Good
  <2> QED BY <2>4, <2>5
<1> QED BY <1>6, <1>7, <1>8 DEF NamesInv, Good

LEMMA DeleteFileKeeps ==
  ASSUME Typed, NamesInv, NEW r \in Requests, DeleteFile(r)
  PROVE  Typed' /\ NamesInv'
<1> DEFINE x == req[r].x
           u == req[r].u
           to == IF req[r].theirs.feeds = {} THEN "account" ELSE "next"
           rest == [req[r].theirs EXCEPT !.feeds = @ \ {x}]
           q == [req[r] EXCEPT !.at = to, !.theirs = rest]
<1>1. /\ req[r] # Idle /\ req[r].op = "delete" /\ req[r].at = "file"
      /\ req[r] \in Handling /\ req[r].theirs \in Record /\ u \in Names /\ x \in Names
  BY Facts DEF DeleteFile, At
<1>2. /\ rest \in Record /\ rest.feeds = req[r].theirs.feeds \ {x} /\ to \in Stages
      /\ IF req[r].theirs.feeds = {} THEN x = u ELSE x \in req[r].theirs.feeds
  BY <1>1 DEF Record, Stages, NamesInv, Staged, At
<1>3. req' = [req EXCEPT ![r] = q]
  BY DEF DeleteFile
<1>4. /\ q \in Handling /\ q.at = to /\ q.op = "delete" /\ q.u = u /\ q.x = x
      /\ q.theirs.feeds = req[r].theirs.feeds \ {x}
  <2> HIDE DEF rest, to
  <2> QED BY <1>1, <1>2 DEF Handling
<1>5. q # Idle
  BY <1>4, NotIdle
<1> HIDE DEF q, rest
<1>6. /\ files' = files \ {x}
      /\ UNCHANGED <<users, feeds, left, restarts, hurt, astray, archived>>
  BY DEF DeleteFile
<1>7. Typed'
  <2>1. req' \in Working
    BY <1>3, <1>4, Moves
  <2> QED BY <1>6, <2>1 DEF Typed
<1>8. \A s \in Requests : req'[s] = Idle \/ Staged(s)'
  BY <1>3, <1>4, StagedStays DEF NamesInv
<1>9. ASSUME NEW n \in Names \ hurt'
      PROVE  Good(n)'
  <2>1. Good(n)
    BY <1>6, <1>9 DEF NamesInv, Good
  <2>2. /\ Making(n)' = Making(n) \ {r} /\ Fixing(n)' = Fixing(n) \ {r}
        /\ Emptying(n)' = Emptying(n) \ {r}
        /\ Closing(n)' = IF n = u /\ req[r].theirs.feeds = {} THEN Closing(n) \cup {r} ELSE Closing(n) \ {r}
        /\ Deleting(n)' = IF n = u THEN Deleting(n) \cup {r} ELSE Deleting(n) \ {r}
        /\ Listed(n)' = IF n \in req[r].theirs.feeds \ {x} THEN Listed(n) \cup {r} ELSE Listed(n) \ {r}
    <3>1. /\ ~Makes(q, n) /\ ~Fixes(q, n) /\ ~Empties(q, n)
          /\ Closes(q, n) <=> n = u /\ req[r].theirs.feeds = {}
          /\ Deletes(q, n) <=> n = u
          /\ Lists(q, n) <=> n \in req[r].theirs.feeds \ {x}
      BY <1>4, <1>5 DEF Makes, Fixes, Empties, Closes, Deletes, Lists
    <3> QED BY <1>3, <1>4, <3>1, SetsMove
  <2>3. /\ r \notin Making(n) /\ r \notin Fixing(n) /\ r \notin Closing(n)
        /\ r \in Emptying(n) <=> n = x
        /\ r \in Deleting(n) <=> n = u
        /\ r \in Listed(n) <=> n \in req[r].theirs.feeds
    BY <1>1, Whose DEF Makes, Fixes, Empties, Closes, Deletes, Lists
  <2>4. CASE n # x
    <3>1. SetsSame(n)
      BY <1>2, <2>2, <2>3, <2>4 DEF SetsSame
    <3> QED BY <1>6, <2>1, <2>4, <3>1, GoodStays
  <2>5. CASE n = x
    <3>1. /\ n \notin DOMAIN feeds /\ Emptying(n) = {r} /\ Making(n) = {}
          /\ n \in DOMAIN users => n = u /\ n \notin req[r].theirs.feeds
      BY <2>1, <2>3, <2>5 DEF Good, Made, GivenUp
    <3>2. /\ Making(n)' = {} /\ Emptying(n)' = {} /\ Deleting(n)' = Deleting(n)
          /\ Listed(n)' = Listed(n) \ {r}
          /\ n \in DOMAIN users => r \in Closing(n)'
      BY <1>2, <2>2, <2>3, <2>5, <3>1
    <3>3. n \notin files'
      BY <1>6, <2>5
    <3>4. Held(n)' /\ Made(n)'
      BY <1>6, <3>1, <3>2, <3>3 DEF Held, Made
    <3>5. GivenUp(n)'
      BY <1>6, <2>1, <3>1, <3>2, <3>3 DEF Good, GivenUp
    <3> QED BY <3>4, <3>5 DEF Good
  <2> QED BY <2>4, <2>5
<1> QED BY <1>7, <1>8, <1>9 DEF NamesInv, Good

LEMMA DeleteAccountKeeps ==
  ASSUME Typed, NamesInv, NEW r \in Requests, DeleteAccount(r)
  PROVE  Typed' /\ NamesInv'
<1> DEFINE u == req[r].u
<1>1. /\ req[r] # Idle /\ req[r].op = "delete" /\ req[r].at = "account"
      /\ req[r].mine \in Record /\ u \in Names
  BY Facts DEF DeleteAccount, At
<1>2. Idle \in Handling \cup {Idle} /\ req' = [req EXCEPT ![r] = Idle]
  BY DEF DeleteAccount, End
<1>3. users' \in Database /\ DOMAIN users' = DOMAIN users \ {u}
  BY WithoutRecord DEF DeleteAccount, Typed
<1>4. /\ hurt \subseteq hurt' /\ {u} \cap Doomed(r) \subseteq hurt'
      /\ hurt' \in SUBSET Names
  <2>1. Met(users, u, req[r].mine) \subseteq Names
    BY <1>1, MetIs DEF Typed
  <2>2. hurt' = hurt \cup Met(users, u, req[r].mine) \cup ({u} \cap Doomed(r))
    BY DEF DeleteAccount
  <2> QED BY <1>1, <2>1, <2>2 DEF Typed
<1>5. /\ UNCHANGED <<feeds, files, left, restarts, archived>>
      /\ astray' = astray \cup ({u} \X Names) \cup (Names \X {u})
  BY DEF DeleteAccount
<1>6. Typed'
  <2>1. req' \in Working
    BY <1>2, Moves
  <2>2. astray' \in SUBSET (Names \X Names)
    BY <1>1, <1>5 DEF Typed
  <2> QED BY <1>3, <1>4, <1>5, <2>1, <2>2 DEF Typed
<1>7. \A s \in Requests : req'[s] = Idle \/ Staged(s)'
  BY <1>2, StagedStays DEF NamesInv
<1>8. ASSUME NEW n \in Names \ hurt'
      PROVE  Good(n)'
  <2>1. Good(n)
    BY <1>4, <1>8 DEF NamesInv, Good
  <2>2. /\ Making(n)' = Making(n) \ {r} /\ Fixing(n)' = Fixing(n) \ {r}
        /\ Emptying(n)' = Emptying(n) \ {r} /\ Closing(n)' = Closing(n) \ {r}
        /\ Deleting(n)' = Deleting(n) \ {r} /\ Listed(n)' = Listed(n) \ {r}
    BY <1>2, SetsEnd
  <2>3. /\ r \notin Making(n) /\ r \notin Fixing(n) /\ r \notin Emptying(n)
        /\ r \in Closing(n) <=> n = u
        /\ r \in Deleting(n) <=> n = u
    BY <1>1, Whose DEF Makes, Fixes, Empties, Closes, Deletes
  <2>4. CASE n # u
    <3>1. SetsSame(n)
      BY <2>2, <2>3, <2>4 DEF SetsSame
    <3> QED BY <1>3, <1>5, <2>1, <2>4, <3>1, GoodStays
  <2>5. CASE n = u
    <3>1. Deleting(n) \cup Listed(n) \subseteq {r}
      BY <1>4, <1>8, <2>5, NotDoomed
    <3>2. n \in DOMAIN users /\ n \notin DOMAIN feeds /\ Emptying(n) = {}
      <4>1. n \in DOMAIN users /\ n \notin DOMAIN feeds
        BY <2>1, <2>3, <2>5 DEF Good, Held, GivenUp
      <4> QED BY <2>1, <2>3, <3>1, <4>1 DEF Good, GivenUp
    <3>3. /\ Making(n)' = Making(n) /\ Fixing(n)' = Fixing(n) /\ Emptying(n)' = {}
          /\ Closing(n)' = {} /\ Deleting(n)' = {} /\ Listed(n)' = {}
      BY <2>2, <2>3, <3>1, <3>2, ClosingDeletes
    <3>4. n \notin DOMAIN users'
      BY <1>3, <2>5
    <3>5. n \in files => Making(n) \cup Fixing(n) # {}
      BY <2>1, <2>3, <2>5 DEF Good, GivenUp
    <3>6. Held(n)'
      BY <1>5, <3>2, <3>3, <3>4, <3>5 DEF Held
    <3>7. Made(n)'
      BY <1>5, <2>1, <3>2, <3>3, <3>4 DEF Good, Made
    <3>8. GivenUp(n)'
      BY <3>3 DEF GivenUp
    <3> QED BY <3>6, <3>7, <3>8 DEF Good
  <2> QED BY <2>4, <2>5
<1> QED BY <1>6, <1>7, <1>8 DEF NamesInv, Good

(* A restart hurts the names between two steps: the others are as taken.   *)
LEMMA RestartKeeps ==
  ASSUME Typed, NamesInv, Restart
  PROVE  Typed' /\ NamesInv'
<1>1. \A r \in Requests : req'[r] = Idle
  BY DEF Restart
<1>2. /\ hurt' = hurt \cup UNION {Halfway(r) : r \in Requests}
      /\ UNCHANGED <<users, feeds, files, left, astray, archived>>
  BY DEF Restart
<1>3. Typed'
  <2>1. req' \in Working
    BY DEF Restart, Working
  <2>2. hurt' \in SUBSET Names
    BY <1>2, HalfwayNames DEF Typed
  <2>3. restarts' \in 0..MaxRestarts
    BY AccountsAssumption DEF Restart, Typed
  <2> QED BY <1>2, <2>1, <2>2, <2>3 DEF Typed
<1>4. ASSUME NEW n \in Names \ hurt'
      PROVE  Good(n)'
  <2>1. Good(n)
    BY <1>2, <1>4 DEF NamesInv, Good
  <2>2. Making(n) \cup Fixing(n) = {} /\ Emptying(n) \cup Closing(n) = {}
    <3> SUFFICES ASSUME NEW r \in (Making(n) \cup Fixing(n)) \cup (Emptying(n) \cup Closing(n))
                 PROVE  FALSE
      OBVIOUS
    <3>1. n \in Halfway(r) /\ r \in Requests
      BY BusyHalfway DEF Making, Fixing, Emptying, Closing
    <3> QED BY <1>2, <1>4, <3>1
  <2>3. /\ Making(n)' = {} /\ Fixing(n)' = {} /\ Emptying(n)' = {} /\ Closing(n)' = {}
        /\ Deleting(n)' = {} /\ Listed(n)' = {}
    BY <1>1 DEF Making, Fixing, Emptying, Closing, Deleting, Listed, At
  <2>4. Held(n)'
    BY <1>2, <2>1, <2>2 DEF Good, Held
  <2>5. Made(n)' /\ GivenUp(n)'
    BY <2>3 DEF Made, GivenUp
  <2> QED BY <2>4, <2>5 DEF Good
<1> QED BY <1>1, <1>3, <1>4 DEF NamesInv, Good

-----------------------------------------------------------------------------
(* Theorems                                                                *)

AccountsInv == Typed /\ NamesInv

LEMMA StartsWell == Init => AccountsInv
<1> SUFFICES ASSUME Init
             PROVE  Typed /\ NamesInv
  BY DEF AccountsInv
<1>1. PICK people \in Starts : users = [n \in people |-> Fresh({})] /\ files = people
  BY DEF Init
<1>2. people \in SUBSET Names /\ users \in [people -> Record] /\ DOMAIN users = people
  BY <1>1, FreshIs, AccountsAssumption
<1>3. feeds \in [{} -> Record] /\ DOMAIN feeds = {}
  BY DEF Init, Restrict
<1>4. users \in Database /\ feeds \in Database
  BY <1>2, <1>3 DEF Database
<1>5. req \in Working /\ \A r \in Requests : req[r] = Idle
  BY DEF Init, Working
<1>6. Typed
  BY <1>1, <1>2, <1>4, <1>5, AccountsAssumption DEF Init, Typed
<1>7. ASSUME NEW n \in Names
      PROVE  Good(n)
  <2>1. /\ Making(n) = {} /\ Fixing(n) = {} /\ Emptying(n) = {} /\ Closing(n) = {}
        /\ Deleting(n) = {} /\ Listed(n) = {}
    BY <1>5 DEF Making, Fixing, Emptying, Closing, Deleting, Listed, At
  <2> QED BY <1>1, <1>2, <1>3, <2>1 DEF Good, Held, Made, GivenUp
<1> QED BY <1>5, <1>6, <1>7 DEF NamesInv, Good

LEMMA StaysWell == AccountsInv /\ [Next]_vars => AccountsInv'
<1> SUFFICES ASSUME Typed, NamesInv, [Next]_vars
             PROVE  Typed' /\ NamesInv'
  BY DEF AccountsInv
<1>1. ASSUME NEW r \in Requests, Typed' /\ Quiet(r)
      PROVE  Typed' /\ NamesInv'
  BY <1>1, QuietKeeps
<1>2. ASSUME NEW r \in Requests, Register(r)
      PROVE  Typed' /\ NamesInv'
  BY <1>1, <1>2, ArrivalsQuiet, RegisterSaveKeeps DEF Register
<1>3. ASSUME NEW r \in Requests, Feed(r)
      PROVE  Typed' /\ NamesInv'
  <2>1. CASE StatName(r)
    <3>1. Aside(req[r])
      BY <2>1 DEF StatName, NamesInv, Staged, Aside
    <3> QED BY <1>1, <2>1, <3>1, StatNameQuiet
  <2>2. CASE WriteFile(r) \/ FeedSave(r)
    BY <2>2, WriteFileKeeps, FeedSaveKeeps
  <2>3. CASE (\E u, x \in Names : FeedArrive(r, u, x)) \/ FeedSaveOwn(r)
    BY <1>1, <2>3, ArrivalsQuiet, OwnStepsQuiet
  <2> QED BY <1>3, <2>1, <2>2, <2>3 DEF Feed, CreateFeed
<1>4. ASSUME NEW r \in Requests, ManageFeed(r) \/ Archive(r) \/ Transfer(r)
      PROVE  Typed' /\ NamesInv'
  BY <1>1, <1>4, ArrivalsQuiet, OwnStepsQuiet, OtherStepsQuiet DEF ManageFeed, Archive, Transfer
<1>5. ASSUME NEW r \in Requests, Follow(r) \/ Import(r) \/ Unfollow(r)
      PROVE  Typed' /\ NamesInv'
  BY <1>1, <1>5, ArrivalsQuiet, OwnStepsQuiet, OtherStepsQuiet, ReadingsQuiet
     DEF Follow, Import, Unfollow
<1>6. ASSUME NEW r \in Requests, Settings(r) \/ Post(r) \/ FixFollowers(r)
      PROVE  Typed' /\ NamesInv'
  BY <1>1, <1>6, ArrivalsQuiet, OwnStepsQuiet, OtherStepsQuiet, ReadingsQuiet
     DEF Settings, Post, FixFollowers
<1>7. ASSUME NEW r \in Requests, DeleteAll(r)
      PROVE  Typed' /\ NamesInv'
  BY <1>7, DeleteArriveKeeps, DeleteStops, DeleteGoesOn, DeleteFileKeeps, DeleteAccountKeeps
     DEF DeleteAll
<1>8. ASSUME NEW r \in Requests, FixUserAccounts(r)
      PROVE  Typed' /\ NamesInv'
  BY <1>1, <1>8, ArrivalsQuiet, FixFileKeeps DEF FixUserAccounts
<1>9. CASE Restart
  BY <1>9, RestartKeeps
<1>10. CASE UNCHANGED vars
  <2>1. Typed'
    BY <1>10 DEF vars, Typed
  <2>2. NamesInv'
    BY <1>10 DEF vars, NamesInv, Staged, Held, Made, GivenUp,
                 Making, Fixing, Emptying, Closing, Deleting, Listed, At
  <2> QED BY <2>1, <2>2
<1> QED BY <1>2, <1>3, <1>4, <1>5, <1>6, <1>7, <1>8, <1>9, <1>10 DEF Next

(* Whatever requests meet, the records are typed, and every name that they *)
(* did not meet on has its file and its record, or a request at work that  *)
(* makes up for what is missing (models.go:101-147, handlers.go:1329-1362, *)
(* 2257-2328).                                                             *)
THEOREM AccountsCorrect == Spec => []AccountsInv
  BY StartsWell, StaysWell, PTL DEF Spec

(* Records are records and requests are about names: an unfollow looks its *)
(* nick up before it saves (follow_handlers.go:213-226).                   *)
THEOREM AccountsTyped == Spec => []TypeOK
<1>1. AccountsInv => TypeOK
  <2> SUFFICES ASSUME Typed
               PROVE  TypeOK
    BY DEF AccountsInv
  <2>1. \A rec \in Record : IsRecord(rec)
    BY NicksAre DEF Record, IsRecord
  <2>2. DOMAIN users \cup DOMAIN feeds \subseteq Names
    BY Facts
  <2>3. /\ \A n \in DOMAIN users : IsRecord(users[n])
        /\ \A n \in DOMAIN feeds : IsRecord(feeds[n])
    BY <2>1, Facts
  <2>4. \A r \in Requests : req[r] = Idle \/
          /\ {req[r].u, req[r].x, req[r].arg} \subseteq Names
          /\ IsRecord(req[r].mine) /\ IsRecord(req[r].theirs)
    BY <2>1, Facts
  <2> QED BY <2>2, <2>3, <2>4 DEF Typed, TypeOK
<1> QED BY <1>1, AccountsCorrect, PTL

(* A name is taken when, and only when, it has a file and is a user or a   *)
(* feed, never both: for any number of users, names, requests at a time,   *)
(* restarts and any bound on feeds, registrations, creations and deletions *)
(* that do not meet on the name leave it so.                               *)
THEOREM NamesAreTaken == Spec => []NamesTaken
<1>1. AccountsInv => NamesTaken
  <2> SUFFICES ASSUME Typed, NamesInv, NEW n \in Names, Settled(n)
               PROVE  /\ n \in files <=> n \in DOMAIN users \cup DOMAIN feeds
                      /\ n \notin DOMAIN users \cap DOMAIN feeds
    BY DEF AccountsInv, NamesTaken
  <2>1. Making(n) \cup Fixing(n) = {} /\ Emptying(n) \cup Closing(n) = {}
    <3> SUFFICES ASSUME NEW r \in (Making(n) \cup Fixing(n)) \cup (Emptying(n) \cup Closing(n))
                 PROVE  FALSE
      OBVIOUS
    <3>1. n \in Halfway(r) /\ r \in Requests
      BY BusyHalfway DEF Making, Fixing, Emptying, Closing
    <3> QED BY <3>1 DEF Settled
  <2>2. Held(n)
    BY DEF Settled, NamesInv
  <2> QED BY <2>1, <2>2 DEF Held
<1> QED BY <1>1, AccountsCorrect, PTL

-----------------------------------------------------------------------------
(* Feeds and their owners                                                  *)

(* What a request does about the feed x, and what it knows.                *)
Founds(q, x) == q # Idle /\ q.op = "feed" /\ q.at = "own" /\ q.x = x
Mends(q, x) == q # Idle /\ q.op = "fix" /\ q.at = "own" /\ q.x = x
Gives(q, x) == q # Idle /\ q.op = "transfer" /\ q.at = "other" /\ q.x = x
Ends(q, x) == q # Idle /\ q.op = "delete" /\ q.at # "own" /\ x \in q.mine.feeds
Deals(q, x, there) ==
  q # Idle /\ q.op = "delete" /\ x \in q.mine.feeds =>
    /\ q.at = "own" => x \in q.theirs.feeds
    /\ there => x \in q.theirs.feeds /\ ~(q.at = "file" /\ q.x = x)
Knows(q) ==
  q = Idle \/
    /\ q.op = "delete" => /\ q.at \in {"own", "file", "next", "account"}
                          /\ q.theirs.feeds \subseteq q.mine.feeds
                          /\ q.at = "account" => q.theirs.feeds = {}
    /\ q.op = "followers" => q.theirs.feeds = q.mine.feeds
    /\ q.op = "archive" /\ q.at = "own" => q.x \in q.mine.feeds

(* A request that is between no two steps about an owner.                  *)
Idler(q) ==
  q = Idle \/ /\ q.op # "delete"
              /\ q.op \in {"feed", "fix"} => q.at # "own"
              /\ q.op = "transfer" => q.at # "other"

LEMMA WhoseFeed ==
  ASSUME NEW r \in Requests, NEW x
  PROVE  /\ r \in Starting(x) <=> Founds(req[r], x)
         /\ r \in Mending(x) <=> Mends(req[r], x)
         /\ r \in Moving(x) <=> Gives(req[r], x)
         /\ r \in Ending(x) <=> Ends(req[r], x)
BY DEF Starting, Mending, Moving, Ending, At, Founds, Mends, Gives, Ends

(* Where the request goes, the sets follow.                                *)
LEMMA FeedSetsMove ==
  ASSUME Typed, NEW r \in Requests, NEW q \in Handling \cup {Idle}, req' = [req EXCEPT ![r] = q],
         NEW x
  PROVE  /\ Starting(x)' = IF Founds(q, x) THEN Starting(x) \cup {r} ELSE Starting(x) \ {r}
         /\ Mending(x)' = IF Mends(q, x) THEN Mending(x) \cup {r} ELSE Mending(x) \ {r}
         /\ Moving(x)' = IF Gives(q, x) THEN Moving(x) \cup {r} ELSE Moving(x) \ {r}
         /\ Ending(x)' = IF Ends(q, x) THEN Ending(x) \cup {r} ELSE Ending(x) \ {r}
<1>1. req'[r] = q /\ \A s \in Requests \ {r} : req'[s] = req[s]
  BY Moves
<1>2. /\ Starting(x)' \ {r} = Starting(x) \ {r} /\ Mending(x)' \ {r} = Mending(x) \ {r}
      /\ Moving(x)' \ {r} = Moving(x) \ {r} /\ Ending(x)' \ {r} = Ending(x) \ {r}
  BY <1>1 DEF Starting, Mending, Moving, Ending, At
<1>3. /\ r \in Starting(x)' <=> Founds(q, x)
      /\ r \in Mending(x)' <=> Mends(q, x)
      /\ r \in Moving(x)' <=> Gives(q, x)
      /\ r \in Ending(x)' <=> Ends(q, x)
  BY <1>1 DEF Starting, Mending, Moving, Ending, At, Founds, Mends, Gives, Ends
<1> QED BY <1>2, <1>3

LEMMA DealtIs ==
  ASSUME NEW x, NEW r \in Requests, Dealt(x)
  PROVE  Deals(req[r], x, x \in DOMAIN feeds)
BY DEF Dealt, Deals, Emptying, At

LEMMA DealtStays ==
  ASSUME Typed, NEW r \in Requests, NEW q \in Handling \cup {Idle}, req' = [req EXCEPT ![r] = q],
         NEW x, Dealt(x), x \in DOMAIN feeds' => x \in DOMAIN feeds,
         Deals(q, x, x \in DOMAIN feeds')
  PROVE  Dealt(x)'
<1>1. req'[r] = q /\ \A s \in Requests \ {r} : req'[s] = req[s]
  BY Moves
<1> QED BY <1>1 DEF Dealt, Deals, Emptying, At

LEMMA KnownStays ==
  ASSUME Typed, NEW r \in Requests, NEW q \in Handling \cup {Idle}, req' = [req EXCEPT ![r] = q],
         \A s \in Requests : req[s] = Idle \/ Known(s), Knows(q)
  PROVE  \A s \in Requests : req'[s] = Idle \/ Known(s)'
<1>1. req'[r] = q /\ \A s \in Requests \ {r} : req'[s] = req[s]
  BY Moves
<1> QED BY <1>1 DEF Known, Knows

LEMMA KnownIs ==
  ASSUME FeedsInv, NEW r \in Requests, req[r] # Idle
  PROVE  Knows(req[r])
BY DEF FeedsInv, Known, Knows

LEMMA OwnedStays ==
  ASSUME NEW x, Owned(x), Owners(x)' = Owners(x), x \in DOMAIN feeds' <=> x \in DOMAIN feeds,
         archived \subseteq archived', Starting(x)' = Starting(x), Mending(x)' = Mending(x),
         Moving(x)' = Moving(x), Ending(x) # {} => Ending(x)' # {}
  PROVE  Owned(x)'
BY DEF Owned

(* The step leaves all feeds with their owners, but for those it hurts.    *)
Steady ==
  /\ hurt \subseteq hurt' /\ archived \subseteq archived'
  /\ \A x \in Names \ hurt' : /\ Owners(x)' = Owners(x)
                              /\ x \in DOMAIN feeds' <=> x \in DOMAIN feeds

Calm(r) ==
  /\ Steady /\ Idler(req[r])
  /\ \E q \in Handling \cup {Idle} : Idler(q) /\ Knows(q) /\ req' = [req EXCEPT ![r] = q]

LEMMA IdlerIs ==
  ASSUME NEW q, Idler(q), NEW x, NEW there
  PROVE  ~Founds(q, x) /\ ~Mends(q, x) /\ ~Gives(q, x) /\ ~Ends(q, x) /\ Deals(q, x, there)
BY DEF Idler, Founds, Mends, Gives, Ends, Deals

LEMMA CalmKeeps ==
  ASSUME Typed, FeedsInv, NEW r \in Requests, Calm(r)
  PROVE  FeedsInv'
<1>1. PICK q \in Handling \cup {Idle} : Idler(q) /\ Knows(q) /\ req' = [req EXCEPT ![r] = q]
  BY DEF Calm
<1>2. \A s \in Requests : req'[s] = Idle \/ Known(s)'
  BY <1>1, KnownStays DEF FeedsInv
<1>3. ASSUME NEW x \in Names \ hurt'
      PROVE  Owned(x)' /\ Dealt(x)'
  <2>1. Owned(x) /\ Dealt(x) /\ Owners(x)' = Owners(x)
        /\ (x \in DOMAIN feeds' <=> x \in DOMAIN feeds)
    BY <1>3 DEF Calm, Steady, FeedsInv
  <2>2. /\ ~Founds(req[r], x) /\ ~Mends(req[r], x) /\ ~Gives(req[r], x) /\ ~Ends(req[r], x)
        /\ ~Founds(q, x) /\ ~Mends(q, x) /\ ~Gives(q, x) /\ ~Ends(q, x)
        /\ Deals(q, x, x \in DOMAIN feeds')
    BY <1>1, IdlerIs DEF Calm
  <2>3. /\ Starting(x)' = Starting(x) /\ Mending(x)' = Mending(x)
        /\ Moving(x)' = Moving(x) /\ Ending(x)' = Ending(x)
    <3>1. /\ Starting(x)' = Starting(x) \ {r} /\ Mending(x)' = Mending(x) \ {r}
          /\ Moving(x)' = Moving(x) \ {r} /\ Ending(x)' = Ending(x) \ {r}
      BY <1>1, <2>2, FeedSetsMove
    <3>2. /\ r \notin Starting(x) /\ r \notin Mending(x)
          /\ r \notin Moving(x) /\ r \notin Ending(x)
      BY <2>2, WhoseFeed
    <3> QED BY <3>1, <3>2
  <2>4. Owned(x)'
    BY <2>1, <2>3, OwnedStays DEF Calm, Steady
  <2>5. Dealt(x)'
    BY <1>1, <2>1, <2>2, DealtStays
  <2> QED BY <2>4, <2>5
<1> QED BY <1>2, <1>3 DEF FeedsInv

LEMMA Continues ==
  ASSUME Typed, FeedsInv, NEW r \in Requests, Steady, Idler(req[r]),
         \/ End(r)
         \/ req[r] # Idle /\ \E at \in Stages \ {"own", "other"} : Go(r, at)
  PROVE  Calm(r)
<1>1. CASE End(r)
  <2>1. req' = [req EXCEPT ![r] = Idle] /\ Idler(Idle) /\ Knows(Idle)
    BY <1>1 DEF End, Idler, Knows
  <2> QED BY <2>1 DEF Calm
<1>2. ASSUME req[r] # Idle, NEW at \in Stages \ {"own", "other"}, Go(r, at)
      PROVE  Calm(r)
  <2> DEFINE q == [req[r] EXCEPT !.at = at]
  <2>1. /\ q \in Handling /\ q.at = at /\ q.op = req[r].op
        /\ q.theirs = req[r].theirs /\ q.mine = req[r].mine
        /\ req' = [req EXCEPT ![r] = q]
    BY <1>2, GoIs
  <2> HIDE DEF q
  <2>2. Knows(req[r])
    BY <1>2, KnownIs
  <2>3. Idler(q) /\ Knows(q)
    BY <1>2, <2>1, <2>2 DEF Idler, Knows
  <2> QED BY <2>1, <2>3 DEF Calm
<1> QED BY <1>1, <1>2

(* Who owns x when a record has been saved over a copy read before: the    *)
(* copy agreed with the record about x, or x is hurt.                      *)
LEMMA OwnersPut ==
  ASSUME Typed, NEW z \in Names, NEW rec \in Record, NEW read \in Record,
         users' = Put(users, z, rec), NEW x \in Names, x \notin Met(users, z, read)
  PROVE  /\ Owners(x)' = (Owners(x) \ {z}) \cup (IF x \in rec.feeds THEN {z} ELSE {})
         /\ z \in Owners(x) <=> x \in read.feeds
<1>1. z \in Owners(x) <=> x \in read.feeds
  BY DEF Met, Owners, Fresh
<1>2. DOMAIN users' = DOMAIN users \cup {z}
      /\ \A n \in DOMAIN users' : users'[n] = IF n = z THEN rec ELSE users[n]
  BY DEF Put
<1>3. Owners(x)' = (Owners(x) \ {z}) \cup (IF x \in rec.feeds THEN {z} ELSE {})
  BY <1>2 DEF Owners
<1> QED BY <1>1, <1>3

LEMMA OwnersKept ==
  ASSUME Typed, NEW z \in Names, NEW rec \in Record, NEW read \in Record,
         users' = Put(users, z, rec), NEW x \in Names, x \notin Met(users, z, read),
         x \in rec.feeds <=> x \in read.feeds
  PROVE  Owners(x)' = Owners(x)
<1>1. /\ Owners(x)' = (Owners(x) \ {z}) \cup (IF x \in rec.feeds THEN {z} ELSE {})
      /\ z \in Owners(x) <=> x \in read.feeds
  BY OwnersPut
<1> QED BY <1>1

LEMMA OwnersAre ==
  ASSUME users' = users, NEW x
  PROVE  Owners(x)' = Owners(x)
BY DEF Owners

LEMMA SavedOwn ==
  ASSUME Typed, NEW r \in Requests, req[r] # Idle, NEW rec \in Record, NEW seen,
         SaveOwn(r, rec, seen), NEW x \in Names \ hurt'
  PROVE  /\ Owners(x)' = (Owners(x) \ {req[r].u})
                            \cup (IF x \in rec.feeds THEN {req[r].u} ELSE {})
         /\ req[r].u \in Owners(x) <=> x \in req[r].mine.feeds
         /\ (x \in rec.feeds <=> x \in req[r].mine.feeds) => Owners(x)' = Owners(x)
         /\ hurt \subseteq hurt' /\ feeds' = feeds
<1>1. /\ req[r].u \in Names /\ req[r].mine \in Record
      /\ users' = Put(users, req[r].u, rec) /\ feeds' = feeds
      /\ hurt \subseteq hurt' /\ Met(users, req[r].u, req[r].mine) \subseteq hurt'
  BY Facts DEF SaveOwn
<1>2. x \notin Met(users, req[r].u, req[r].mine)
  BY <1>1
<1>3. /\ Owners(x)' = (Owners(x) \ {req[r].u})
                         \cup (IF x \in rec.feeds THEN {req[r].u} ELSE {})
      /\ req[r].u \in Owners(x) <=> x \in req[r].mine.feeds
  BY <1>1, <1>2, OwnersPut
<1>4. (x \in rec.feeds <=> x \in req[r].mine.feeds) => Owners(x)' = Owners(x)
  BY <1>1, <1>2, OwnersKept
<1> QED BY <1>1, <1>3, <1>4

(* Steps that save the user's record with the feeds it had.                *)
LEMMA OwnStepsCalm ==
  ASSUME Typed, FeedsInv, NEW r \in Requests,
         \/ ImportSaveOwn(r) \/ UnfollowSaveOwn(r) \/ SettingsSaveOwn(r) \/ FollowSaveOwn(r)
  PROVE  Calm(r)
<1>1. req[r] # Idle /\ Idler(req[r]) /\ req[r].mine \in Record
  BY Facts DEF ImportSaveOwn, UnfollowSaveOwn, SettingsSaveOwn, FollowSaveOwn, At, Idler
<1>2. ASSUME NEW rec \in Record, NEW seen, SaveOwn(r, rec, seen), rec.feeds = req[r].mine.feeds,
             archived' = archived
      PROVE  Steady
  BY <1>1, <1>2, SavedOwn DEF Steady, SaveOwn
<1>3. \A n, x \in Names : /\ Following(req[r].mine, n, x) \in Record
                          /\ Following(req[r].mine, n, x).feeds = req[r].mine.feeds
                          /\ [req[r].mine EXCEPT !.following = Without(@, n)] \in Record
                          /\ [req[r].mine EXCEPT !.following = Without(@, n)].feeds = req[r].mine.feeds
  BY <1>1, RecordsMade DEF Following, Record
<1>4. req[r].x \in Names /\ req[r].arg \in Names /\ "load" \in Stages \ {"own", "other"}
  BY <1>1, Facts DEF Stages
<1>5. CASE ImportSaveOwn(r)
  <2>1. Steady
    BY <1>2, <1>3, <1>4, <1>5 DEF ImportSaveOwn
  <2> QED BY <1>1, <1>5, <2>1, Continues DEF ImportSaveOwn
<1>6. CASE UnfollowSaveOwn(r)
  <2>1. Steady
    BY <1>2, <1>3, <1>4, <1>6 DEF UnfollowSaveOwn
  <2> QED BY <1>1, <1>4, <1>6, <2>1, Continues DEF UnfollowSaveOwn
<1>7. CASE SettingsSaveOwn(r)
  <2>1. Steady
    BY <1>1, <1>2, <1>7 DEF SettingsSaveOwn
  <2> QED BY <1>1, <1>7, <2>1, Continues DEF SettingsSaveOwn
<1>8. CASE FollowSaveOwn(r)
  <2>1. CASE UNCHANGED <<users, feeds, files, left, restarts, hurt, astray>> /\ End(r)
    <3>1. Steady
      BY <1>8, <2>1, OwnersAre DEF Steady, FollowSaveOwn
    <3> QED BY <1>1, <2>1, <3>1, Continues
  <2>2. CASE /\ SaveOwn(r, Following(req[r].mine, req[r].arg, req[r].x), {})
             /\ Go(r, "load")
    <3>1. Steady
      BY <1>2, <1>3, <1>4, <1>8, <2>2 DEF FollowSaveOwn
    <3> QED BY <1>1, <1>4, <2>2, <3>1, Continues
  <2> QED BY <1>8, <2>1, <2>2 DEF FollowSaveOwn
<1> QED BY <1>5, <1>6, <1>7, <1>8

(* A request that arrives knows the feeds of its user.                     *)
LEMMA ArrivalCalm ==
  ASSUME Typed, NEW r \in Requests, NEW op \in Ops, NEW at \in Stages, NEW u \in Names,
         NEW x \in Names, NEW arg \in Names, NEW theirs \in Record,
         op \notin {"delete", "followers"}, op \in {"feed", "fix"} => at # "own",
         op = "transfer" => at # "other",
         op = "archive" => u \in DOMAIN users /\ x \in users[u].feeds,
         Arrive(r, op, at, u, x, arg, theirs)
  PROVE  Calm(r)
<1>1. PICK q \in Handling : /\ q.op = op /\ q.at = at /\ q.u = u /\ q.x = x
                            /\ q.mine = IF u \in DOMAIN users THEN users[u] ELSE Fresh({})
                            /\ req' = [req EXCEPT ![r] = q]
  BY Arrives DEF Arrive, Typed
<1>2. Steady /\ Idler(req[r])
  BY OwnersAre DEF Arrive, Load, Steady, Idler
<1>3. Idler(q) /\ Knows(q)
  BY <1>1 DEF Idler, Knows
<1> QED BY <1>1, <1>2, <1>3 DEF Calm

LEMMA ArrivalsCalm ==
  ASSUME Typed, NEW r \in Requests,
         \/ \E n \in Names : RegisterCheck(r, n)
         \/ \E u, x \in Names : FeedArrive(r, u, x)
         \/ FixArrive(r)
         \/ \E u, x \in Names : ArchiveArrive(r, u, x)
         \/ \E u, x \in Names : ManageArrive(r, u, x)
         \/ \E u, x, to \in Names : TransferArrive(r, u, x, to)
         \/ \E u, nick, x \in Names : FollowArrive(r, u, nick, x)
         \/ \E u, x \in Names : ImportArrive(r, u, x)
         \/ \E u, nick \in Names : UnfollowArrive(r, u, nick)
         \/ \E u \in Names : SettingsArrive(r, u)
         \/ \E u, x \in Names : PostArrive(r, u, x)
  PROVE  Calm(r)
<1> USE Facts, ArrivalCalm DEF Stages, Ops
<1>1. ASSUME NEW n \in Names, RegisterCheck(r, n) PROVE Calm(r)
  BY <1>1 DEF RegisterCheck
<1>2. ASSUME NEW u \in Names, NEW x \in Names, FeedArrive(r, u, x) PROVE Calm(r)
  BY <1>2 DEF FeedArrive
<1>3. CASE FixArrive(r)
  BY <1>3, AccountsAssumption DEF FixArrive
<1>4. ASSUME NEW u \in Names, NEW x \in Names, ArchiveArrive(r, u, x) PROVE Calm(r)
  BY <1>4 DEF ArchiveArrive
<1>5. ASSUME NEW u \in Names, NEW x \in Names, ManageArrive(r, u, x) PROVE Calm(r)
  BY <1>5 DEF ManageArrive
<1>6. ASSUME NEW u \in Names, NEW x \in Names, NEW to \in Names, TransferArrive(r, u, x, to)
      PROVE  Calm(r)
  BY <1>6 DEF TransferArrive
<1>7. ASSUME NEW u \in Names, NEW nick \in Names, NEW x \in Names, FollowArrive(r, u, nick, x)
      PROVE  Calm(r)
  BY <1>7 DEF FollowArrive
<1>8. ASSUME NEW u \in Names, NEW x \in Names, ImportArrive(r, u, x) PROVE Calm(r)
  BY <1>8 DEF ImportArrive
<1>9. ASSUME NEW u \in Names, NEW nick \in Names, UnfollowArrive(r, u, nick)
      PROVE  Calm(r)
  <2>1. users[u].following \in Nicks /\ nick \in DOMAIN users[u].following
    BY <1>9 DEF UnfollowArrive, Record
  <2>2. users[u].following[nick] \in Names
    BY <2>1, NicksAre
  <2> QED BY <1>9, <2>2 DEF UnfollowArrive
<1>10. ASSUME NEW u \in Names, SettingsArrive(r, u) PROVE Calm(r)
  BY <1>10 DEF SettingsArrive
<1>11. ASSUME NEW u \in Names, NEW x \in Names, PostArrive(r, u, x) PROVE Calm(r)
  BY <1>11 DEF PostArrive
<1> QED BY <1>1, <1>2, <1>3, <1>4, <1>5, <1>6, <1>7, <1>8, <1>9, <1>10, <1>11

(* Steps that save another record with the feeds it had, and end.          *)
LEMMA OtherStepsCalm ==
  ASSUME Typed, FeedsInv, NEW r \in Requests,
         ArchiveSaveFeed(r) \/ ManageSave(r) \/ FixFollowersSave(r) \/ FollowList(r) \/ UnfollowList(r)
  PROVE  Calm(r)
<1> DEFINE q == req[r]
<1>1. /\ q # Idle /\ Idler(q) /\ End(r) /\ archived' = archived
  BY DEF ArchiveSaveFeed, ManageSave, FixFollowersSave, FollowList, UnfollowList, At, Idler
<1>2. q.u \in Names /\ q.x \in Names /\ q.theirs \in Record /\ q.mine \in Record
  BY <1>1, Facts
<1>3. /\ Unlisting(q.theirs, q.u) \in Record /\ Listing(q.theirs, q.u) \in Record
      /\ Unlisting(q.theirs, q.u).feeds = q.theirs.feeds
      /\ Listing(q.theirs, q.u).feeds = q.theirs.feeds
  BY <1>2, RecordsMade DEF Unlisting, Listing, Record
<1> HIDE DEF q
<1>4. ASSUME NEW rec \in Record, NEW read \in Record, rec.feeds = read.feeds,
             users' = Put(users, q.x, rec), feeds' = feeds,
             hurt \subseteq hurt', Met(users, q.x, read) \subseteq hurt'
      PROVE  Steady
  BY <1>1, <1>2, <1>4, OwnersKept DEF Steady
<1>5. ASSUME NEW rec \in Record, NEW read \in Record, feeds' = Put(feeds, q.x, rec), users' = users,
             hurt \subseteq hurt', Met(feeds, q.x, read) \subseteq hurt'
      PROVE  Steady
  <2>1. \A n \in Names \ hurt' : n \in DOMAIN feeds' <=> n \in DOMAIN feeds
    BY <1>2, <1>5, OtherSaves DEF Typed
  <2> QED BY <1>1, <1>5, <2>1, OwnersAre DEF Steady
<1>6. ASSUME ArchiveSaveFeed(r) PROVE Steady
  <2>1. /\ feeds' = Put(feeds, q.x, Unlisting(q.theirs, q.u)) /\ users' = users
        /\ hurt \subseteq hurt' /\ Met(feeds, q.x, q.theirs) \subseteq hurt'
    BY <1>6 DEF ArchiveSaveFeed, q
  <2> QED BY <1>2, <1>3, <1>5, <2>1
<1>7. ASSUME ManageSave(r) PROVE Steady
  <2>1. /\ feeds' = Put(feeds, q.x, q.theirs) /\ users' = users
        /\ hurt \subseteq hurt' /\ Met(feeds, q.x, q.theirs) \subseteq hurt'
    BY <1>7 DEF ManageSave, q
  <2> QED BY <1>2, <1>5, <2>1
<1>8. ASSUME FixFollowersSave(r) PROVE Steady
  <2>1. q.op = "followers" /\ q.theirs.feeds = q.mine.feeds
    BY <1>1, <1>8, KnownIs DEF Knows, FixFollowersSave, At, q
  <2>2. CASE At(r, "followers", "fixed")
    <3>1. /\ users' = Put(users, q.x, q.theirs) /\ feeds' = feeds
          /\ hurt \subseteq hurt' /\ Met(users, q.x, q.mine) \subseteq hurt'
      BY <1>8, <2>2 DEF FixFollowersSave, At, q
    <3> QED BY <1>2, <1>4, <2>1, <3>1
  <2>3. CASE At(r, "followers", "fixedFeed")
    <3>1. /\ feeds' = Put(feeds, q.x, q.theirs) /\ users' = users
          /\ hurt \subseteq hurt' /\ Met(feeds, q.x, q.mine) \subseteq hurt'
      BY <1>8, <2>3 DEF FixFollowersSave, At, q
    <3> QED BY <1>2, <1>5, <3>1
  <2> QED BY <1>8, <2>2, <2>3 DEF FixFollowersSave
<1>9. ASSUME FollowList(r) PROVE Steady
  <2>1. CASE At(r, "follow", "list")
    <3>1. /\ users' = Put(users, q.x, Listing(q.theirs, q.u)) /\ feeds' = feeds
          /\ hurt \subseteq hurt' /\ Met(users, q.x, q.theirs) \subseteq hurt'
      BY <1>9, <2>1 DEF FollowList, At, q
    <3> QED BY <1>2, <1>3, <1>4, <3>1
  <2>2. CASE At(r, "follow", "listFeed")
    <3>1. /\ feeds' = Put(feeds, q.x, Listing(q.theirs, q.u)) /\ users' = users
          /\ hurt \subseteq hurt' /\ Met(feeds, q.x, q.theirs) \subseteq hurt'
      BY <1>9, <2>2 DEF FollowList, At, q
    <3> QED BY <1>2, <1>3, <1>5, <3>1
  <2> QED BY <1>9, <2>1, <2>2 DEF FollowList
<1>10. ASSUME UnfollowList(r) PROVE Steady
  <2>1. /\ users' = Put(users, q.x, Unlisting(q.theirs, q.u)) /\ feeds' = feeds
        /\ hurt \subseteq hurt' /\ Met(users, q.x, q.theirs) \subseteq hurt'
    BY <1>10 DEF UnfollowList, q
  <2> QED BY <1>2, <1>3, <1>4, <2>1
<1>11. Steady
  BY <1>6, <1>7, <1>8, <1>9, <1>10
<1> QED BY <1>1, <1>11, Continues DEF q

(* Steps that read, or are about files.                                    *)
LEMMA ReadingsCalm ==
  ASSUME Typed, FeedsInv, NEW r \in Requests,
         \/ StatName(r) \/ WriteFile(r) \/ FixFile(r) \/ PostAppend(r)
         \/ FollowLoad(r) \/ UnfollowLoad(r)
         \/ \E x \in DOMAIN users : FixFollowersArrive(r, x, "fixed", users[x])
         \/ \E x \in DOMAIN feeds : FixFollowersArrive(r, x, "fixedFeed", feeds[x])
  PROVE  Calm(r)
<1>1. Steady
  BY OwnersAre DEF Steady, StatName, WriteFile, FixFile, PostAppend, FollowLoad, UnfollowLoad,
                   FixFollowersArrive
<1>2. CASE StatName(r) \/ WriteFile(r) \/ FixFile(r) \/ PostAppend(r)
  <2>1. req[r] # Idle
    BY <1>2 DEF StatName, WriteFile, FixFile, PostAppend, At, Idle
  <2>2. Idler(req[r])
    BY <1>2, <2>1, KnownIs DEF Idler, Knows, StatName, WriteFile, FixFile, PostAppend, At
  <2>3. \/ End(r)
        \/ \E at \in Stages \ {"own", "other"} : Go(r, at)
    BY <1>2 DEF StatName, WriteFile, FixFile, PostAppend, Stages
  <2> QED BY <1>1, <2>1, <2>2, <2>3, Continues
<1>3. CASE FollowLoad(r) \/ UnfollowLoad(r)
  <2>1. req[r] # Idle /\ req[r].op \in {"follow", "unfollow"} /\ Idler(req[r])
    BY <1>3 DEF FollowLoad, UnfollowLoad, At, Idler
  <2>2. CASE End(r)
    BY <1>1, <2>1, <2>2, Continues
  <2>3. ASSUME NEW at \in {"list", "listFeed"}, NEW rec \in Record,
               req' = [req EXCEPT ![r].at = at, ![r].theirs = rec]
        PROVE  Calm(r)
    <3> DEFINE q == [req[r] EXCEPT !.at = at, !.theirs = rec]
    <3>1. q \in Handling /\ q.op = req[r].op /\ q.at = at
      BY <2>1, <2>3, Facts DEF Handling, Stages
    <3>2. req' = [req EXCEPT ![r] = q]
      BY <2>3
    <3> HIDE DEF q
    <3>3. Idler(q) /\ Knows(q)
      BY <2>1, <3>1 DEF Idler, Knows
    <3> QED BY <1>1, <2>1, <3>1, <3>2, <3>3 DEF Calm
  <2> QED BY <1>3, <2>2, <2>3, Facts DEF FollowLoad, UnfollowLoad
<1>4. ASSUME NEW x \in Names, NEW at \in {"fixed", "fixedFeed"}, NEW rec \in Record,
             FixFollowersArrive(r, x, at, rec)
      PROVE  Calm(r)
  <2> DEFINE more == {u \in DOMAIN users : Follows(users[u], x)}
             theirs == [rec EXCEPT !.followers = @ \cup more]
             q == [op |-> "followers", at |-> at, u |-> x, x |-> x, arg |-> x,
                   mine |-> rec, theirs |-> theirs]
  <2>1. more \subseteq Names
    BY Facts
  <2> HIDE DEF more
  <2>2. theirs \in Record /\ theirs.feeds = rec.feeds
    BY <2>1 DEF Record
  <2> HIDE DEF theirs
  <2>3. q \in Handling /\ Idler(q) /\ Knows(q)
    BY <1>4, <2>2 DEF Handling, Ops, Stages, Idler, Knows
  <2>4. req' = [req EXCEPT ![r] = q] /\ Idler(req[r])
    BY <1>4 DEF FixFollowersArrive, more, theirs, Idler
  <2> HIDE DEF q
  <2> QED BY <1>1, <2>3, <2>4 DEF Calm
<1> QED BY <1>2, <1>3, <1>4, Facts

(* A new account owns no feed, and one that it replaces hurts its feeds.   *)
LEMMA RegisterSaveCalm ==
  ASSUME Typed, FeedsInv, NEW r \in Requests, RegisterSave(r)
  PROVE  Calm(r)
<1> DEFINE u == req[r].u
           lost == UNION {users[n].feeds : n \in DOMAIN users \cap {u}}
<1>1. /\ req[r] # Idle /\ Idler(req[r]) /\ End(r) /\ users' = Put(users, u, Fresh({}))
      /\ hurt \subseteq hurt' /\ lost \subseteq hurt' /\ feeds' = feeds /\ archived' = archived
  BY DEF RegisterSave, At, Idler
<1>2. ASSUME NEW x \in Names \ hurt'
      PROVE  Owners(x)' = Owners(x)
  <2>1. x \notin Fresh({}).feeds /\ u \notin Owners(x)
    BY <1>1, <1>2 DEF Owners, Fresh
  <2>2. DOMAIN users' = DOMAIN users \cup {u}
        /\ \A n \in DOMAIN users' : users'[n] = IF n = u THEN Fresh({}) ELSE users[n]
    BY <1>1 DEF Put
  <2> QED BY <2>1, <2>2 DEF Owners
<1>3. Steady
  BY <1>1, <1>2 DEF Steady
<1> QED BY <1>1, <1>3, Continues

(* What another request has not finished with is nobody else's concern.    *)
LEMMA NobodyElse ==
  ASSUME Typed, FeedsInv, NEW r \in Requests, NEW x, x = req[r].x, x \notin OthersWith(r)
  PROVE  /\ (Starting(x) \cup Mending(x)) \cup (Moving(x) \cup Ending(x)) \subseteq {r}
         /\ Owners(x) \subseteq {req[r].u}
<1>1. ASSUME NEW o \in Requests \ {r}, o \in (Starting(x) \cup Mending(x)) \cup (Moving(x) \cup Ending(x))
      PROVE  FALSE
  <2>1. x \notin Halfway(o)
    BY <1>1 DEF OthersWith
  <2>2. o \in Ending(x) => req[o] # Idle /\ req[o].at \in {"file", "next", "account"}
    BY KnownIs DEF Ending, Knows
  <2> QED BY <1>1, <2>1, <2>2 DEF Halfway, Starting, Mending, Moving, Ending, At
<1>2. Owners(x) \subseteq {req[r].u}
  <2> DEFINE shared == IF Owners(req[r].x) \subseteq {req[r].u} THEN {} ELSE {req[r].x}
             theirs == UNION {Halfway(o) : o \in Requests \ {r}}
  <2>1. OthersWith(r) = theirs \cup shared
    BY DEF OthersWith
  <2> HIDE DEF theirs
  <2> QED BY <2>1
<1> QED BY <1>1, <1>2 DEF Starting, Mending, Moving, Ending

(* A step about another feed.                                              *)
LEMMA FeedStays ==
  ASSUME Typed, NEW r \in Requests, NEW q \in Handling \cup {Idle}, req' = [req EXCEPT ![r] = q],
         NEW x, Owned(x), Dealt(x), Owners(x)' = Owners(x),
         x \in DOMAIN feeds' <=> x \in DOMAIN feeds, archived \subseteq archived',
         ~Founds(req[r], x), ~Mends(req[r], x), ~Gives(req[r], x),
         ~Founds(q, x), ~Mends(q, x), ~Gives(q, x), Ends(req[r], x) => Ends(q, x),
         Deals(q, x, x \in DOMAIN feeds')
  PROVE  Owned(x)' /\ Dealt(x)'
<1>1. /\ Starting(x)' = Starting(x) \ {r} /\ Mending(x)' = Mending(x) \ {r}
      /\ Moving(x)' = Moving(x) \ {r} /\ Ending(x) \subseteq Ending(x)'
  <2>1. /\ Starting(x)' = Starting(x) \ {r} /\ Mending(x)' = Mending(x) \ {r}
        /\ Moving(x)' = Moving(x) \ {r}
        /\ Ending(x)' = IF Ends(q, x) THEN Ending(x) \cup {r} ELSE Ending(x) \ {r}
    BY FeedSetsMove
  <2>2. r \in Ending(x) <=> Ends(req[r], x)
    BY WhoseFeed
  <2> QED BY <2>1, <2>2
<1>2. r \notin Starting(x) /\ r \notin Mending(x) /\ r \notin Moving(x)
  BY WhoseFeed
<1>3. Owned(x)'
  <2>1. Starting(x)' = Starting(x) /\ Mending(x)' = Mending(x) /\ Moving(x)' = Moving(x)
    BY <1>1, <1>2
  <2> QED BY <1>1, <2>1, OwnedStays
<1> QED BY <1>3, DealtStays

(* The record of the feed is saved: nobody owns it or is at work on it,    *)
(* but the user, and this request goes on to the user's record.            *)
LEMMA FeedSaveOwns ==
  ASSUME Typed, NamesInv, FeedsInv, NEW r \in Requests, FeedSave(r)
  PROVE  FeedsInv'
<1> DEFINE x == req[r].x
           u == req[r].u
           q == [req[r] EXCEPT !.at = "own"]
<1>1. /\ req[r] # Idle /\ req[r].op \in {"feed", "fix"} /\ req[r].at = "feed"
      /\ x \in Names /\ u \in Names
  BY Facts DEF FeedSave, At
<1>2. /\ q \in Handling /\ q.at = "own" /\ q.op = req[r].op /\ q.u = u /\ q.x = x
      /\ req' = [req EXCEPT ![r] = q]
  <2>1. "own" \in Stages /\ Go(r, "own")
    BY DEF FeedSave, Stages
  <2> QED BY <1>1, <2>1, GoIs
<1>3. q # Idle
  BY <1>2, NotIdle
<1> HIDE DEF q
<1>4. /\ users' = users /\ archived' = archived /\ hurt \subseteq hurt'
      /\ DOMAIN feeds' = DOMAIN feeds \cup {x}
      /\ {x} \cap OthersWith(r) \subseteq hurt'
      /\ req[r].op = "feed" => {x} \cap DOMAIN feeds \subseteq hurt'
  BY DEF FeedSave, Put
<1>5. \A s \in Requests : req'[s] = Idle \/ Known(s)'
  <2>1. Knows(q)
    BY <1>1, <1>2 DEF Knows
  <2> QED BY <1>2, <2>1, KnownStays DEF FeedsInv
<1>6. ASSUME NEW y \in Names \ hurt'
      PROVE  Owned(y)' /\ Dealt(y)'
  <2>1. Owned(y) /\ Dealt(y) /\ Owners(y)' = Owners(y)
    BY <1>4, <1>6, OwnersAre DEF FeedsInv
  <2>2. /\ ~Founds(req[r], y) /\ ~Mends(req[r], y) /\ ~Gives(req[r], y) /\ ~Ends(req[r], y)
        /\ Founds(q, y) <=> req[r].op = "feed" /\ y = x
        /\ Mends(q, y) <=> req[r].op = "fix" /\ y = x
        /\ ~Gives(q, y) /\ ~Ends(q, y) /\ Deals(q, y, y \in DOMAIN feeds')
    BY <1>1, <1>2, <1>3 DEF Founds, Mends, Gives, Ends, Deals
  <2>3. CASE y # x
    BY <1>2, <1>4, <2>1, <2>2, <2>3, FeedStays
  <2>4. CASE y = x
    <3>1. /\ Starting(y) = {} /\ Mending(y) = {} /\ Moving(y) = {} /\ Ending(y) = {}
          /\ Owners(y) \subseteq {u}
      <4>1. /\ (Starting(y) \cup Mending(y)) \cup (Moving(y) \cup Ending(y)) \subseteq {r}
            /\ Owners(y) \subseteq {u}
        BY <1>4, <1>6, <2>4, NobodyElse
      <4>2. r \notin Starting(y) /\ r \notin Mending(y) /\ r \notin Moving(y) /\ r \notin Ending(y)
        BY <2>2, WhoseFeed
      <4> QED BY <4>1, <4>2
    <3>2. /\ Starting(y)' = IF req[r].op = "feed" THEN {r} ELSE {}
          /\ Mending(y)' = IF req[r].op = "fix" THEN {r} ELSE {}
          /\ Moving(y)' = {}
      <4>1. /\ Starting(y)' = IF Founds(q, y) THEN Starting(y) \cup {r} ELSE Starting(y) \ {r}
            /\ Mending(y)' = IF Mends(q, y) THEN Mending(y) \cup {r} ELSE Mending(y) \ {r}
            /\ Moving(y)' = IF Gives(q, y) THEN Moving(y) \cup {r} ELSE Moving(y) \ {r}
        BY <1>2, FeedSetsMove
      <4> QED BY <2>2, <2>4, <3>1, <4>1
    <3>3. req[r].op = "feed" => Owners(y) = {}
      BY <1>4, <1>6, <2>1, <2>4, <3>1 DEF Owned
    <3>4. Owned(y)'
      BY <1>1, <1>4, <2>1, <2>4, <3>1, <3>2, <3>3 DEF Owned
    <3>5. Dealt(y)'
      <4> SUFFICES ASSUME NEW s \in Requests, req'[s] # Idle, req'[s].op = "delete",
                          y \in req'[s].mine.feeds
                   PROVE  /\ req'[s].at = "own" => y \in req'[s].theirs.feeds
                          /\ y \in DOMAIN feeds' => y \in req'[s].theirs.feeds /\ s \notin Emptying(y)'
        BY DEF Dealt
      <4>1. s # r /\ req'[s] = req[s]
        BY <1>1, <1>2, Moves
      <4>2. req[s].at = "own"
        BY <3>1, <4>1 DEF Ending
      <4> QED BY <2>1, <4>1, <4>2 DEF Dealt, Emptying, At
    <3> QED BY <3>4, <3>5
  <2> QED BY <2>3, <2>4
<1> QED BY <1>5, <1>6 DEF FeedsInv

(* The owner is saved: the feed is there, and the user its only owner.     *)
LEMMA FeedSaveOwnOwns ==
  ASSUME Typed, FeedsInv, NEW r \in Requests, FeedSaveOwn(r)
  PROVE  FeedsInv'
<1> DEFINE x == req[r].x
           u == req[r].u
           rec == Creating(req[r].mine, x)
<1>1. /\ req[r] # Idle /\ req[r].op \in {"feed", "fix"} /\ req[r].at = "own"
      /\ x \in Names /\ u \in Names /\ req[r].mine \in Record
  BY Facts DEF FeedSaveOwn, At
<1>2. /\ SaveOwn(r, rec, {}) /\ req' = [req EXCEPT ![r] = Idle] /\ archived' = archived
  BY DEF FeedSaveOwn, End
<1>3. rec \in Record /\ rec.feeds = req[r].mine.feeds \cup {x}
  BY <1>1, RecordsMade DEF Creating, Owning, Following, Record
<1>4. /\ {x} \ DOMAIN feeds \subseteq hurt'
      /\ req[r].op = "fix" => {x} \cap OthersWith(r) \subseteq hurt'
  BY <1>1, <1>2 DEF SaveOwn
<1> HIDE DEF rec
<1>5. \A s \in Requests : req'[s] = Idle \/ Known(s)'
  BY <1>2, KnownStays DEF FeedsInv, Knows
<1>6. ASSUME NEW y \in Names \ hurt'
      PROVE  Owned(y)' /\ Dealt(y)'
  <2>1. /\ Owners(y)' = (Owners(y) \ {u}) \cup (IF y \in rec.feeds THEN {u} ELSE {})
        /\ u \in Owners(y) <=> y \in req[r].mine.feeds
        /\ (y \in rec.feeds <=> y \in req[r].mine.feeds) => Owners(y)' = Owners(y)
        /\ hurt \subseteq hurt' /\ feeds' = feeds
    BY <1>1, <1>2, <1>3, <1>6, SavedOwn
  <2>2. Owned(y) /\ Dealt(y)
    BY <1>6, <2>1 DEF FeedsInv
  <2>3. /\ Founds(req[r], y) <=> req[r].op = "feed" /\ y = x
        /\ Mends(req[r], y) <=> req[r].op = "fix" /\ y = x
        /\ ~Gives(req[r], y) /\ ~Ends(req[r], y)
        /\ ~Founds(Idle, y) /\ ~Mends(Idle, y) /\ ~Gives(Idle, y) /\ ~Ends(Idle, y)
        /\ Deals(Idle, y, y \in DOMAIN feeds')
    BY <1>1 DEF Founds, Mends, Gives, Ends, Deals
  <2>4. CASE y # x
    <3>1. Owners(y)' = Owners(y)
      BY <1>3, <2>1, <2>4
    <3> QED BY <1>2, <2>1, <2>2, <2>3, <2>4, <3>1, FeedStays
  <2>5. CASE y = x
    <3>1. y \in DOMAIN feeds /\ Owners(y) \subseteq {u} /\ Starting(y) \ {r} = {} /\ Moving(y) = {}
      <4>1. CASE req[r].op = "feed"
        <5>1. r \in Starting(y)
          BY <2>3, <2>5, <4>1, WhoseFeed
        <5> QED BY <1>4, <1>6, <2>2, <2>5, <5>1 DEF Owned
      <4>2. CASE req[r].op = "fix"
        <5>1. /\ (Starting(y) \cup Mending(y)) \cup (Moving(y) \cup Ending(y)) \subseteq {r}
              /\ Owners(y) \subseteq {u}
          BY <1>4, <1>6, <2>5, <4>2, NobodyElse
        <5>2. r \notin Moving(y)
          BY <2>3, WhoseFeed
        <5> QED BY <1>4, <1>6, <2>5, <5>1, <5>2
      <4> QED BY <1>1, <4>1, <4>2
    <3>2. Owners(y)' = {u}
      BY <1>3, <2>1, <2>5, <3>1
    <3>3. Starting(y)' = {} /\ Moving(y)' = {}
      BY <1>2, <2>3, <3>1, FeedSetsMove
    <3>4. Owned(y)'
      BY <2>1, <3>1, <3>2, <3>3 DEF Owned
    <3>5. Dealt(y)'
      BY <1>2, <2>1, <2>2, <2>3, DealtStays
    <3> QED BY <3>4, <3>5
  <2> QED BY <2>4, <2>5
<1> QED BY <1>5, <1>6 DEF FeedsInv

(* Whoever archives a feed owned it, and nobody else did.                  *)
LEMMA ArchiveSaveOwnOwns ==
  ASSUME Typed, FeedsInv, NEW r \in Requests, ArchiveSaveOwn(r)
  PROVE  FeedsInv'
<1> DEFINE x == req[r].x
           u == req[r].u
           rec == Detaching(req[r].mine, x)
           q == [req[r] EXCEPT !.at = "other"]
<1>1. /\ req[r] # Idle /\ req[r].op = "archive" /\ req[r].at = "own"
      /\ x \in Names /\ u \in Names /\ req[r].mine \in Record
  BY Facts DEF ArchiveSaveOwn, At
<1>2. /\ SaveOwn(r, rec, {x}) /\ archived' = archived \cup {x} /\ Go(r, "other")
  BY DEF ArchiveSaveOwn
<1>3. rec \in Record /\ rec.feeds = req[r].mine.feeds \ {x}
  <2>1. /\ Disowning(req[r].mine, x) \in Record
        /\ Disowning(req[r].mine, x).feeds = req[r].mine.feeds \ {x}
    BY <1>1, RecordsMade DEF Disowning, Record
  <2>2. \A d \in Record : \A f : [d EXCEPT !.following = f].feeds = d.feeds
    BY DEF Record
  <2> QED BY <1>1, <2>1, <2>2, RecordsMade DEF Detaching
<1>4. q \in Handling /\ q.at = "other" /\ q.op = "archive" /\ req' = [req EXCEPT ![r] = q]
  <2>1. "other" \in Stages
    BY DEF Stages
  <2> QED BY <1>1, <1>2, <2>1, GoIs
<1> HIDE DEF rec, q
<1>5. \A s \in Requests : req'[s] = Idle \/ Known(s)'
  <2>1. Knows(q)
    BY <1>4 DEF Knows
  <2> QED BY <1>4, <2>1, KnownStays DEF FeedsInv
<1>6. x \in req[r].mine.feeds
  BY <1>1, KnownIs DEF Knows
<1>7. ASSUME NEW y \in Names \ hurt'
      PROVE  Owned(y)' /\ Dealt(y)'
  <2>1. /\ Owners(y)' = (Owners(y) \ {u}) \cup (IF y \in rec.feeds THEN {u} ELSE {})
        /\ u \in Owners(y) <=> y \in req[r].mine.feeds
        /\ (y \in rec.feeds <=> y \in req[r].mine.feeds) => Owners(y)' = Owners(y)
        /\ hurt \subseteq hurt' /\ feeds' = feeds
    BY <1>1, <1>2, <1>3, <1>7, SavedOwn
  <2>2. Owned(y) /\ Dealt(y)
    BY <1>7, <2>1 DEF FeedsInv
  <2>3. Idler(req[r]) /\ Idler(q)
    BY <1>1, <1>4 DEF Idler
  <2>4. /\ ~Founds(req[r], y) /\ ~Mends(req[r], y) /\ ~Gives(req[r], y) /\ ~Ends(req[r], y)
        /\ ~Founds(q, y) /\ ~Mends(q, y) /\ ~Gives(q, y) /\ ~Ends(q, y)
        /\ Deals(q, y, y \in DOMAIN feeds')
    BY <2>3, IdlerIs
  <2>5. CASE y # x
    <3>1. Owners(y)' = Owners(y)
      BY <1>3, <2>1, <2>5
    <3> QED BY <1>2, <1>4, <2>1, <2>2, <2>4, <3>1, FeedStays
  <2>6. CASE y = x
    <3>1. Owners(y) = {u} /\ Starting(y) = {} /\ Moving(y) = {}
      BY <1>6, <2>1, <2>2, <2>6 DEF Owned
    <3>2. Owners(y)' = {} /\ y \in archived'
      BY <1>2, <1>3, <2>1, <2>6, <3>1
    <3>3. Starting(y)' = {} /\ Moving(y)' = {}
      <4>1. Starting(y)' = Starting(y) \ {r} /\ Moving(y)' = Moving(y) \ {r}
        BY <1>4, <2>4, FeedSetsMove
      <4> QED BY <3>1, <4>1
    <3>4. Owned(y)'
      BY <3>2, <3>3 DEF Owned
    <3>5. Dealt(y)'
      BY <1>4, <2>1, <2>2, <2>4, DealtStays
    <3> QED BY <3>4, <3>5
  <2> QED BY <2>5, <2>6
<1> QED BY <1>5, <1>7 DEF FeedsInv

(* The first save of a transfer: the user owned the feed, and nobody does  *)
(* until the second.                                                       *)
LEMMA TransferFromOwns ==
  ASSUME Typed, FeedsInv, NEW r \in Requests, TransferFrom(r)
  PROVE  FeedsInv'
<1> DEFINE x == req[r].x
           u == req[r].u
           rec == Disowning(req[r].mine, x)
           q == [req[r] EXCEPT !.at = "other"]
<1>1. /\ req[r] # Idle /\ req[r].op = "transfer" /\ req[r].at = "own"
      /\ x \in Names /\ u \in Names /\ req[r].mine \in Record
  BY Facts DEF TransferFrom, At
<1>2. /\ SaveOwn(r, rec, {}) /\ archived' = archived /\ Go(r, "other")
  BY DEF TransferFrom
<1>3. rec \in Record /\ rec.feeds = req[r].mine.feeds \ {x}
  BY <1>1, RecordsMade DEF Disowning, Record
<1>4. /\ q \in Handling /\ q.at = "other" /\ q.op = "transfer" /\ q.x = x
      /\ req' = [req EXCEPT ![r] = q]
  <2>1. "other" \in Stages
    BY DEF Stages
  <2> QED BY <1>1, <1>2, <2>1, GoIs
<1>5. q # Idle
  BY <1>4, NotIdle
<1> HIDE DEF rec, q
<1>6. {x} \ req[r].mine.feeds \subseteq hurt'
  BY <1>1, <1>2 DEF SaveOwn
<1>7. \A s \in Requests : req'[s] = Idle \/ Known(s)'
  <2>1. Knows(q)
    BY <1>4 DEF Knows
  <2> QED BY <1>4, <2>1, KnownStays DEF FeedsInv
<1>8. ASSUME NEW y \in Names \ hurt'
      PROVE  Owned(y)' /\ Dealt(y)'
  <2>1. /\ Owners(y)' = (Owners(y) \ {u}) \cup (IF y \in rec.feeds THEN {u} ELSE {})
        /\ u \in Owners(y) <=> y \in req[r].mine.feeds
        /\ (y \in rec.feeds <=> y \in req[r].mine.feeds) => Owners(y)' = Owners(y)
        /\ hurt \subseteq hurt' /\ feeds' = feeds
    BY <1>1, <1>2, <1>3, <1>8, SavedOwn
  <2>2. Owned(y) /\ Dealt(y)
    BY <1>8, <2>1 DEF FeedsInv
  <2>3. /\ ~Founds(req[r], y) /\ ~Mends(req[r], y) /\ ~Gives(req[r], y) /\ ~Ends(req[r], y)
        /\ ~Founds(q, y) /\ ~Mends(q, y) /\ ~Ends(q, y)
        /\ Gives(q, y) <=> y = x
        /\ Deals(q, y, y \in DOMAIN feeds')
    BY <1>1, <1>4, <1>5 DEF Founds, Mends, Gives, Ends, Deals
  <2>4. CASE y # x
    <3>1. Owners(y)' = Owners(y)
      BY <1>3, <2>1, <2>4
    <3> QED BY <1>2, <1>4, <2>1, <2>2, <2>3, <2>4, <3>1, FeedStays
  <2>5. CASE y = x
    <3>1. Owners(y) = {u} /\ Starting(y) = {} /\ Moving(y) = {}
      BY <1>6, <1>8, <2>1, <2>2, <2>5 DEF Owned
    <3>2. Owners(y)' = {}
      BY <1>3, <2>1, <2>5, <3>1
    <3>3. Starting(y)' = {} /\ Moving(y)' = {r} /\ Ending(y)' = Ending(y)
      <4>1. /\ Starting(y)' = Starting(y) \ {r} /\ Moving(y)' = Moving(y) \cup {r}
            /\ Ending(y)' = Ending(y) \ {r}
        BY <1>4, <2>3, <2>5, FeedSetsMove
      <4>2. r \notin Ending(y)
        BY <2>3, WhoseFeed
      <4> QED BY <3>1, <4>1, <4>2
    <3>4. Owned(y)'
      BY <2>1, <2>2, <3>1, <3>2, <3>3 DEF Owned
    <3>5. Dealt(y)'
      BY <1>4, <2>1, <2>2, <2>3, DealtStays
    <3> QED BY <3>4, <3>5
  <2> QED BY <2>4, <2>5
<1> QED BY <1>7, <1>8 DEF FeedsInv

(* The second: the other user, or the same, is its only owner.             *)
LEMMA TransferToOwns ==
  ASSUME Typed, FeedsInv, NEW r \in Requests, TransferTo(r)
  PROVE  FeedsInv'
<1> DEFINE x == req[r].x
           z == req[r].arg
           rec == Owning(req[r].theirs, x)
           read == IF z = req[r].u THEN Disowning(req[r].theirs, x) ELSE req[r].theirs
<1>1. /\ req[r] # Idle /\ req[r].op = "transfer" /\ req[r].at = "other"
      /\ x \in Names /\ z \in Names /\ req[r].theirs \in Record
  BY Facts DEF TransferTo, At
<1>2. /\ users' = Put(users, z, rec) /\ req' = [req EXCEPT ![r] = Idle]
      /\ hurt \subseteq hurt' /\ Met(users, z, read) \subseteq hurt'
      /\ feeds' = feeds /\ archived' = archived
  BY DEF TransferTo, End
<1>3. /\ rec \in Record /\ rec.feeds = req[r].theirs.feeds \cup {x}
      /\ read \in Record
      /\ \A y \in Names \ {x} : y \in rec.feeds <=> y \in read.feeds
  BY <1>1, RecordsMade DEF Owning, Disowning, Record
<1> HIDE DEF rec, read
<1>4. \A s \in Requests : req'[s] = Idle \/ Known(s)'
  BY <1>2, KnownStays DEF FeedsInv, Knows
<1>5. ASSUME NEW y \in Names \ hurt'
      PROVE  Owned(y)' /\ Dealt(y)'
  <2>1. Owned(y) /\ Dealt(y) /\ y \notin Met(users, z, read)
    BY <1>2, <1>5 DEF FeedsInv
  <2>2. /\ ~Founds(req[r], y) /\ ~Mends(req[r], y) /\ ~Ends(req[r], y)
        /\ Gives(req[r], y) <=> y = x
        /\ ~Founds(Idle, y) /\ ~Mends(Idle, y) /\ ~Gives(Idle, y) /\ ~Ends(Idle, y)
        /\ Deals(Idle, y, y \in DOMAIN feeds')
    BY <1>1 DEF Founds, Mends, Gives, Ends, Deals
  <2>3. CASE y # x
    <3>1. Owners(y)' = Owners(y)
      BY <1>1, <1>2, <1>3, <2>1, <2>3, OwnersKept
    <3> QED BY <1>2, <2>1, <2>2, <2>3, <3>1, FeedStays
  <2>4. CASE y = x
    <3>1. r \in Moving(y)
      BY <2>2, <2>4, WhoseFeed
    <3>2. Owners(y) = {} /\ Moving(y) = {r} /\ Starting(y) = {}
      BY <2>1, <3>1 DEF Owned
    <3>3. Owners(y)' = {z}
      <4>1. Owners(y)' = (Owners(y) \ {z}) \cup (IF y \in rec.feeds THEN {z} ELSE {})
        BY <1>1, <1>2, <1>3, <2>1, OwnersPut
      <4> QED BY <1>3, <2>4, <3>2, <4>1
    <3>4. Starting(y)' = {} /\ Moving(y)' = {} /\ Ending(y)' = Ending(y)
      <4>1. /\ Starting(y)' = Starting(y) \ {r} /\ Moving(y)' = Moving(y) \ {r}
            /\ Ending(y)' = Ending(y) \ {r}
        BY <1>2, <2>2, FeedSetsMove
      <4>2. r \notin Ending(y)
        BY <2>2, WhoseFeed
      <4> QED BY <3>2, <4>1, <4>2
    <3>5. Owned(y)'
      BY <1>2, <2>1, <3>2, <3>3, <3>4 DEF Owned
    <3>6. Dealt(y)'
      BY <1>2, <2>1, <2>2, DealtStays
    <3> QED BY <3>5, <3>6
  <2> QED BY <2>3, <2>4
<1> QED BY <1>4, <1>5 DEF FeedsInv

(* A deletion knows the feeds of the account, and has all of them to       *)
(* delete that are there.                                                  *)
LEMMA DeleteArriveOwns ==
  ASSUME Typed, FeedsInv, NEW r \in Requests, NEW u \in Names, DeleteArrive(r, u)
  PROVE  FeedsInv'
<1> DEFINE theirs == [Fresh({}) EXCEPT !.feeds = users[u].feeds \cap DOMAIN feeds]
<1>1. /\ u \in DOMAIN users /\ users[u] \in Record /\ req[r] = Idle
      /\ users[u].feeds \ DOMAIN feeds \subseteq hurt'
      /\ hurt \subseteq hurt' /\ users' = users /\ feeds' = feeds /\ archived' = archived
  BY Facts DEF DeleteArrive, Load
<1>2. theirs \in Record /\ theirs.feeds = users[u].feeds \cap DOMAIN feeds
  BY <1>1, Facts DEF Record
<1>3. Load(r, "delete", "own", u, u, u, theirs) /\ hurt' \in SUBSET Names
  BY <1>1, Facts DEF DeleteArrive, Record, Typed
<1> HIDE DEF theirs
<1>4. \E q \in Handling :
        /\ q.op = "delete" /\ q.at = "own" /\ q.u = u /\ q.x = u
        /\ q.mine = IF u \in DOMAIN users THEN users[u] ELSE Fresh({})
        /\ q.theirs = theirs /\ req' = [req EXCEPT ![r] = q]
  BY <1>2, <1>3, Arrives DEF Ops, Stages
<1>5. PICK q \in Handling : /\ q.op = "delete" /\ q.at = "own" /\ q.mine = users[u]
                            /\ q.theirs = theirs /\ req' = [req EXCEPT ![r] = q]
  BY <1>1, <1>4
<1>6. \A s \in Requests : req'[s] = Idle \/ Known(s)'
  <2>1. Knows(q)
    BY <1>2, <1>5 DEF Knows
  <2> QED BY <1>5, <2>1, KnownStays DEF FeedsInv
<1>7. ASSUME NEW y \in Names \ hurt'
      PROVE  Owned(y)' /\ Dealt(y)'
  <2>1. Owned(y) /\ Dealt(y) /\ Owners(y)' = Owners(y)
    BY <1>1, <1>7, OwnersAre DEF FeedsInv
  <2>2. /\ ~Founds(req[r], y) /\ ~Mends(req[r], y) /\ ~Gives(req[r], y) /\ ~Ends(req[r], y)
        /\ ~Founds(q, y) /\ ~Mends(q, y) /\ ~Gives(q, y)
    BY <1>1, <1>5 DEF Founds, Mends, Gives, Ends
  <2>3. Deals(q, y, y \in DOMAIN feeds')
    BY <1>1, <1>2, <1>5, <1>7 DEF Deals
  <2> QED BY <1>1, <1>5, <2>1, <2>2, <2>3, FeedStays
<1> QED BY <1>6, <1>7 DEF FeedsInv

LEMMA DeleteStopsOwns ==
  ASSUME Typed, FeedsInv, NEW r \in Requests, NEW x \in Names, DeleteFeed(r, x), End(r)
  PROVE  FeedsInv'
<1>1. req[r] # Idle /\ req[r].op = "delete" /\ req' = [req EXCEPT ![r] = Idle]
  BY DEF DeleteFeed, At, End
<1>2. /\ hurt' = hurt \cup {req[r].u} \cup req[r].mine.feeds
      /\ users' = users /\ feeds' = feeds /\ archived' = archived
  BY GivesUp
<1>3. \A s \in Requests : req'[s] = Idle \/ Known(s)'
  BY <1>1, KnownStays DEF FeedsInv, Knows
<1>4. ASSUME NEW y \in Names \ hurt'
      PROVE  Owned(y)' /\ Dealt(y)'
  <2>1. Owned(y) /\ Dealt(y) /\ Owners(y)' = Owners(y) /\ y \notin req[r].mine.feeds
    BY <1>2, <1>4, OwnersAre DEF FeedsInv
  <2>2. /\ ~Founds(req[r], y) /\ ~Mends(req[r], y) /\ ~Gives(req[r], y) /\ ~Ends(req[r], y)
        /\ ~Founds(Idle, y) /\ ~Mends(Idle, y) /\ ~Gives(Idle, y)
        /\ Deals(Idle, y, y \in DOMAIN feeds')
    BY <1>1, <2>1 DEF Founds, Mends, Gives, Ends, Deals
  <2> QED BY <1>1, <1>2, <2>1, <2>2, FeedStays
<1> QED BY <1>3, <1>4 DEF FeedsInv

(* The owner of a feed that goes is the account that is being deleted.     *)
LEMMA DeleteGoesOnOwns ==
  ASSUME Typed, NamesInv, FeedsInv, NEW r \in Requests, NEW x \in Names, DeleteFeed(r, x), ~End(r)
  PROVE  FeedsInv'
<1> DEFINE q == [req[r] EXCEPT !.at = "file", !.x = x]
           theirs == req[r].theirs
<1>1. /\ req[r] # Idle /\ req[r].op = "delete" /\ req[r].at \in {"own", "next"}
      /\ req[r] \in Handling /\ theirs.feeds \subseteq req[r].mine.feeds
  BY HandlingIs, KnownIs DEF DeleteFeed, At, Knows
<1>2. /\ IF theirs.feeds = {} THEN x = req[r].u ELSE x \in theirs.feeds
      /\ feeds' = Without(feeds, x)
      /\ req' = [req EXCEPT ![r].at = "file", ![r].x = x]
      /\ users' = users /\ archived' = archived /\ hurt \subseteq hurt'
  BY DEF DeleteFeed
<1>3. /\ q \in Handling /\ q.at = "file" /\ q.op = "delete" /\ q.x = x
      /\ q.theirs = theirs /\ q.mine = req[r].mine /\ req' = [req EXCEPT ![r] = q]
  BY <1>1, <1>2 DEF Handling, Stages
<1>4. q # Idle
  BY <1>3, NotIdle
<1> HIDE DEF q
<1>5. DOMAIN feeds' = DOMAIN feeds \ {x}
  BY <1>2, WithoutRecord DEF Typed
<1>6. \A s \in Requests : req'[s] = Idle \/ Known(s)'
  <2>1. Knows(q)
    BY <1>1, <1>3 DEF Knows
  <2> QED BY <1>3, <2>1, KnownStays DEF FeedsInv
<1>7. ASSUME NEW y \in Names \ hurt'
      PROVE  Owned(y)' /\ Dealt(y)'
  <2>1. Owned(y) /\ Dealt(y) /\ Owners(y)' = Owners(y) /\ Good(y)
    BY <1>2, <1>7, OwnersAre DEF FeedsInv, NamesInv, Good
  <2>2. /\ ~Founds(req[r], y) /\ ~Mends(req[r], y) /\ ~Gives(req[r], y)
        /\ ~Founds(q, y) /\ ~Mends(q, y) /\ ~Gives(q, y)
        /\ Ends(q, y) <=> y \in req[r].mine.feeds
        /\ Ends(req[r], y) => y \in req[r].mine.feeds
    BY <1>1, <1>3, <1>4 DEF Founds, Mends, Gives, Ends
  <2>3. Deals(q, y, y \in DOMAIN feeds')
    <3>1. Deals(req[r], y, y \in DOMAIN feeds)
      BY <2>1, DealtIs
    <3> QED BY <1>1, <1>3, <1>5, <3>1 DEF Deals
  <2>4. CASE y \in DOMAIN feeds' <=> y \in DOMAIN feeds
    BY <1>2, <1>3, <2>1, <2>2, <2>3, <2>4, FeedStays
  <2>5. CASE y = x /\ y \in DOMAIN feeds
    <3>1. y \in theirs.feeds
      <4>1. CASE theirs.feeds = {}
        <5>1. r \in Deleting(y)
          BY <1>1, <1>2, <2>5, <4>1 DEF Deleting
        <5> QED BY <2>1, <2>5, <5>1 DEF Good, Held, GivenUp
      <4> QED BY <1>2, <2>5, <4>1
    <3>2. /\ Starting(y)' = Starting(y) /\ Mending(y)' = Mending(y) /\ Moving(y)' = Moving(y)
          /\ r \in Ending(y)'
      <4>1. /\ Starting(y)' = Starting(y) \ {r} /\ Mending(y)' = Mending(y) \ {r}
            /\ Moving(y)' = Moving(y) \ {r} /\ Ending(y)' = Ending(y) \cup {r}
        BY <1>1, <1>3, <2>2, <3>1, FeedSetsMove
      <4>2. r \notin Starting(y) /\ r \notin Mending(y) /\ r \notin Moving(y)
        BY <2>2, WhoseFeed
      <4> QED BY <4>1, <4>2
    <3>3. Owned(y)'
      BY <1>5, <2>1, <2>5, <3>2 DEF Owned
    <3>4. Dealt(y)'
      BY <1>3, <1>5, <2>1, <2>3, DealtStays
    <3> QED BY <3>3, <3>4
  <2> QED BY <1>5, <2>4, <2>5
<1> QED BY <1>6, <1>7 DEF FeedsInv

LEMMA DeleteFileOwns ==
  ASSUME Typed, NamesInv, FeedsInv, NEW r \in Requests, DeleteFile(r)
  PROVE  FeedsInv'
<1> DEFINE x == req[r].x
           to == IF req[r].theirs.feeds = {} THEN "account" ELSE "next"
           rest == [req[r].theirs EXCEPT !.feeds = @ \ {x}]
           q == [req[r] EXCEPT !.at = to, !.theirs = rest]
<1>1. /\ req[r] # Idle /\ req[r].op = "delete" /\ req[r].at = "file"
      /\ req[r] \in Handling /\ req[r].theirs \in Record
      /\ req[r].theirs.feeds \subseteq req[r].mine.feeds
  BY Facts, KnownIs DEF DeleteFile, At, Knows
<1>2. /\ rest \in Record /\ rest.feeds = req[r].theirs.feeds \ {x} /\ to \in Stages
  BY <1>1 DEF Record, Stages
<1>3. req' = [req EXCEPT ![r] = q]
  BY DEF DeleteFile
<1>4. /\ q \in Handling /\ q.at = to /\ q.op = "delete" /\ q.mine = req[r].mine
      /\ q.theirs.feeds = req[r].theirs.feeds \ {x}
  <2> HIDE DEF rest, to
  <2> QED BY <1>1, <1>2 DEF Handling
<1>5. q # Idle
  BY <1>4, NotIdle
<1> HIDE DEF q, rest
<1>6. users' = users /\ feeds' = feeds /\ archived' = archived /\ hurt' = hurt
  BY DEF DeleteFile
<1>7. \A s \in Requests : req'[s] = Idle \/ Known(s)'
  <2>1. Knows(q)
    BY <1>1, <1>4 DEF Knows
  <2> QED BY <1>3, <1>4, <2>1, KnownStays DEF FeedsInv
<1>8. ASSUME NEW y \in Names \ hurt'
      PROVE  Owned(y)' /\ Dealt(y)'
  <2>1. Owned(y) /\ Dealt(y) /\ Owners(y)' = Owners(y)
    BY <1>6, <1>8, OwnersAre DEF FeedsInv
  <2>2. /\ ~Founds(req[r], y) /\ ~Mends(req[r], y) /\ ~Gives(req[r], y)
        /\ ~Founds(q, y) /\ ~Mends(q, y) /\ ~Gives(q, y)
        /\ Ends(req[r], y) => Ends(q, y)
    BY <1>1, <1>4, <1>5 DEF Founds, Mends, Gives, Ends
  <2>3. Deals(q, y, y \in DOMAIN feeds')
    <3>1. Deals(req[r], y, y \in DOMAIN feeds)
      BY <2>1, DealtIs
    <3> QED BY <1>1, <1>4, <1>6, <3>1 DEF Deals
  <2> QED BY <1>3, <1>4, <1>6, <2>1, <2>2, <2>3, FeedStays
<1> QED BY <1>7, <1>8 DEF FeedsInv

(* The account goes when all its feeds have gone: none is left behind.     *)
LEMMA DeleteAccountOwns ==
  ASSUME Typed, FeedsInv, NEW r \in Requests, DeleteAccount(r)
  PROVE  FeedsInv'
<1> DEFINE u == req[r].u
<1>1. /\ req[r] # Idle /\ req[r].op = "delete" /\ req[r].at = "account"
      /\ req[r].mine \in Record /\ u \in Names
      /\ req[r].theirs.feeds = {}
  BY Facts, KnownIs DEF DeleteAccount, At, Knows
<1>2. /\ req' = [req EXCEPT ![r] = Idle] /\ users' = Without(users, u)
      /\ hurt \subseteq hurt' /\ Met(users, u, req[r].mine) \subseteq hurt'
      /\ feeds' = feeds /\ archived' = archived
  BY DEF DeleteAccount, End
<1>3. \A s \in Requests : req'[s] = Idle \/ Known(s)'
  BY <1>2, KnownStays DEF FeedsInv, Knows
<1>4. ASSUME NEW y \in Names \ hurt'
      PROVE  Owned(y)' /\ Dealt(y)'
  <2>1. Owned(y) /\ Dealt(y)
    BY <1>2, <1>4 DEF FeedsInv
  <2>2. u \in Owners(y) <=> y \in req[r].mine.feeds
    BY <1>2, <1>4 DEF Met, Owners, Fresh
  <2>3. Owners(y)' = Owners(y) \ {u}
    BY <1>2 DEF Owners, Without, Restrict
  <2>4. /\ ~Founds(req[r], y) /\ ~Mends(req[r], y) /\ ~Gives(req[r], y)
        /\ Ends(req[r], y) <=> y \in req[r].mine.feeds
        /\ ~Founds(Idle, y) /\ ~Mends(Idle, y) /\ ~Gives(Idle, y) /\ ~Ends(Idle, y)
        /\ Deals(Idle, y, y \in DOMAIN feeds')
    BY <1>1 DEF Founds, Mends, Gives, Ends, Deals
  <2>5. CASE y \notin req[r].mine.feeds
    BY <1>2, <2>1, <2>2, <2>3, <2>4, <2>5, FeedStays
  <2>6. CASE y \in req[r].mine.feeds
    <3>1. Owners(y) = {u} /\ Starting(y) = {} /\ Moving(y) = {}
      BY <2>1, <2>2, <2>6 DEF Owned
    <3>2. Owners(y)' = {}
      BY <2>3, <3>1
    <3>3. y \notin DOMAIN feeds'
      BY <1>1, <1>2, <2>1, <2>6 DEF Dealt
    <3>4. Starting(y)' = {} /\ Moving(y)' = {}
      <4>1. Starting(y)' = Starting(y) \ {r} /\ Moving(y)' = Moving(y) \ {r}
        BY <1>2, <2>4, FeedSetsMove
      <4> QED BY <3>1, <4>1
    <3>5. Owned(y)'
      BY <3>2, <3>3, <3>4 DEF Owned
    <3>6. Dealt(y)'
      BY <1>2, <2>1, <2>4, DealtStays
    <3> QED BY <3>5, <3>6
  <2> QED BY <2>5, <2>6
<1> QED BY <1>3, <1>4 DEF FeedsInv

(* Requests between two saves have not finished with the feed.             *)
LEMMA OwningHalfway ==
  ASSUME FeedsInv, NEW x, NEW r \in (Starting(x) \cup Mending(x)) \cup (Moving(x) \cup Ending(x))
  PROVE  r \in Requests /\ x \in Halfway(r)
<1>1. r \in Ending(x) => req[r] # Idle /\ req[r].at \in {"file", "next", "account"}
  BY KnownIs DEF Ending, Knows
<1> QED BY <1>1 DEF Halfway, Starting, Mending, Moving, Ending, At

LEMMA RestartOwns ==
  ASSUME Typed, FeedsInv, Restart
  PROVE  FeedsInv'
<1>1. \A r \in Requests : req'[r] = Idle
  BY DEF Restart
<1>2. /\ hurt' = hurt \cup UNION {Halfway(r) : r \in Requests}
      /\ users' = users /\ feeds' = feeds /\ archived' = archived
  BY DEF Restart
<1>3. ASSUME NEW y \in Names \ hurt'
      PROVE  Owned(y)' /\ Dealt(y)'
  <2>1. Owned(y) /\ Owners(y)' = Owners(y)
    BY <1>2, <1>3, OwnersAre DEF FeedsInv
  <2>2. Starting(y) \cup Mending(y) = {} /\ Moving(y) \cup Ending(y) = {}
    <3> SUFFICES ASSUME NEW r \in (Starting(y) \cup Mending(y)) \cup (Moving(y) \cup Ending(y))
                 PROVE  FALSE
      OBVIOUS
    <3>1. r \in Requests /\ y \in Halfway(r)
      BY OwningHalfway
    <3> QED BY <1>2, <1>3, <3>1
  <2>3. Starting(y)' = {} /\ Mending(y)' = {} /\ Moving(y)' = {}
    BY <1>1 DEF Starting, Mending, Moving, At
  <2>4. Owned(y)'
    BY <1>2, <2>1, <2>2, <2>3 DEF Owned
  <2>5. Dealt(y)'
    BY <1>1 DEF Dealt
  <2> QED BY <2>4, <2>5
<1> QED BY <1>1, <1>3 DEF FeedsInv

LEMMA FeedsStart == Init => FeedsInv
<1> SUFFICES ASSUME Init
             PROVE  FeedsInv
  OBVIOUS
<1>1. DOMAIN feeds = {} /\ \A n \in DOMAIN users : users[n].feeds = {}
  BY DEF Init, Restrict, Fresh
<1>2. \A r \in Requests : req[r] = Idle
  BY DEF Init
<1>3. ASSUME NEW x \in Names
      PROVE  Owned(x) /\ Dealt(x)
  <2>1. Starting(x) = {} /\ Mending(x) = {} /\ Moving(x) = {}
    BY <1>2 DEF Starting, Mending, Moving, At
  <2>2. Owners(x) = {}
    BY <1>1 DEF Owners
  <2> QED BY <1>1, <1>2, <2>1, <2>2 DEF Owned, Dealt
<1> QED BY <1>2, <1>3 DEF FeedsInv

LEMMA FeedsStay == AccountsInv /\ FeedsInv /\ [Next]_vars => FeedsInv'
<1> SUFFICES ASSUME Typed, NamesInv, FeedsInv, [Next]_vars
             PROVE  FeedsInv'
  BY DEF AccountsInv
<1>1. ASSUME NEW r \in Requests, Register(r) \/ Feed(r)
      PROVE  FeedsInv'
  BY <1>1, CalmKeeps, ArrivalsCalm, RegisterSaveCalm, ReadingsCalm, FeedSaveOwns, FeedSaveOwnOwns
     DEF Register, Feed, CreateFeed
<1>2. ASSUME NEW r \in Requests, ManageFeed(r) \/ Archive(r) \/ Transfer(r)
      PROVE  FeedsInv'
  BY <1>2, CalmKeeps, ArrivalsCalm, OtherStepsCalm, ArchiveSaveOwnOwns, TransferFromOwns, TransferToOwns
     DEF ManageFeed, Archive, Transfer
<1>3. ASSUME NEW r \in Requests, Follow(r) \/ Import(r) \/ Unfollow(r)
      PROVE  FeedsInv'
  BY <1>3, CalmKeeps, ArrivalsCalm, OwnStepsCalm, OtherStepsCalm, ReadingsCalm
     DEF Follow, Import, Unfollow
<1>4. ASSUME NEW r \in Requests, Settings(r) \/ Post(r) \/ FixFollowers(r) \/ FixUserAccounts(r)
      PROVE  FeedsInv'
  BY <1>4, CalmKeeps, ArrivalsCalm, OwnStepsCalm, OtherStepsCalm, ReadingsCalm
     DEF Settings, Post, FixFollowers, FixUserAccounts
<1>5. ASSUME NEW r \in Requests, DeleteAll(r)
      PROVE  FeedsInv'
  BY <1>5, DeleteArriveOwns, DeleteStopsOwns, DeleteGoesOnOwns, DeleteFileOwns, DeleteAccountOwns
     DEF DeleteAll
<1>6. CASE Restart
  BY <1>6, RestartOwns
<1>7. CASE UNCHANGED vars
  BY <1>7 DEF vars, FeedsInv, Known, Owned, Dealt, Owners, Starting, Mending, Moving, Ending,
              Emptying, At
<1> QED BY <1>1, <1>2, <1>3, <1>4, <1>5, <1>6, <1>7 DEF Next

(* Nobody shares a feed that requests did not meet on, and one without     *)
(* owner was archived or is about to get one: of the two saves of a        *)
(* creation, a transfer and a deletion (handlers.go:1110-1156, 2230-2237,  *)
(* 2257-2403) none is seen to miss the other.                              *)
THEOREM FeedsCorrect == Spec => []FeedsInv
  BY FeedsStart, FeedsStay, AccountsCorrect, PTL DEF Spec

(* Every feed has one owner, or none when the owner archived it: for any   *)
(* number of users, feeds, requests at a time and restarts, creations,     *)
(* transfers and deletions of accounts neither orphan a feed nor have two  *)
(* own it, unless they met on the records.                                 *)
THEOREM FeedsAreOwned == Spec => []FeedsOwned
<1>1. Typed /\ FeedsInv => FeedsOwned
  <2> SUFFICES ASSUME Typed, FeedsInv, NEW x \in DOMAIN feeds, Settled(x)
               PROVE  IF x \in archived THEN Cardinality(Owners(x)) <= 1
                                        ELSE Cardinality(Owners(x)) = 1
    BY DEF FeedsOwned
  <2>1. Starting(x) \cup Mending(x) = {} /\ Moving(x) = {}
    <3> SUFFICES ASSUME NEW r \in (Starting(x) \cup Mending(x)) \cup (Moving(x) \cup Ending(x))
                 PROVE  FALSE
      OBVIOUS
    <3>1. r \in Requests /\ x \in Halfway(r)
      BY OwningHalfway
    <3> QED BY <3>1 DEF Settled
  <2>2. Owned(x)
    BY Facts DEF Settled, FeedsInv
  <2>3. CASE Owners(x) = {}
    <3>1. x \in archived
      BY <2>1, <2>2, <2>3 DEF Owned
    <3> QED BY <2>3, <3>1, FS_EmptySet
  <2>4. CASE Owners(x) # {}
    <3>1. PICK u : Owners(x) = {u}
      BY <2>2, <2>4 DEF Owned
    <3>2. Cardinality(Owners(x)) = 1
      BY <3>1, FS_Singleton
    <3> QED BY <3>2
  <2> QED BY <2>3, <2>4
<1>2. AccountsInv => Typed
  BY DEF AccountsInv
<1> QED BY <1>1, <1>2, AccountsCorrect, FeedsCorrect, PTL

-----------------------------------------------------------------------------
(* Who follows and who is listed                                           *)

(* What a request has yet to tell, and what FixFollowers may do.           *)
Tells(q, ops, u, x) ==
  /\ q # Idle /\ q.op \in ops /\ q.u = u /\ q.x = x
  /\ q.at \in {"load", "list", "listFeed", "other"}
Begins(q, u, x) == (Founds(q, x) \/ Mends(q, x)) /\ q.u = u
Adds(q) == q # Idle /\ q.op = "followers" =>
             /\ q.theirs.following = q.mine.following
             /\ q.mine.followers \subseteq q.theirs.followers

(* A request that has nobody to tell and creates no feed.                  *)
Mute(q) ==
  q = Idle \/ /\ q.at \in {"load", "list", "listFeed", "other"} =>
                   q.op \notin {"follow", "unfollow", "archive"}
              /\ q.op \in {"feed", "fix"} => q.at # "own"

LEMMA MuteIs ==
  ASSUME NEW q, Mute(q), NEW u, NEW x
  PROVE  /\ ~Tells(q, {"follow"}, u, x) /\ ~Tells(q, {"unfollow", "archive"}, u, x)
         /\ ~Tells(q, {"follow", "unfollow", "archive"}, u, x) /\ ~Tells(q, {"archive"}, u, x)
         /\ ~Founds(q, x) /\ ~Begins(q, u, x)
BY DEF Mute, Tells, Founds, Mends, Begins

LEMMA WhoTells ==
  ASSUME NEW r \in Requests, NEW ops, NEW u, NEW x
  PROVE  r \in Telling(ops, u, x) <=> Tells(req[r], ops, u, x)
BY DEF Telling, Tells

LEMMA TellingMoves ==
  ASSUME Typed, NEW r \in Requests, NEW q \in Handling \cup {Idle}, req' = [req EXCEPT ![r] = q],
         NEW ops, NEW u, NEW x
  PROVE  /\ Telling(ops, u, x)' \ {r} = Telling(ops, u, x) \ {r}
         /\ r \in Telling(ops, u, x)' <=> Tells(q, ops, u, x)
<1>1. req'[r] = q /\ \A s \in Requests \ {r} : req'[s] = req[s]
  BY Moves
<1> QED BY <1>1 DEF Telling, Tells

(* A pair stays paired when each of the four reasons does.                 *)
LEMMA PairMoves ==
  ASSUME Typed, NEW r \in Requests, NEW q \in Handling \cup {Idle}, req' = [req EXCEPT ![r] = q],
         NEW u, NEW x, Paired(u, x),
         Follower(u, x)' =>
           \/ Tells(q, {"follow"}, u, x) \/ ListedBy(users, u, x)' \/ ListedBy(feeds, u, x)'
           \/ /\ Follower(u, x) /\ ~Tells(req[r], {"follow"}, u, x)
              /\ ~ListedBy(users, u, x) /\ ~ListedBy(feeds, u, x),
         ListedBy(users, u, x)' =>
           \/ Tells(q, {"unfollow", "archive"}, u, x) \/ Follower(u, x)'
           \/ /\ ListedBy(users, u, x) /\ ~Tells(req[r], {"unfollow", "archive"}, u, x)
              /\ ~Follower(u, x),
         Telling({"follow", "unfollow", "archive"}, u, x) \ {r} # {} =>
           /\ u \in DOMAIN users => u \in DOMAIN users'
           /\ Follower(u, x)' <=> Follower(u, x),
         Tells(q, {"follow", "unfollow", "archive"}, u, x) =>
           u \in DOMAIN users' /\ (Follower(u, x)' <=> Follows(Saved(q), x)),
         Begins(q, u, x) /\ x \in DOMAIN feeds' => ListedBy(feeds, u, x)',
         \A s \in (Starting(x) \cup Mending(x)) \ {r} :
           req[s].u = u /\ x \in DOMAIN feeds' => ListedBy(feeds, u, x)'
  PROVE  Paired(u, x)'
<1> DEFINE All == {"follow", "unfollow", "archive"}
<1>1. req'[r] = q /\ \A s \in Requests \ {r} : req'[s] = req[s]
  BY Moves
<1>2. ASSUME NEW ops
      PROVE  /\ Telling(ops, u, x)' \ {r} = Telling(ops, u, x) \ {r}
             /\ r \in Telling(ops, u, x)' <=> Tells(q, ops, u, x)
             /\ r \in Telling(ops, u, x) <=> Tells(req[r], ops, u, x)
  <2>1. /\ Telling(ops, u, x)' \ {r} = Telling(ops, u, x) \ {r}
        /\ r \in Telling(ops, u, x)' <=> Tells(q, ops, u, x)
    BY TellingMoves
  <2> QED BY <2>1, WhoTells
<1>3. Follower(u, x)' =>
       Telling({"follow"}, u, x)' # {} \/ ListedBy(users, u, x)' \/ ListedBy(feeds, u, x)'
  BY <1>2 DEF Paired
<1>4. ListedBy(users, u, x)' =>
        Telling({"unfollow", "archive"}, u, x)' # {} \/ Follower(u, x)'
  BY <1>2 DEF Paired
<1>5. ASSUME NEW s \in Telling(All, u, x)'
      PROVE  u \in DOMAIN users' /\ (Follower(u, x)' <=> Follows(Saved(req'[s]), x))
  <2>1. CASE s = r
    BY <1>1, <1>2, <1>5, <2>1
  <2>2. CASE s # r
    <3>1. s \in Telling(All, u, x) \ {r} /\ req'[s] = req[s]
      BY <1>1, <1>2, <1>5, <2>2 DEF Telling
    <3>2. u \in DOMAIN users /\ (Follower(u, x) <=> Follows(Saved(req[s]), x))
      BY <3>1 DEF Paired
    <3> QED BY <3>1, <3>2
  <2> QED BY <2>1, <2>2
<1>6. ASSUME NEW s \in (Starting(x) \cup Mending(x))', req'[s].u = u, x \in DOMAIN feeds'
      PROVE  ListedBy(feeds, u, x)'
  <2>1. CASE s = r
    <3>1. Begins(q, u, x)
      BY <1>1, <1>6, <2>1 DEF Starting, Mending, At, Begins, Founds, Mends
    <3> QED BY <1>6, <3>1
  <2>2. CASE s # r
    <3>1. s \in (Starting(x) \cup Mending(x)) \ {r} /\ req'[s] = req[s]
      BY <1>1, <1>6, <2>2 DEF Starting, Mending, At
    <3> QED BY <1>6, <3>1
  <2> QED BY <2>1, <2>2
<1> QED BY <1>3, <1>4, <1>5, <1>6 DEF Paired

(* The step touches neither record so that it matters to the pair.         *)
LEMMA PairStays ==
  ASSUME Typed, NEW r \in Requests, NEW q \in Handling \cup {Idle}, req' = [req EXCEPT ![r] = q],
         NEW u, NEW x, Paired(u, x),
         Follower(u, x)' <=> Follower(u, x), u \in DOMAIN users => u \in DOMAIN users',
         ListedBy(users, u, x) => ListedBy(users, u, x)',
         ListedBy(users, u, x)' => ListedBy(users, u, x) \/ Follower(u, x),
         ListedBy(feeds, u, x) => ListedBy(feeds, u, x)', x \in DOMAIN feeds' => x \in DOMAIN feeds,
         Tells(req[r], {"follow"}, u, x) =>
           Tells(q, {"follow"}, u, x) \/ ListedBy(users, u, x)' \/ ListedBy(feeds, u, x)',
         Tells(req[r], {"unfollow", "archive"}, u, x) =>
           Tells(q, {"unfollow", "archive"}, u, x) \/ ~ListedBy(users, u, x)',
         Tells(q, {"follow", "unfollow", "archive"}, u, x) =>
           Tells(req[r], {"follow", "unfollow", "archive"}, u, x) /\ Saved(q) = Saved(req[r]),
         ~Begins(q, u, x)
  PROVE  Paired(u, x)'
<1>1. Tells(req[r], {"follow", "unfollow", "archive"}, u, x) =>
        u \in DOMAIN users /\ (Follower(u, x) <=> Follows(Saved(req[r]), x))
  BY WhoTells DEF Paired
<1>2. \A s \in (Starting(x) \cup Mending(x)) \ {r} :
        req[s].u = u /\ x \in DOMAIN feeds' => ListedBy(feeds, u, x)'
  BY DEF Paired
<1> QED BY <1>1, <1>2, PairMoves

LEMMA FollowsKeeps ==
  ASSUME Typed, FollowsInv, NEW r \in Requests, NEW q \in Handling \cup {Idle},
         req' = [req EXCEPT ![r] = q], Adds(q), hurt \subseteq hurt', astray \subseteq astray',
         \A x \in Names \ hurt', u \in Names :
           /\ Founds(q, x) => Telling({"archive"}, u, x) = {}
           /\ Tells(q, {"archive"}, u, x) => Starting(x) = {},
         \A u, x \in Names \ hurt' : <<u, x>> \notin astray' /\ Paired(u, x) => Paired(u, x)'
  PROVE  FollowsInv'
<1>1. req'[r] = q /\ \A s \in Requests \ {r} : req'[s] = req[s]
  BY Moves
<1>2. \A s \in Requests : req'[s] # Idle /\ req'[s].op = "followers" =>
        /\ req'[s].theirs.following = req'[s].mine.following
        /\ req'[s].mine.followers \subseteq req'[s].theirs.followers
  BY <1>1 DEF FollowsInv, Adds
<1>3. ASSUME NEW x \in Names \ hurt', NEW u \in Names, Starting(x)' # {}
      PROVE  Telling({"archive"}, u, x)' = {}
  <2>1. Starting(x)' = IF Founds(q, x) THEN Starting(x) \cup {r} ELSE Starting(x) \ {r}
    BY FeedSetsMove
  <2>2. /\ Telling({"archive"}, u, x)' \ {r} = Telling({"archive"}, u, x) \ {r}
        /\ r \in Telling({"archive"}, u, x)' <=> Tells(q, {"archive"}, u, x)
    BY TellingMoves
  <2>3. ~(Founds(q, x) /\ Tells(q, {"archive"}, u, x))
    BY DEF Founds, Tells
  <2>4. Starting(x) # {} => Telling({"archive"}, u, x) = {}
    BY <1>3 DEF FollowsInv
  <2> QED BY <1>3, <2>1, <2>2, <2>3, <2>4
<1>4. \A u, x \in Names \ hurt' : <<u, x>> \notin astray' => Paired(u, x)'
  BY DEF FollowsInv
<1> QED BY <1>2, <1>3, <1>4 DEF FollowsInv

(* Nor does a request with nobody to tell.                                 *)
LEMMA PairOfMute ==
  ASSUME Typed, NEW r \in Requests, NEW q \in Handling \cup {Idle}, req' = [req EXCEPT ![r] = q],
         Mute(req[r]), Mute(q), NEW u, NEW x, Paired(u, x),
         Follower(u, x)' <=> Follower(u, x), u \in DOMAIN users => u \in DOMAIN users',
         ListedBy(users, u, x)' <=> ListedBy(users, u, x),
         ListedBy(feeds, u, x)' <=> ListedBy(feeds, u, x), x \in DOMAIN feeds' => x \in DOMAIN feeds
  PROVE  Paired(u, x)'
<1>1. /\ ~Tells(req[r], {"follow"}, u, x) /\ ~Tells(req[r], {"unfollow", "archive"}, u, x)
      /\ ~Tells(q, {"follow", "unfollow", "archive"}, u, x) /\ ~Begins(q, u, x)
  BY MuteIs
<1> QED BY <1>1, PairStays

LEMMA MuteFollows ==
  ASSUME Typed, FollowsInv, NEW r \in Requests, NEW q \in Handling \cup {Idle},
         req' = [req EXCEPT ![r] = q], Mute(q), Adds(q), hurt \subseteq hurt', astray \subseteq astray',
         \A u, x \in Names \ hurt' : <<u, x>> \notin astray' /\ Paired(u, x) => Paired(u, x)'
  PROVE  FollowsInv'
<1>1. \A x \in Names \ hurt', u \in Names :
        /\ Founds(q, x) => Telling({"archive"}, u, x) = {}
        /\ Tells(q, {"archive"}, u, x) => Starting(x) = {}
  BY MuteIs
<1> QED BY <1>1, FollowsKeeps

(* Steps of requests with nobody to tell that save nothing.                *)
LEMMA MuteKeeps ==
  ASSUME Typed, FollowsInv, NEW r \in Requests, NEW q \in Handling \cup {Idle},
         req' = [req EXCEPT ![r] = q], Mute(req[r]), Mute(q), Adds(q),
         users' = users, feeds' = feeds, hurt \subseteq hurt', astray \subseteq astray'
  PROVE  FollowsInv'
<1>1. ASSUME NEW u \in Names \ hurt', NEW x \in Names \ hurt', Paired(u, x)
      PROVE  Paired(u, x)'
  <2>1. /\ Follower(u, x)' <=> Follower(u, x)
        /\ ListedBy(users, u, x)' <=> ListedBy(users, u, x)
        /\ ListedBy(feeds, u, x)' <=> ListedBy(feeds, u, x)
    BY DEF Follower, ListedBy
  <2> QED BY <1>1, <2>1, PairOfMute
<1> QED BY <1>1, MuteFollows

LEMMA ArrivalMute ==
  ASSUME Typed, FollowsInv, NEW r \in Requests, NEW op \in Ops, NEW at \in Stages, NEW u \in Names,
         NEW x \in Names, NEW arg \in Names, NEW theirs \in Record, op # "followers",
         op \in {"feed", "fix"} => at # "own",
         at \in {"load", "list", "listFeed", "other"} => op \notin {"follow", "unfollow", "archive"},
         Load(r, op, at, u, x, arg, theirs), hurt \subseteq hurt', hurt' \in SUBSET Names
  PROVE  FollowsInv'
<1>1. PICK q \in Handling : /\ q.op = op /\ q.at = at
                            /\ req' = [req EXCEPT ![r] = q]
  BY Arrives
<1>2. Mute(req[r]) /\ users' = users /\ feeds' = feeds /\ astray \subseteq astray'
  BY DEF Load, Mute
<1>3. Mute(q) /\ Adds(q)
  BY <1>1 DEF Mute, Adds
<1> QED BY <1>1, <1>2, <1>3, MuteKeeps

LEMMA ArrivalsMute ==
  ASSUME Typed, FollowsInv, NEW r \in Requests,
         \/ \E n \in Names : RegisterCheck(r, n)
         \/ \E u, x \in Names : FeedArrive(r, u, x)
         \/ FixArrive(r)
         \/ \E u, x \in Names : ArchiveArrive(r, u, x)
         \/ \E u, x \in Names : ManageArrive(r, u, x)
         \/ \E u, x, to \in Names : TransferArrive(r, u, x, to)
         \/ \E u, nick, x \in Names : FollowArrive(r, u, nick, x)
         \/ \E u, x \in Names : ImportArrive(r, u, x)
         \/ \E u, nick \in Names : UnfollowArrive(r, u, nick)
         \/ \E u \in Names : SettingsArrive(r, u)
         \/ \E u, x \in Names : PostArrive(r, u, x)
         \/ \E u \in Names : DeleteArrive(r, u)
  PROVE  FollowsInv'
<1>0. ASSUME NEW op \in Ops, NEW at \in Stages, NEW u \in Names,
         NEW x \in Names, NEW arg \in Names, NEW theirs \in Record, op # "followers",
         op \in {"feed", "fix"} => at # "own",
         at \in {"load", "list", "listFeed", "other"} => op \notin {"follow", "unfollow", "archive"},
         Arrive(r, op, at, u, x, arg, theirs)
      PROVE  FollowsInv'
  <2>1. /\ Load(r, op, at, u, x, arg, theirs)
        /\ hurt \subseteq hurt' /\ hurt' \in SUBSET Names
    BY <1>0 DEF Arrive, Typed
  <2> QED BY <1>0, <2>1, ArrivalMute
<1> USE Facts DEF Stages, Ops
<1>1. ASSUME NEW n \in Names, RegisterCheck(r, n) PROVE FollowsInv'
  BY <1>0, <1>1 DEF RegisterCheck
<1>2. ASSUME NEW u \in Names, NEW x \in Names, FeedArrive(r, u, x) PROVE FollowsInv'
  BY <1>0, <1>2 DEF FeedArrive
<1>3. CASE FixArrive(r)
  BY <1>0, <1>3, AccountsAssumption DEF FixArrive
<1>4. ASSUME NEW u \in Names, NEW x \in Names, ArchiveArrive(r, u, x) PROVE FollowsInv'
  BY <1>0, <1>4 DEF ArchiveArrive
<1>5. ASSUME NEW u \in Names, NEW x \in Names, ManageArrive(r, u, x) PROVE FollowsInv'
  BY <1>0, <1>5 DEF ManageArrive
<1>6. ASSUME NEW u \in Names, NEW x \in Names, NEW to \in Names, TransferArrive(r, u, x, to)
      PROVE  FollowsInv'
  BY <1>0, <1>6 DEF TransferArrive
<1>7. ASSUME NEW u \in Names, NEW nick \in Names, NEW x \in Names, FollowArrive(r, u, nick, x)
      PROVE  FollowsInv'
  BY <1>0, <1>7 DEF FollowArrive
<1>8. ASSUME NEW u \in Names, NEW x \in Names, ImportArrive(r, u, x) PROVE FollowsInv'
  BY <1>0, <1>8 DEF ImportArrive
<1>9. ASSUME NEW u \in Names, NEW nick \in Names, UnfollowArrive(r, u, nick)
      PROVE  FollowsInv'
  <2>1. users[u].following \in Nicks /\ nick \in DOMAIN users[u].following
    BY <1>9 DEF UnfollowArrive, Record
  <2>2. users[u].following[nick] \in Names
    BY <2>1, NicksAre
  <2> QED BY <1>0, <1>9, <2>2 DEF UnfollowArrive
<1>10. ASSUME NEW u \in Names, SettingsArrive(r, u) PROVE FollowsInv'
  BY <1>0, <1>10 DEF SettingsArrive
<1>11. ASSUME NEW u \in Names, NEW x \in Names, PostArrive(r, u, x) PROVE FollowsInv'
  BY <1>0, <1>11 DEF PostArrive
<1>12. ASSUME NEW u \in Names, DeleteArrive(r, u) PROVE FollowsInv'
  <2> DEFINE doomed == [Fresh({}) EXCEPT !.feeds = users[u].feeds \cap DOMAIN feeds]
  <2>1. users[u] \in Record /\ users[u].feeds \subseteq Names
    BY <1>12 DEF DeleteArrive, Record
  <2>2. doomed \in Record
    BY <2>1 DEF Record
  <2>3. hurt \subseteq hurt' /\ hurt' \in SUBSET Names
    BY <1>12, <2>1 DEF DeleteArrive, Typed
  <2>4. Load(r, "delete", "own", u, u, u, doomed)
    BY <1>12 DEF DeleteArrive
  <2> HIDE DEF doomed
  <2> QED BY <2>2, <2>3, <2>4, ArrivalMute
<1> QED BY <1>1, <1>2, <1>3, <1>4, <1>5, <1>6, <1>7, <1>8, <1>9, <1>10, <1>11, <1>12

(* Steps about files, or that read all records for FixFollowers.           *)
LEMMA FileStepsMute ==
  ASSUME Typed, NamesInv, FeedsInv, FollowsInv, NEW r \in Requests,
         \/ StatName(r) \/ WriteFile(r) \/ FixFile(r) \/ PostAppend(r) \/ DeleteFile(r)
         \/ \E x \in DOMAIN users : FixFollowersArrive(r, x, "fixed", users[x])
         \/ \E x \in DOMAIN feeds : FixFollowersArrive(r, x, "fixedFeed", feeds[x])
  PROVE  FollowsInv'
<1>1. users' = users /\ feeds' = feeds /\ hurt \subseteq hurt' /\ astray \subseteq astray'
  BY DEF StatName, WriteFile, FixFile, PostAppend, DeleteFile, FixFollowersArrive
<1>2. CASE StatName(r) \/ WriteFile(r) \/ FixFile(r) \/ PostAppend(r)
  <2>1. req[r] # Idle /\ Mute(req[r])
    BY <1>2 DEF StatName, WriteFile, FixFile, PostAppend, At, Idle, Mute
  <2>2. req[r].op # "followers" \/ Adds(req[r])
    BY DEF FollowsInv, Adds
  <2>3. CASE End(r)
    <3>1. req' = [req EXCEPT ![r] = Idle] /\ Mute(Idle) /\ Adds(Idle)
      BY <2>3 DEF End, Mute, Adds
    <3> QED BY <1>1, <2>1, <3>1, MuteKeeps
  <2>4. ASSUME NEW at \in {"write", "account", "feed"}, Go(r, at)
        PROVE  FollowsInv'
    <3> DEFINE q == [req[r] EXCEPT !.at = at]
    <3>1. /\ q \in Handling /\ q.at = at /\ q.op = req[r].op
          /\ q.theirs = req[r].theirs /\ q.mine = req[r].mine
          /\ req' = [req EXCEPT ![r] = q]
      <4>1. at \in Stages
        BY DEF Stages
      <4> QED BY <2>1, <2>4, <4>1, GoIs
    <3> HIDE DEF q
    <3>2. Mute(q) /\ Adds(q)
      BY <2>1, <2>2, <3>1 DEF Mute, Adds
    <3> QED BY <1>1, <2>1, <3>1, <3>2, MuteKeeps
  <2> QED BY <1>2, <2>3, <2>4 DEF StatName, WriteFile, FixFile, PostAppend
<1>3. CASE DeleteFile(r)
  <2> DEFINE to == IF req[r].theirs.feeds = {} THEN "account" ELSE "next"
             rest == [req[r].theirs EXCEPT !.feeds = @ \ {req[r].x}]
             q == [req[r] EXCEPT !.at = to, !.theirs = rest]
  <2>1. /\ req[r] # Idle /\ req[r].op = "delete" /\ req[r].at = "file" /\ Mute(req[r])
        /\ req[r] \in Handling /\ req[r].theirs \in Record
    BY <1>3, Facts DEF DeleteFile, At, Mute
  <2>2. rest \in Record /\ to \in Stages
    BY <2>1 DEF Record, Stages
  <2>3. req' = [req EXCEPT ![r] = q]
    BY <1>3 DEF DeleteFile
  <2> HIDE DEF rest, to
  <2>4. q \in Handling /\ q.op = "delete"
    BY <2>1, <2>2 DEF Handling
  <2> HIDE DEF q
  <2>5. Mute(q) /\ Adds(q)
    BY <2>4 DEF Mute, Adds
  <2> QED BY <1>1, <2>1, <2>3, <2>4, <2>5, MuteKeeps
<1>4. ASSUME NEW x \in Names, NEW at \in {"fixed", "fixedFeed"}, NEW rec \in Record,
             FixFollowersArrive(r, x, at, rec)
      PROVE  FollowsInv'
  <2> DEFINE more == {u \in DOMAIN users : Follows(users[u], x)}
             theirs == [rec EXCEPT !.followers = @ \cup more]
             q == [op |-> "followers", at |-> at, u |-> x, x |-> x, arg |-> x,
                   mine |-> rec, theirs |-> theirs]
  <2>1. more \subseteq Names
    BY Facts
  <2> HIDE DEF more
  <2>2. /\ theirs \in Record /\ theirs.following = rec.following
        /\ rec.followers \subseteq theirs.followers
    BY <2>1 DEF Record
  <2> HIDE DEF theirs
  <2>3. q \in Handling /\ Mute(q) /\ Adds(q)
    BY <1>4, <2>2 DEF Handling, Ops, Stages, Mute, Adds
  <2>4. req' = [req EXCEPT ![r] = q] /\ Mute(req[r])
    BY <1>4 DEF FixFollowersArrive, more, theirs, Mute
  <2> HIDE DEF q
  <2> QED BY <1>1, <2>3, <2>4, MuteKeeps
<1> QED BY <1>2, <1>3, <1>4, Facts

(* What a pair sees of a record saved over a copy that was read before.    *)
LEMMA UserPut ==
  ASSUME Typed, NEW z \in Names, NEW rec \in Record, NEW read \in Record,
         users' = Put(users, z, rec), NEW u \in Names, NEW x \in Names,
         u \notin Met(users, z, read), x \notin Met(users, z, read)
  PROVE  /\ u \in DOMAIN users' <=> u \in DOMAIN users
         /\ IF u = z THEN /\ u \in DOMAIN users
                          /\ Follower(u, x) <=> Follows(read, x)
                          /\ Follower(u, x)' <=> Follows(rec, x)
            ELSE Follower(u, x)' <=> Follower(u, x)
         /\ IF x = z THEN /\ ListedBy(users, u, x) <=> u \in read.followers
                          /\ ListedBy(users, u, x)' <=> u \in rec.followers
            ELSE ListedBy(users, u, x)' <=> ListedBy(users, u, x)
<1>1. DOMAIN users' = DOMAIN users \cup {z}
      /\ \A n \in DOMAIN users' : users'[n] = IF n = z THEN rec ELSE users[n]
  BY DEF Put
<1>2. z \notin Met(users, z, read) => z \in DOMAIN users /\ users[z] = read
  BY DEF Met
<1>3. (u = z \/ x = z) => z \in DOMAIN users /\ users[z] = read
  BY <1>2
<1>4. u \in DOMAIN users' <=> u \in DOMAIN users
  BY <1>1, <1>3
<1>5. IF u = z THEN /\ u \in DOMAIN users
                    /\ Follower(u, x) <=> Follows(read, x)
                    /\ Follower(u, x)' <=> Follows(rec, x)
      ELSE Follower(u, x)' <=> Follower(u, x)
  BY <1>1, <1>3 DEF Follower
<1>6. IF x = z THEN /\ ListedBy(users, u, x) <=> u \in read.followers
                    /\ ListedBy(users, u, x)' <=> u \in rec.followers
      ELSE ListedBy(users, u, x)' <=> ListedBy(users, u, x)
  BY <1>1, <1>3 DEF ListedBy
<1> QED BY <1>4, <1>5, <1>6

LEMMA FeedPut ==
  ASSUME Typed, NEW z \in Names, NEW rec \in Record, NEW read \in Record,
         feeds' = Put(feeds, z, rec), NEW u \in Names, NEW x \in Names,
         x \notin Met(feeds, z, read)
  PROVE  /\ x \in DOMAIN feeds' <=> x \in DOMAIN feeds
         /\ x = z => x \in DOMAIN feeds
         /\ IF x = z THEN /\ ListedBy(feeds, u, x) <=> u \in read.followers
                          /\ ListedBy(feeds, u, x)' <=> u \in rec.followers
            ELSE ListedBy(feeds, u, x)' <=> ListedBy(feeds, u, x)
<1>1. DOMAIN feeds' = DOMAIN feeds \cup {z}
      /\ \A n \in DOMAIN feeds' : feeds'[n] = IF n = z THEN rec ELSE feeds[n]
  BY DEF Put
<1>2. x = z => z \in DOMAIN feeds /\ feeds[z] = read
  BY DEF Met
<1> QED BY <1>1, <1>2 DEF ListedBy

LEMMA UsersSame ==
  ASSUME users' = users, NEW u, NEW x
  PROVE  /\ u \in DOMAIN users' <=> u \in DOMAIN users
         /\ Follower(u, x)' <=> Follower(u, x)
         /\ ListedBy(users, u, x)' <=> ListedBy(users, u, x)
BY DEF Follower, ListedBy

LEMMA FeedsSame ==
  ASSUME feeds' = feeds, NEW u, NEW x
  PROVE  /\ x \in DOMAIN feeds' <=> x \in DOMAIN feeds
         /\ ListedBy(feeds, u, x)' <=> ListedBy(feeds, u, x)
BY DEF ListedBy

(* What becomes of those one follows.                                      *)
LEMMA FollowingIs ==
  ASSUME NEW rec \in Record, NEW n \in Names, NEW x \in Names
  PROVE  /\ Follows(Following(rec, n, x), x)
         /\ \A y : Follows(Following(rec, n, x), y) => Follows(rec, y) \/ y = x
         /\ \A y : Follows([rec EXCEPT !.following = Without(@, n)], y) => Follows(rec, y)
<1> DEFINE f == rec.following
<1>1. f \in Nicks /\ f \in [DOMAIN f -> Names]
  BY NicksAre DEF Record
<1>2. Following(rec, n, x).following = Put(f, n, x)
      /\ [rec EXCEPT !.following = Without(@, n)].following = Without(f, n)
  BY DEF Following, Record
<1> HIDE DEF f
<1>3. /\ x \in Range(Put(f, n, x))
      /\ \A y : y \in Range(Put(f, n, x)) => y \in Range(f) \/ y = x
      /\ \A y : y \in Range(Without(f, n)) => y \in Range(f)
  BY <1>1 DEF Put, Without, Restrict, Range
<1> QED BY <1>2, <1>3 DEF Follows, f

LEMMA FollowsIs ==
  ASSUME NEW rec \in Record, NEW x \in Names
  PROVE  /\ \A y : Follows(Disowning(rec, x), y) <=> Follows(rec, y)
         /\ \A y : Follows(Owning(rec, x), y) <=> Follows(rec, y)
         /\ \A y : Follows(Listing(rec, x), y) <=> Follows(rec, y)
         /\ \A y : Follows(Unlisting(rec, x), y) <=> Follows(rec, y)
         /\ Follows(Creating(rec, x), x)
         /\ \A y : Follows(Creating(rec, x), y) => Follows(rec, y) \/ y = x
         /\ \A y : Follows(Detaching(rec, x), y) => Follows(rec, y)
<1>1. \A q \in Record, n \in Names :
        /\ Follows(Following(q, n, x), x)
        /\ \A y : Follows(Following(q, n, x), y) => Follows(q, y) \/ y = x
        /\ \A y : Follows([q EXCEPT !.following = Without(@, n)], y) => Follows(q, y)
  BY FollowingIs
<1>2. /\ Disowning(rec, x).following = rec.following /\ Owning(rec, x).following = rec.following
      /\ Listing(rec, x).following = rec.following /\ Unlisting(rec, x).following = rec.following
      /\ Owning(rec, x) \in Record /\ Disowning(rec, x) \in Record
  BY RecordsMade DEF Disowning, Owning, Listing, Unlisting, Record
<1>3. /\ \A y : Follows(Disowning(rec, x), y) <=> Follows(rec, y)
      /\ \A y : Follows(Owning(rec, x), y) <=> Follows(rec, y)
      /\ \A y : Follows(Listing(rec, x), y) <=> Follows(rec, y)
      /\ \A y : Follows(Unlisting(rec, x), y) <=> Follows(rec, y)
  BY <1>2 DEF Follows
<1>4. /\ Follows(Creating(rec, x), x)
      /\ \A y : Follows(Creating(rec, x), y) => Follows(rec, y) \/ y = x
  BY <1>1, <1>2, <1>3 DEF Creating
<1>5. \A y : Follows(Detaching(rec, x), y) => Follows(rec, y)
  BY <1>1, <1>2, <1>3 DEF Detaching
<1> QED BY <1>3, <1>4, <1>5

(* What saving the record rec of the request's own user does to those the  *)
(* user follows: only x is new, and x is told when it is not astray.       *)
SavesOwn(r, rec, seen, q) ==
  /\ req[r].at = "own" /\ SaveOwn(r, rec, seen)
  /\ req' = [req EXCEPT ![r] = q] /\ Adds(q) /\ (q = Idle \/ q.at # "own")
  /\ rec.followers = req[r].mine.followers /\ seen \subseteq {req[r].x}
  /\ \A y \in Names : Follows(rec, y) => Follows(req[r].mine, y) \/ y = req[r].x
  /\ Follows(rec, req[r].x) =>
       \/ Follows(req[r].mine, req[r].x) \/ req[r].op \in {"import", "feed", "fix"}
       \/ Tells(q, {"follow"}, req[r].u, req[r].x)
  /\ req[r].x \in seen => Tells(q, {"unfollow", "archive"}, req[r].u, req[r].x)
  /\ \A u, x \in Names : Tells(q, {"follow", "unfollow", "archive"}, u, x) =>
       u = req[r].u /\ x = req[r].x /\ (Follows(rec, x) <=> Follows(Saved(q), x))

LEMMA OwnPairs ==
  ASSUME Typed, FollowsInv, NEW r \in Requests, req[r] # Idle, NEW rec \in Record, NEW seen,
         NEW q \in Handling \cup {Idle}, SavesOwn(r, rec, seen, q),
         \A x \in Names \ hurt', u \in Names : Tells(q, {"archive"}, u, x) => Starting(x) = {}
  PROVE  FollowsInv'
<1> DEFINE z == req[r].u
           w == req[r].x
           mine == req[r].mine
           All == {"follow", "unfollow", "archive"}
           dropped == Range(mine.following) \ (Range(rec.following) \cup seen)
<1>1. z \in Names /\ w \in Names /\ mine \in Record
  BY Facts
<1>2. /\ users' = Put(users, z, rec) /\ feeds' = feeds
      /\ hurt \subseteq hurt' /\ Met(users, z, mine) \subseteq hurt'
      /\ astray \subseteq astray' /\ {z} \X dropped \subseteq astray'
      /\ req[r].op = "import" \/ Crossed(r) => <<z, w>> \in astray'
      /\ req[r].op \in {"feed", "fix"} /\ w \notin DOMAIN feeds => w \in hurt'
  BY DEF SavesOwn, SaveOwn
<1>3. /\ \A ops, u, x : ~Tells(req[r], ops, u, x)
      /\ \A u, x : ~Begins(q, u, x) /\ ~Founds(q, x)
  BY DEF SavesOwn, Tells, Begins, Founds, Mends
<1>4. /\ req' = [req EXCEPT ![r] = q] /\ Adds(q)
      /\ rec.followers = mine.followers /\ seen \subseteq {w}
      /\ \A y \in Names : Follows(rec, y) => Follows(mine, y) \/ y = w
      /\ Follows(rec, w) => \/ Follows(mine, w) \/ req[r].op \in {"import", "feed", "fix"}
                            \/ Tells(q, {"follow"}, z, w)
      /\ w \in seen => Tells(q, {"unfollow", "archive"}, z, w)
      /\ \A u, x \in Names : Tells(q, All, u, x) =>
           u = z /\ x = w /\ (Follows(rec, x) <=> Follows(Saved(q), x))
  BY DEF SavesOwn
<1>5. ASSUME NEW u \in Names \ hurt', NEW x \in Names \ hurt', <<u, x>> \notin astray', Paired(u, x)
      PROVE  Paired(u, x)'
  <2>1. /\ u \in DOMAIN users' <=> u \in DOMAIN users
        /\ IF u = z THEN /\ u \in DOMAIN users
                         /\ Follower(u, x) <=> Follows(mine, x)
                         /\ Follower(u, x)' <=> Follows(rec, x)
           ELSE Follower(u, x)' <=> Follower(u, x)
        /\ ListedBy(users, u, x)' <=> ListedBy(users, u, x)
    <3>1. u \notin Met(users, z, mine) /\ x \notin Met(users, z, mine)
      BY <1>2, <1>5
    <3> QED BY <1>1, <1>2, <1>5, <1>4, <3>1, UserPut
  <2>2. /\ x \in DOMAIN feeds' <=> x \in DOMAIN feeds
        /\ ListedBy(feeds, u, x)' <=> ListedBy(feeds, u, x)
    BY <1>2, FeedsSame
  <2>3. u = z /\ Follows(mine, x) => Follows(rec, x) \/ x \in seen
    BY <1>2, <1>5 DEF Follows
  <2>4. CASE u = z /\ x = w
    <3>1. req[r].op # "import" /\ ~Crossed(r)
      BY <1>2, <1>5, <2>4
    <3>2. \A ops \in SUBSET All : Telling(ops, u, x) = {}
      BY <1>3, <2>4, <3>1 DEF Crossed, Telling, Tells
    <3>3. Telling({"follow"}, u, x) = {} /\ Telling({"unfollow", "archive"}, u, x) = {}
          /\ Telling(All, u, x) = {}
      BY <3>2
    <3>4. Follower(u, x)' => \/ Tells(q, {"follow"}, u, x)
                             \/ ListedBy(users, u, x)' \/ ListedBy(feeds, u, x)'
      <4>1. CASE Follows(mine, x)
        BY <1>5, <2>1, <2>2, <2>4, <3>3, <4>1 DEF Paired
      <4>2. CASE req[r].op \in {"feed", "fix"}
        <5>1. r \in Starting(x) \cup Mending(x) /\ x \in DOMAIN feeds
          BY <1>2, <1>5, <2>4, <4>2 DEF Starting, Mending, At, SavesOwn
        <5>2. ListedBy(feeds, u, x)
          BY <1>5, <2>4, <5>1 DEF Paired
        <5> QED BY <2>2, <5>2
      <4> QED BY <1>4, <2>1, <2>4, <3>1, <4>1, <4>2
    <3>5. ListedBy(users, u, x)' => Tells(q, {"unfollow", "archive"}, u, x) \/ Follower(u, x)'
      BY <1>5, <1>4, <2>1, <2>3, <2>4, <3>3 DEF Paired
    <3>6. Tells(q, All, u, x) => u \in DOMAIN users' /\ (Follower(u, x)' <=> Follows(Saved(q), x))
      BY <1>5, <1>4, <2>1, <2>4
    <3>7. \A s \in (Starting(x) \cup Mending(x)) \ {r} :
            req[s].u = u /\ x \in DOMAIN feeds' => ListedBy(feeds, u, x)'
      BY <1>5, <2>2 DEF Paired
    <3>8. Telling(All, u, x) \ {r} = {} /\ ~Begins(q, u, x)
      BY <1>3, <3>3
    <3> QED BY <1>5, <1>4, <3>4, <3>5, <3>6, <3>7, <3>8, PairMoves
  <2>5. CASE ~(u = z /\ x = w)
    <3>1. Follower(u, x)' <=> Follower(u, x)
      BY <1>5, <1>4, <2>1, <2>3, <2>5
    <3>2. ~Tells(q, All, u, x)
      BY <1>5, <1>4, <2>5
    <3> QED BY <1>3, <1>5, <1>4, <2>1, <2>2, <3>1, <3>2, PairStays
  <2> QED BY <2>4, <2>5
<1> QED BY <1>2, <1>3, <1>5, <1>4, FollowsKeeps

(* A request that goes on to tell still knows what it saved.               *)
LEMMA GoesTelling ==
  ASSUME Typed, NEW r \in Requests, req[r] # Idle, NEW at \in {"load", "other"}, Go(r, at)
  PROVE  \E q \in Handling :
           /\ q # Idle /\ q.at = at /\ q.op = req[r].op /\ q.u = req[r].u /\ q.x = req[r].x
           /\ q.theirs = req[r].theirs /\ q.mine = req[r].mine /\ q.arg = req[r].arg
           /\ Saved(q) = Saved(req[r])
           /\ req' = [req EXCEPT ![r] = q]
<1> DEFINE q == [req[r] EXCEPT !.at = at]
<1>1. at \in Stages
  BY DEF Stages
<1>2. /\ q \in Handling /\ q.at = at /\ q.op = req[r].op /\ q.u = req[r].u /\ q.x = req[r].x
      /\ q.theirs = req[r].theirs /\ q.mine = req[r].mine
      /\ req' = [req EXCEPT ![r] = q]
  BY <1>1, GoIs
<1>3. q.arg = req[r].arg
  BY HandlingIs DEF Handling
<1> HIDE DEF q
<1>4. q # Idle
  BY <1>2, NotIdle
<1>5. Saved(q) = Saved(req[r])
  BY <1>2, <1>3 DEF Saved
<1> QED BY <1>2, <1>3, <1>4, <1>5

LEMMA OwnEnds ==
  ASSUME Typed, FollowsInv, NEW r \in Requests, req[r] # Idle, req[r].at = "own",
         NEW rec \in Record, SaveOwn(r, rec, {}), rec.followers = req[r].mine.followers,
         \A y \in Names : Follows(rec, y) => Follows(req[r].mine, y) \/ y = req[r].x,
         Follows(rec, req[r].x) =>
           Follows(req[r].mine, req[r].x) \/ req[r].op \in {"import", "feed", "fix"},
         End(r)
  PROVE  FollowsInv'
<1>1. req' = [req EXCEPT ![r] = Idle] /\ Adds(Idle) /\ Idle \in Handling \cup {Idle}
  BY DEF End, Adds
<1>2. \A ops, u, x : ~Tells(Idle, ops, u, x)
  BY DEF Tells
<1>3. SavesOwn(r, rec, {}, Idle)
  BY <1>1, <1>2 DEF SavesOwn
<1> QED BY <1>1, <1>2, <1>3, OwnPairs

LEMMA FeedSaveOwnPairs ==
  ASSUME Typed, FollowsInv, NEW r \in Requests, FeedSaveOwn(r)
  PROVE  FollowsInv'
<1> DEFINE mine == req[r].mine
           rec == Creating(mine, req[r].x)
<1>1. /\ req[r] # Idle /\ req[r].at = "own" /\ req[r].op \in {"feed", "fix"}
      /\ SaveOwn(r, rec, {}) /\ End(r)
  BY DEF FeedSaveOwn, At
<1>2. mine \in Record /\ req[r].x \in Names
  BY <1>1, Facts
<1>3. rec \in Record
  BY <1>2, RecordsMade
<1>4. rec.followers = mine.followers
  BY <1>2 DEF Creating, Owning, Following, Record
<1>5. \A y \in Names : Follows(rec, y) => Follows(mine, y) \/ y = req[r].x
  BY <1>2, FollowsIs
<1> HIDE DEF rec
<1> QED BY <1>1, <1>3, <1>4, <1>5, OwnEnds

LEMMA OthersEndPairs ==
  ASSUME Typed, FollowsInv, NEW r \in Requests, ImportSaveOwn(r) \/ SettingsSaveOwn(r)
  PROVE  FollowsInv'
<1> DEFINE mine == req[r].mine
<1>1. req[r] # Idle /\ req[r].at = "own" /\ End(r)
  BY DEF ImportSaveOwn, SettingsSaveOwn, At
<1>2. mine \in Record /\ req[r].x \in Names /\ req[r].arg \in Names
  BY <1>1, Facts
<1>3. CASE ImportSaveOwn(r)
  <2> DEFINE rec == Following(mine, req[r].arg, req[r].x)
  <2>1. SaveOwn(r, rec, {}) /\ req[r].op = "import"
    BY <1>3 DEF ImportSaveOwn, At
  <2>2. rec \in Record
    BY <1>2, RecordsMade
  <2>3. rec.followers = mine.followers
    BY <1>2 DEF Following, Record
  <2>4. \A y \in Names : Follows(rec, y) => Follows(mine, y) \/ y = req[r].x
    BY <1>2, FollowingIs
  <2> HIDE DEF rec
  <2> QED BY <1>1, <2>1, <2>2, <2>3, <2>4, OwnEnds
<1>4. CASE SettingsSaveOwn(r)
  <2>1. SaveOwn(r, mine, {})
    BY <1>4 DEF SettingsSaveOwn
  <2> QED BY <1>1, <1>2, <2>1, OwnEnds
<1> QED BY <1>3, <1>4

LEMMA TransferFromPairs ==
  ASSUME Typed, FollowsInv, NEW r \in Requests, TransferFrom(r)
  PROVE  FollowsInv'
<1> DEFINE mine == req[r].mine
           rec == Disowning(mine, req[r].x)
<1>1. /\ req[r] # Idle /\ req[r].at = "own" /\ req[r].op = "transfer"
      /\ SaveOwn(r, rec, {}) /\ Go(r, "other")
  BY DEF TransferFrom, At
<1>2. mine \in Record /\ req[r].x \in Names
  BY <1>1, Facts
<1>3. rec \in Record
  BY <1>2, RecordsMade
<1>4. rec.followers = mine.followers
  BY <1>2 DEF Disowning, Record
<1>5. \A y \in Names : Follows(rec, y) => Follows(mine, y)
  BY <1>2, FollowsIs
<1> HIDE DEF rec
<1>6. PICK q \in Handling : /\ q.at = "other" /\ q.op = req[r].op
                            /\ req' = [req EXCEPT ![r] = q]
  BY <1>1, GoesTelling
<1>7. Adds(q) /\ \A u, x : /\ ~Tells(q, {"follow", "unfollow", "archive"}, u, x)
                           /\ ~Tells(q, {"archive"}, u, x)
  BY <1>1, <1>6 DEF Adds, Tells
<1>8. SavesOwn(r, rec, {}, q)
  BY <1>1, <1>2, <1>4, <1>5, <1>6, <1>7 DEF SavesOwn
<1> QED BY <1>1, <1>3, <1>7, <1>8, OwnPairs

LEMMA FollowSaveOwnPairs ==
  ASSUME Typed, FollowsInv, NEW r \in Requests, FollowSaveOwn(r)
  PROVE  FollowsInv'
<1> DEFINE mine == req[r].mine
           rec == Following(mine, req[r].arg, req[r].x)
<1>1. req[r] # Idle /\ req[r].at = "own" /\ req[r].op = "follow"
  BY DEF FollowSaveOwn, At
<1>2. mine \in Record /\ req[r].x \in Names /\ req[r].arg \in Names
  BY <1>1, Facts
<1>3. CASE End(r) /\ UNCHANGED <<users, feeds, files, left, restarts, hurt, astray>>
  <2>1. req' = [req EXCEPT ![r] = Idle] /\ Mute(req[r]) /\ Mute(Idle) /\ Adds(Idle)
    BY <1>1, <1>3 DEF End, Mute, Adds
  <2> QED BY <1>3, <2>1, MuteKeeps
<1>4. CASE SaveOwn(r, rec, {}) /\ Go(r, "load")
  <2>1. rec \in Record
    BY <1>2, RecordsMade
  <2>2. rec.followers = mine.followers
    BY <1>2 DEF Following, Record
  <2>3. \A y \in Names : Follows(rec, y) => Follows(mine, y) \/ y = req[r].x
    BY <1>2, FollowingIs
  <2>4. PICK q \in Handling :
           /\ q # Idle /\ q.at = "load" /\ q.op = req[r].op /\ q.u = req[r].u /\ q.x = req[r].x
           /\ Saved(q) = Saved(req[r]) /\ req' = [req EXCEPT ![r] = q]
    BY <1>1, <1>4, GoesTelling
  <2>5. Saved(q) = rec
    BY <1>1, <2>4 DEF Saved
  <2> HIDE DEF rec
  <2>6. Adds(q) /\ Tells(q, {"follow"}, req[r].u, req[r].x) /\ \A u, x : ~Tells(q, {"archive"}, u, x)
    BY <1>1, <2>4 DEF Adds, Tells
  <2>7. \A u, x \in Names : Tells(q, {"follow", "unfollow", "archive"}, u, x) =>
           u = req[r].u /\ x = req[r].x /\ (Follows(rec, x) <=> Follows(Saved(q), x))
    BY <2>4, <2>5 DEF Tells
  <2>8. SavesOwn(r, rec, {}, q)
    BY <1>1, <1>2, <1>4, <2>2, <2>3, <2>4, <2>6, <2>7 DEF SavesOwn
  <2> QED BY <1>1, <2>1, <2>6, <2>8, OwnPairs
<1> QED BY <1>3, <1>4 DEF FollowSaveOwn

LEMMA UnfollowSaveOwnPairs ==
  ASSUME Typed, FollowsInv, NEW r \in Requests, UnfollowSaveOwn(r)
  PROVE  FollowsInv'
<1> DEFINE mine == req[r].mine
           rec == [mine EXCEPT !.following = Without(@, req[r].arg)]
<1>1. /\ req[r] # Idle /\ req[r].at = "own" /\ req[r].op = "unfollow"
      /\ SaveOwn(r, rec, {req[r].x}) /\ Go(r, "load")
  BY DEF UnfollowSaveOwn, At
<1>2. mine \in Record /\ req[r].x \in Names /\ req[r].arg \in Names
  BY <1>1, Facts
<1>3. rec \in Record
  BY <1>2, RecordsMade
<1>4. rec.followers = mine.followers
  BY <1>2 DEF Record
<1>5. \A y \in Names : Follows(rec, y) => Follows(mine, y)
  BY <1>2, FollowingIs
<1>6. PICK q \in Handling :
         /\ q # Idle /\ q.at = "load" /\ q.op = req[r].op /\ q.u = req[r].u /\ q.x = req[r].x
         /\ Saved(q) = Saved(req[r]) /\ req' = [req EXCEPT ![r] = q]
  BY <1>1, GoesTelling
<1>7. Saved(q) = rec
  BY <1>1, <1>6 DEF Saved
<1> HIDE DEF rec
<1>8. /\ Adds(q) /\ Tells(q, {"unfollow", "archive"}, req[r].u, req[r].x)
      /\ \A u, x : ~Tells(q, {"archive"}, u, x)
  BY <1>1, <1>6 DEF Adds, Tells
<1>9. \A u, x \in Names : Tells(q, {"follow", "unfollow", "archive"}, u, x) =>
         u = req[r].u /\ x = req[r].x /\ (Follows(rec, x) <=> Follows(Saved(q), x))
  BY <1>6, <1>7 DEF Tells
<1>10. SavesOwn(r, rec, {req[r].x}, q)
  BY <1>1, <1>2, <1>4, <1>5, <1>6, <1>8, <1>9 DEF SavesOwn
<1> QED BY <1>1, <1>3, <1>8, <1>10, OwnPairs

(* Who archives a feed owned it, so nobody is about to own it for the      *)
(* first time.                                                             *)
LEMMA ArchiveSaveOwnPairs ==
  ASSUME Typed, FeedsInv, FollowsInv, NEW r \in Requests, ArchiveSaveOwn(r)
  PROVE  FollowsInv'
<1> DEFINE mine == req[r].mine
           rec == Detaching(mine, req[r].x)
<1>1. /\ req[r] # Idle /\ req[r].at = "own" /\ req[r].op = "archive"
      /\ SaveOwn(r, rec, {req[r].x}) /\ Go(r, "other") /\ req[r].x \in mine.feeds
  BY KnownIs DEF ArchiveSaveOwn, At, Knows
<1>2. mine \in Record /\ req[r].x \in Names
  BY <1>1, Facts
<1>3. rec \in Record
  BY <1>2, RecordsMade
<1>4. rec.followers = mine.followers
  BY <1>2 DEF Detaching, Disowning, Record
<1>5. \A y \in Names : Follows(rec, y) => Follows(mine, y)
  BY <1>2, FollowsIs
<1>6. PICK q \in Handling :
         /\ q # Idle /\ q.at = "other" /\ q.op = req[r].op /\ q.u = req[r].u /\ q.x = req[r].x
         /\ Saved(q) = Saved(req[r]) /\ req' = [req EXCEPT ![r] = q]
  BY <1>1, GoesTelling
<1>7. Saved(q) = rec
  BY <1>1, <1>6 DEF Saved
<1> HIDE DEF rec
<1>8. Adds(q) /\ Tells(q, {"unfollow", "archive"}, req[r].u, req[r].x)
  BY <1>1, <1>6 DEF Adds, Tells
<1>9. \A u, x \in Names : Tells(q, {"follow", "unfollow", "archive"}, u, x) =>
         u = req[r].u /\ x = req[r].x /\ (Follows(rec, x) <=> Follows(Saved(q), x))
  BY <1>6, <1>7 DEF Tells
<1>10. ASSUME NEW x \in Names \ hurt', NEW u \in Names, Tells(q, {"archive"}, u, x)
       PROVE  Starting(x) = {}
  <2>1. x = req[r].x
    BY <1>6, <1>10 DEF Tells
  <2>2. Owners(x) # {} /\ hurt \subseteq hurt'
    BY <1>1, <1>3, <2>1, SavedOwn
  <2> QED BY <2>2 DEF FeedsInv, Owned
<1>11. SavesOwn(r, rec, {req[r].x}, q)
  BY <1>1, <1>2, <1>4, <1>5, <1>6, <1>8, <1>9 DEF SavesOwn
<1> QED BY <1>1, <1>3, <1>10, <1>11, OwnPairs

(* The last save of a request, of a record that loses nobody by it.        *)
LEMMA UserSaves ==
  ASSUME Typed, FollowsInv, NEW r \in Requests, End(r),
         NEW z \in Names, NEW rec \in Record, NEW read \in Record,
         users' = Put(users, z, rec), feeds' = feeds,
         hurt \subseteq hurt', Met(users, z, read) \subseteq hurt', astray \subseteq astray',
         \A y : Follows(rec, y) <=> Follows(read, y), read.followers \subseteq rec.followers,
         \A u \in Names : u \in rec.followers \ read.followers /\ <<u, z>> \notin astray'
                            /\ Paired(u, z) => Follower(u, z),
         \A u, x : /\ Tells(req[r], {"follow"}, u, x) => x = z /\ u \in rec.followers
                   /\ ~Tells(req[r], {"unfollow", "archive"}, u, x)
  PROVE  FollowsInv'
<1>1. req' = [req EXCEPT ![r] = Idle] /\ Mute(Idle) /\ Adds(Idle) /\ Idle \in Handling \cup {Idle}
  BY DEF End, Mute, Adds
<1>2. ASSUME NEW u \in Names \ hurt', NEW x \in Names \ hurt', <<u, x>> \notin astray', Paired(u, x)
      PROVE  Paired(u, x)'
  <2>1. /\ u \in DOMAIN users' <=> u \in DOMAIN users
        /\ IF u = z THEN /\ u \in DOMAIN users
                         /\ Follower(u, x) <=> Follows(read, x)
                         /\ Follower(u, x)' <=> Follows(rec, x)
           ELSE Follower(u, x)' <=> Follower(u, x)
        /\ IF x = z THEN /\ ListedBy(users, u, x) <=> u \in read.followers
                         /\ ListedBy(users, u, x)' <=> u \in rec.followers
           ELSE ListedBy(users, u, x)' <=> ListedBy(users, u, x)
    <3>1. u \notin Met(users, z, read) /\ x \notin Met(users, z, read)
      BY <1>2
    <3> QED BY <1>2, <3>1, UserPut
  <2>2. /\ x \in DOMAIN feeds' <=> x \in DOMAIN feeds
        /\ ListedBy(feeds, u, x)' <=> ListedBy(feeds, u, x)
    BY FeedsSame
  <2>3. Follower(u, x)' <=> Follower(u, x)
    BY <2>1
  <2>4. /\ ListedBy(users, u, x) => ListedBy(users, u, x)'
        /\ ListedBy(users, u, x)' => ListedBy(users, u, x) \/ Follower(u, x)
    BY <1>2, <2>1
  <2>5. /\ Tells(req[r], {"follow"}, u, x) => ListedBy(users, u, x)'
        /\ ~Tells(req[r], {"unfollow", "archive"}, u, x)
    BY <2>1
  <2>6. ~Tells(Idle, {"follow", "unfollow", "archive"}, u, x) /\ ~Begins(Idle, u, x)
    BY <1>1, MuteIs
  <2> QED BY <1>1, <1>2, <2>1, <2>2, <2>3, <2>4, <2>5, <2>6, PairStays
<1> QED BY <1>1, <1>2, MuteFollows

LEMMA FeedSaves ==
  ASSUME Typed, FollowsInv, NEW r \in Requests, End(r),
         NEW z \in Names, NEW rec \in Record, NEW read \in Record,
         feeds' = Put(feeds, z, rec), users' = users,
         hurt \subseteq hurt', Met(feeds, z, read) \subseteq hurt', astray \subseteq astray',
         read.followers \subseteq rec.followers,
         \A u, x : /\ Tells(req[r], {"follow"}, u, x) => x = z /\ u \in rec.followers
                   /\ ~Tells(req[r], {"unfollow", "archive"}, u, x)
  PROVE  FollowsInv'
<1>1. req' = [req EXCEPT ![r] = Idle] /\ Mute(Idle) /\ Adds(Idle) /\ Idle \in Handling \cup {Idle}
  BY DEF End, Mute, Adds
<1>2. ASSUME NEW u \in Names \ hurt', NEW x \in Names \ hurt', <<u, x>> \notin astray', Paired(u, x)
      PROVE  Paired(u, x)'
  <2>1. /\ x \in DOMAIN feeds' <=> x \in DOMAIN feeds
        /\ IF x = z THEN /\ ListedBy(feeds, u, x) <=> u \in read.followers
                         /\ ListedBy(feeds, u, x)' <=> u \in rec.followers
           ELSE ListedBy(feeds, u, x)' <=> ListedBy(feeds, u, x)
    <3>1. x \notin Met(feeds, z, read)
      BY <1>2
    <3> QED BY <1>2, <3>1, FeedPut
  <2>2. /\ u \in DOMAIN users' <=> u \in DOMAIN users
        /\ Follower(u, x)' <=> Follower(u, x)
        /\ ListedBy(users, u, x)' <=> ListedBy(users, u, x)
    BY UsersSame
  <2>3. ListedBy(feeds, u, x) => ListedBy(feeds, u, x)'
    BY <2>1
  <2>4. /\ Tells(req[r], {"follow"}, u, x) => ListedBy(feeds, u, x)'
        /\ ~Tells(req[r], {"unfollow", "archive"}, u, x)
    BY <2>1
  <2>5. ~Tells(Idle, {"follow", "unfollow", "archive"}, u, x) /\ ~Begins(Idle, u, x)
    BY <1>1, MuteIs
  <2> QED BY <1>1, <1>2, <2>1, <2>2, <2>3, <2>4, <2>5, PairStays
<1> QED BY <1>1, <1>2, MuteFollows

LEMMA ManageTransferPairs ==
  ASSUME Typed, FollowsInv, NEW r \in Requests, ManageSave(r) \/ TransferTo(r)
  PROVE  FollowsInv'
<1> DEFINE q == req[r]
<1>1. q # Idle /\ q.op \in {"manage", "transfer"} /\ End(r)
  BY DEF ManageSave, TransferTo, At
<1>2. q.u \in Names /\ q.x \in Names /\ q.arg \in Names /\ q.theirs \in Record
  BY <1>1, Facts
<1>3. \A u, x : ~Tells(q, {"follow"}, u, x) /\ ~Tells(q, {"unfollow", "archive"}, u, x)
  BY <1>1 DEF Tells
<1> HIDE DEF q
<1>4. CASE ManageSave(r)
  <2>1. /\ feeds' = Put(feeds, q.x, q.theirs) /\ users' = users /\ astray \subseteq astray'
        /\ hurt \subseteq hurt' /\ Met(feeds, q.x, q.theirs) \subseteq hurt'
    BY <1>4 DEF ManageSave, q
  <2> QED BY <1>1, <1>2, <1>3, <2>1, FeedSaves DEF q
<1>5. CASE TransferTo(r)
  <2> DEFINE read == IF q.arg = q.u THEN Disowning(q.theirs, q.x) ELSE q.theirs
             rec == Owning(q.theirs, q.x)
  <2>1. /\ users' = Put(users, q.arg, rec) /\ feeds' = feeds /\ astray \subseteq astray'
        /\ hurt \subseteq hurt' /\ Met(users, q.arg, read) \subseteq hurt'
    BY <1>5 DEF TransferTo, q
  <2>2. rec \in Record /\ read \in Record
    BY <1>2, RecordsMade
  <2>3. \A y : Follows(rec, y) <=> Follows(read, y)
    BY <1>2, FollowsIs
  <2>4. rec.followers = read.followers
    BY <1>2 DEF Owning, Disowning, Record
  <2> HIDE DEF rec, read
  <2>5. \A u, x : /\ Tells(req[r], {"follow"}, u, x) => x = q.arg /\ u \in rec.followers
                  /\ ~Tells(req[r], {"unfollow", "archive"}, u, x)
    BY <1>3 DEF q
  <2> QED BY <1>1, <1>2, <2>1, <2>2, <2>3, <2>4, <2>5, UserSaves
<1> QED BY <1>4, <1>5

(* FixFollowers adds followers, or sets those apart who no longer follow.  *)
LEMMA FixFollowersPairs ==
  ASSUME Typed, FollowsInv, NEW r \in Requests, FixFollowersSave(r)
  PROVE  FollowsInv'
<1> DEFINE q == req[r]
           added == q.theirs.followers \ q.mine.followers
           gone == {u \in added : u \notin DOMAIN users \/ ~Follows(users[u], q.x)}
<1>1. q # Idle /\ q.op = "followers" /\ End(r)
  BY DEF FixFollowersSave, At
<1>2. q.x \in Names /\ q.theirs \in Record /\ q.mine \in Record
  BY <1>1, Facts
<1>3. q.theirs.following = q.mine.following /\ q.mine.followers \subseteq q.theirs.followers
  BY <1>1 DEF FollowsInv
<1>4. \A u, x : ~Tells(q, {"follow"}, u, x) /\ ~Tells(q, {"unfollow", "archive"}, u, x)
  BY <1>1 DEF Tells
<1>5. hurt \subseteq hurt' /\ astray' = astray \cup (gone \X {q.x})
  BY DEF FixFollowersSave
<1>6. \A u \in Names : u \in added /\ <<u, q.x>> \notin astray' => Follower(u, q.x)
  BY <1>5 DEF Follower
<1>7. CASE At(r, "followers", "fixed")
  <2>1. /\ users' = Put(users, q.x, q.theirs) /\ feeds' = feeds
        /\ Met(users, q.x, q.mine) \subseteq hurt'
    BY <1>7 DEF FixFollowersSave, At
  <2>2. \A y : Follows(q.theirs, y) <=> Follows(q.mine, y)
    BY <1>3 DEF Follows
  <2> HIDE DEF q
  <2>3. \A u, x : /\ Tells(req[r], {"follow"}, u, x) => x = q.x /\ u \in q.theirs.followers
                  /\ ~Tells(req[r], {"unfollow", "archive"}, u, x)
    BY <1>4 DEF q
  <2> QED BY <1>1, <1>2, <1>3, <1>5, <1>6, <2>1, <2>2, <2>3, UserSaves
<1>8. CASE At(r, "followers", "fixedFeed")
  <2>1. /\ feeds' = Put(feeds, q.x, q.theirs) /\ users' = users
        /\ Met(feeds, q.x, q.mine) \subseteq hurt'
    BY <1>8 DEF FixFollowersSave, At
  <2> HIDE DEF q
  <2>2. \A u, x : /\ Tells(req[r], {"follow"}, u, x) => x = q.x /\ u \in q.theirs.followers
                  /\ ~Tells(req[r], {"unfollow", "archive"}, u, x)
    BY <1>4 DEF q
  <2> QED BY <1>1, <1>2, <1>3, <1>5, <2>1, <2>2, FeedSaves
<1> QED BY <1>7, <1>8 DEF FixFollowersSave

(* The followee is told, and who tells still follows.                      *)
LEMMA FollowListPairs ==
  ASSUME Typed, FollowsInv, NEW r \in Requests, FollowList(r)
  PROVE  FollowsInv'
<1> DEFINE q == req[r]
           rec == Listing(q.theirs, q.u)
<1>1. /\ q # Idle /\ q.op = "follow" /\ End(r) /\ q.at \in {"list", "listFeed"}
      /\ hurt \subseteq hurt' /\ astray \subseteq astray'
  BY DEF FollowList, At
<1>2. q.u \in Names /\ q.x \in Names /\ q.arg \in Names /\ q.theirs \in Record /\ q.mine \in Record
  BY <1>1, Facts
<1>3. rec \in Record /\ rec.followers = q.theirs.followers \cup {q.u}
  BY <1>2, RecordsMade DEF Listing, Record
<1>4. \A y : Follows(rec, y) <=> Follows(q.theirs, y)
  BY <1>2, FollowsIs
<1>5. \A u, x : /\ Tells(q, {"follow"}, u, x) => x = q.x /\ u \in rec.followers
                /\ ~Tells(q, {"unfollow", "archive"}, u, x)
  BY <1>1, <1>3 DEF Tells
<1>6. Paired(q.u, q.x) => Follower(q.u, q.x)
  <2>1. r \in Telling({"follow", "unfollow", "archive"}, q.u, q.x)
    BY <1>1 DEF Telling
  <2>2. Follows(Saved(q), q.x)
    <3>1. Saved(q) = Following(q.mine, q.arg, q.x)
      BY <1>1 DEF Saved
    <3>2. Follows(Following(q.mine, q.arg, q.x), q.x)
      BY <1>2, FollowingIs
    <3> QED BY <3>1, <3>2
  <2> QED BY <2>1, <2>2 DEF Paired
<1>7. /\ q.theirs.followers \subseteq rec.followers
      /\ \A u \in Names : u \in rec.followers \ q.theirs.followers /\ <<u, q.x>> \notin astray'
                            /\ Paired(u, q.x) => Follower(u, q.x)
  BY <1>3, <1>6
<1>8. CASE At(r, "follow", "list")
  <2>1. /\ users' = Put(users, q.x, rec) /\ feeds' = feeds
        /\ Met(users, q.x, q.theirs) \subseteq hurt'
    BY <1>8 DEF FollowList, At
  <2> HIDE DEF rec
  <2> QED BY <1>1, <1>2, <1>3, <1>4, <1>5, <1>7, <2>1, UserSaves
<1>9. CASE At(r, "follow", "listFeed")
  <2>1. /\ feeds' = Put(feeds, q.x, rec) /\ users' = users
        /\ Met(feeds, q.x, q.theirs) \subseteq hurt'
    BY <1>9 DEF FollowList, At
  <2> HIDE DEF rec
  <2> QED BY <1>1, <1>2, <1>3, <1>5, <1>7, <2>1, FeedSaves
<1> QED BY <1>8, <1>9 DEF FollowList

(* Who is told to have lost a follower has, or the pair is set apart.      *)
LEMMA UnfollowListPairs ==
  ASSUME Typed, FollowsInv, NEW r \in Requests, UnfollowList(r)
  PROVE  FollowsInv'
<1> DEFINE z == req[r].x
           w == req[r].u
           theirs == req[r].theirs
           rec == Unlisting(theirs, w)
<1>1. /\ req[r] # Idle /\ req[r].op = "unfollow" /\ req[r].at = "list" /\ End(r)
      /\ hurt \subseteq hurt' /\ astray \subseteq astray'
  BY DEF UnfollowList, At
<1>2. w \in Names /\ z \in Names /\ theirs \in Record
  BY <1>1, Facts
<1>3. rec \in Record /\ rec.followers = theirs.followers \ {w}
  BY <1>2, RecordsMade DEF Unlisting, Record
<1>4. \A y : Follows(rec, y) <=> Follows(theirs, y)
  BY <1>2, FollowsIs
<1>5. /\ users' = Put(users, z, rec) /\ feeds' = feeds /\ Met(users, z, theirs) \subseteq hurt'
      /\ Follows(Saved(req[r]), z) => <<w, z>> \in astray'
  BY <1>1 DEF UnfollowList, Saved
<1>6. req' = [req EXCEPT ![r] = Idle] /\ Mute(Idle) /\ Adds(Idle) /\ Idle \in Handling \cup {Idle}
  BY <1>1 DEF End, Mute, Adds
<1>7. \A u, x : /\ ~Tells(req[r], {"follow"}, u, x)
                /\ Tells(req[r], {"unfollow", "archive"}, u, x) => u = w /\ x = z
  BY <1>1 DEF Tells
<1>8. r \in Telling({"follow", "unfollow", "archive"}, w, z)
  BY <1>1 DEF Telling
<1> HIDE DEF rec, theirs, z, w
<1>9. ASSUME NEW u \in Names \ hurt', NEW x \in Names \ hurt', <<u, x>> \notin astray', Paired(u, x)
      PROVE  Paired(u, x)'
  <2>1. /\ u \in DOMAIN users' <=> u \in DOMAIN users
        /\ IF u = z THEN /\ u \in DOMAIN users
                         /\ Follower(u, x) <=> Follows(theirs, x)
                         /\ Follower(u, x)' <=> Follows(rec, x)
           ELSE Follower(u, x)' <=> Follower(u, x)
        /\ IF x = z THEN /\ ListedBy(users, u, x) <=> u \in theirs.followers
                         /\ ListedBy(users, u, x)' <=> u \in rec.followers
           ELSE ListedBy(users, u, x)' <=> ListedBy(users, u, x)
    <3>1. u \notin Met(users, z, theirs) /\ x \notin Met(users, z, theirs)
      BY <1>5, <1>9
    <3> QED BY <1>2, <1>3, <1>5, <1>9, <3>1, UserPut
  <2>2. /\ x \in DOMAIN feeds' <=> x \in DOMAIN feeds
        /\ ListedBy(feeds, u, x)' <=> ListedBy(feeds, u, x)
    BY <1>5, FeedsSame
  <2>3. Follower(u, x)' <=> Follower(u, x)
    BY <1>4, <2>1
  <2>4. ~Tells(Idle, {"follow", "unfollow", "archive"}, u, x) /\ ~Begins(Idle, u, x)
    BY <1>6, MuteIs
  <2>5. CASE u = w /\ x = z
    <3>1. ~Follower(u, x)' /\ ~ListedBy(users, u, x)'
      BY <1>3, <1>5, <1>8, <1>9, <2>1, <2>3, <2>5 DEF Paired
    <3>2. \A s \in (Starting(x) \cup Mending(x)) \ {r} :
            req[s].u = u /\ x \in DOMAIN feeds' => ListedBy(feeds, u, x)'
      BY <1>9, <2>2 DEF Paired
    <3> QED BY <1>6, <1>9, <2>1, <2>3, <2>4, <3>1, <3>2, PairMoves
  <2>6. CASE ~(u = w /\ x = z)
    <3>1. ListedBy(users, u, x)' <=> ListedBy(users, u, x)
      BY <1>3, <2>1, <2>6
    <3>2. ~Tells(req[r], {"follow"}, u, x) /\ ~Tells(req[r], {"unfollow", "archive"}, u, x)
      BY <1>7, <2>6
    <3> QED BY <1>6, <1>9, <2>1, <2>2, <2>3, <2>4, <3>1, <3>2, PairStays
  <2> QED BY <2>5, <2>6
<1> QED BY <1>1, <1>6, <1>9, MuteFollows

(* The owner who archives a feed is no longer in its list, and does not    *)
(* follow it, or is set apart; nobody is just beginning to.                *)
LEMMA ArchiveSaveFeedPairs ==
  ASSUME Typed, AccountsInv', FollowsInv, NEW r \in Requests, ArchiveSaveFeed(r)
  PROVE  FollowsInv'
<1> DEFINE z == req[r].x
           w == req[r].u
           theirs == req[r].theirs
           rec == Unlisting(theirs, w)
           mending == {req[o].x : o \in {p \in Requests : At(p, "fix", "own")}}
<1>1. /\ req[r] # Idle /\ req[r].op = "archive" /\ req[r].at = "other" /\ End(r)
      /\ hurt \subseteq hurt' /\ astray \subseteq astray'
  BY DEF ArchiveSaveFeed, At
<1>2. w \in Names /\ z \in Names /\ theirs \in Record
  BY <1>1, Facts
<1>3. rec \in Record /\ rec.followers = theirs.followers \ {w}
  BY <1>2, RecordsMade DEF Unlisting, Record
<1>4. /\ feeds' = Put(feeds, z, rec) /\ users' = users /\ Met(feeds, z, theirs) \subseteq hurt'
      /\ mending \subseteq hurt'
      /\ Follows(Saved(req[r]), z) => <<w, z>> \in astray'
  BY <1>1 DEF ArchiveSaveFeed, Saved, Follows
<1>5. req' = [req EXCEPT ![r] = Idle] /\ Mute(Idle) /\ Adds(Idle) /\ Idle \in Handling \cup {Idle}
  BY <1>1 DEF End, Mute, Adds
<1>6. \A u, x : /\ ~Tells(req[r], {"follow"}, u, x)
                /\ Tells(req[r], {"unfollow", "archive"}, u, x) => u = w /\ x = z
  BY <1>1 DEF Tells
<1>7. /\ r \in Telling({"follow", "unfollow", "archive"}, w, z)
      /\ r \in Telling({"archive"}, w, z)
  BY <1>1 DEF Telling
<1>8. z \notin hurt' => Starting(z) = {} /\ Mending(z) = {} /\ z \notin DOMAIN users'
  <2> SUFFICES ASSUME z \notin hurt'
               PROVE  Starting(z) = {} /\ Mending(z) = {} /\ z \notin DOMAIN users'
    OBVIOUS
  <2>1. Starting(z) = {}
    BY <1>1, <1>2, <1>7 DEF FollowsInv
  <2>2. Mending(z) = {}
    BY <1>4 DEF Mending
  <2>3. z \in DOMAIN feeds'
    BY <1>4 DEF Put
  <2>4. z \notin DOMAIN users'
    BY <1>2, <2>3 DEF AccountsInv, NamesInv, Held
  <2> QED BY <2>1, <2>2, <2>4
<1> HIDE DEF rec, theirs, z, w, mending
<1>9. ASSUME NEW u \in Names \ hurt', NEW x \in Names \ hurt', <<u, x>> \notin astray', Paired(u, x)
      PROVE  Paired(u, x)'
  <2>1. /\ u \in DOMAIN users' <=> u \in DOMAIN users
        /\ Follower(u, x)' <=> Follower(u, x)
        /\ ListedBy(users, u, x)' <=> ListedBy(users, u, x)
    BY <1>4, UsersSame
  <2>2. /\ x \in DOMAIN feeds' <=> x \in DOMAIN feeds
        /\ IF x = z THEN /\ ListedBy(feeds, u, x) <=> u \in theirs.followers
                         /\ ListedBy(feeds, u, x)' <=> u \in rec.followers
           ELSE ListedBy(feeds, u, x)' <=> ListedBy(feeds, u, x)
    <3>1. x \notin Met(feeds, z, theirs)
      BY <1>4, <1>9
    <3> QED BY <1>2, <1>3, <1>4, <1>9, <3>1, FeedPut
  <2>3. ~Tells(Idle, {"follow", "unfollow", "archive"}, u, x) /\ ~Begins(Idle, u, x)
    BY <1>5, MuteIs
  <2>4. CASE u = w /\ x = z
    <3>1. ~Follower(u, x)' /\ ~ListedBy(users, u, x)'
      <4>1. ~Follower(u, x)
        BY <1>4, <1>7, <1>9, <2>4 DEF Paired
      <4>2. ~ListedBy(users, u, x)'
        BY <1>8, <1>9, <2>4 DEF ListedBy
      <4> QED BY <2>1, <4>1, <4>2
    <3>2. (Starting(x) \cup Mending(x)) \ {r} = {}
      BY <1>8, <1>9, <2>4
    <3> QED BY <1>5, <1>9, <2>1, <2>3, <3>1, <3>2, PairMoves
  <2>5. CASE ~(u = w /\ x = z)
    <3>1. ListedBy(feeds, u, x)' <=> ListedBy(feeds, u, x)
      BY <1>3, <2>2, <2>5
    <3>2. ~Tells(req[r], {"follow"}, u, x) /\ ~Tells(req[r], {"unfollow", "archive"}, u, x)
      BY <1>6, <2>5
    <3> QED BY <1>5, <1>9, <2>1, <2>2, <2>3, <3>1, <3>2, PairStays
  <2> QED BY <2>4, <2>5
<1> QED BY <1>1, <1>5, <1>9, MuteFollows

(* FollowLoad and UnfollowLoad: the request reads whom to tell, or there   *)
(* is nobody.                                                              *)
LEMMA LoadPairs ==
  ASSUME Typed, FollowsInv, NEW r \in Requests, FollowLoad(r) \/ UnfollowLoad(r)
  PROVE  FollowsInv'
<1> DEFINE z == req[r].x
           w == req[r].u
<1>1. /\ req[r] # Idle /\ req[r].op \in {"follow", "unfollow"} /\ req[r].at = "load"
      /\ users' = users /\ feeds' = feeds /\ hurt' = hurt /\ astray \subseteq astray'
  BY DEF FollowLoad, UnfollowLoad, At
<1>2. /\ \A u, x : /\ Tells(req[r], {"follow"}, u, x) => u = w /\ x = z /\ req[r].op = "follow"
                   /\ Tells(req[r], {"unfollow", "archive"}, u, x) =>
                        u = w /\ x = z /\ req[r].op = "unfollow"
  BY <1>1 DEF Tells
<1>3. ASSUME End(r), req[r].op = "follow" => <<w, z>> \in astray',
             req[r].op = "unfollow" => z \notin DOMAIN users
      PROVE  FollowsInv'
  <2>1. req' = [req EXCEPT ![r] = Idle] /\ Mute(Idle) /\ Adds(Idle) /\ Idle \in Handling \cup {Idle}
    BY <1>3 DEF End, Mute, Adds
  <2>2. ASSUME NEW u \in Names \ hurt', NEW x \in Names \ hurt', <<u, x>> \notin astray', Paired(u, x)
        PROVE  Paired(u, x)'
    <3>1. /\ u \in DOMAIN users' <=> u \in DOMAIN users
          /\ Follower(u, x)' <=> Follower(u, x)
          /\ ListedBy(users, u, x)' <=> ListedBy(users, u, x)
          /\ x \in DOMAIN feeds' <=> x \in DOMAIN feeds
          /\ ListedBy(feeds, u, x)' <=> ListedBy(feeds, u, x)
      BY <1>1, UsersSame, FeedsSame
    <3>2. ~Tells(Idle, {"follow", "unfollow", "archive"}, u, x) /\ ~Begins(Idle, u, x)
      BY <2>1, MuteIs
    <3>3. /\ ~Tells(req[r], {"follow"}, u, x)
          /\ Tells(req[r], {"unfollow", "archive"}, u, x) => ~ListedBy(users, u, x)'
      BY <1>1, <1>2, <1>3, <2>2 DEF ListedBy
    <3> QED BY <2>1, <2>2, <3>1, <3>2, <3>3, PairStays
  <2> QED BY <1>1, <2>1, <2>2, MuteFollows
<1>4. ASSUME NEW at \in {"list", "listFeed"}, NEW rec \in Record,
             req' = [req EXCEPT ![r].at = at, ![r].theirs = rec]
      PROVE  FollowsInv'
  <2> DEFINE q == [req[r] EXCEPT !.at = at, !.theirs = rec]
  <2>1. /\ q \in Handling /\ q.op = req[r].op /\ q.at = at /\ q.u = w /\ q.x = z
        /\ q.mine = req[r].mine /\ q.arg = req[r].arg
    BY <1>1, <1>4, Facts DEF Handling, Stages
  <2>2. req' = [req EXCEPT ![r] = q]
    BY <1>4
  <2> HIDE DEF q
  <2>3. q # Idle /\ Saved(q) = Saved(req[r]) /\ Adds(q)
    BY <1>1, <2>1, NotIdle DEF Saved, Adds
  <2>4. \A ops, u, x : Tells(q, ops, u, x) <=> Tells(req[r], ops, u, x)
    BY <1>1, <1>4, <2>1, <2>3 DEF Tells
  <2>5. \A u, x : ~Begins(q, u, x) /\ ~Founds(q, x) /\ ~Tells(q, {"archive"}, u, x)
    BY <1>1, <1>4, <2>1 DEF Begins, Founds, Mends, Tells
  <2>6. ASSUME NEW u \in Names \ hurt', NEW x \in Names \ hurt', <<u, x>> \notin astray', Paired(u, x)
        PROVE  Paired(u, x)'
    <3>1. /\ u \in DOMAIN users' <=> u \in DOMAIN users
          /\ Follower(u, x)' <=> Follower(u, x)
          /\ ListedBy(users, u, x)' <=> ListedBy(users, u, x)
          /\ x \in DOMAIN feeds' <=> x \in DOMAIN feeds
          /\ ListedBy(feeds, u, x)' <=> ListedBy(feeds, u, x)
      BY <1>1, UsersSame, FeedsSame
    <3>2. /\ Tells(req[r], {"follow"}, u, x) => Tells(q, {"follow"}, u, x)
          /\ Tells(req[r], {"unfollow", "archive"}, u, x) => Tells(q, {"unfollow", "archive"}, u, x)
          /\ Tells(q, {"follow", "unfollow", "archive"}, u, x) =>
               Tells(req[r], {"follow", "unfollow", "archive"}, u, x)
          /\ ~Begins(q, u, x)
      BY <2>4, <2>5
    <3> QED BY <2>1, <2>2, <2>3, <2>6, <3>1, <3>2, PairStays
  <2> QED BY <1>1, <2>1, <2>2, <2>3, <2>5, <2>6, FollowsKeeps
<1>5. CASE FollowLoad(r)
  <2>1. CASE End(r) /\ astray' = astray \cup {<<w, z>>}
    BY <1>3, <1>5, <2>1 DEF FollowLoad, At
  <2> QED BY <1>4, <1>5, <2>1, Facts DEF FollowLoad
<1>6. CASE UnfollowLoad(r)
  <2>1. CASE End(r) /\ z \notin DOMAIN users
    BY <1>3, <1>6, <2>1 DEF UnfollowLoad, At
  <2> QED BY <1>4, <1>6, <2>1, Facts DEF UnfollowLoad
<1> QED BY <1>5, <1>6

(* The new record of a feed lists its creator only: nobody else followed   *)
(* it, or is set apart.                                                    *)
LEMMA FeedSavePairs ==
  ASSUME Typed, FeedsInv, FollowsInv, NEW r \in Requests, FeedSave(r)
  PROVE  FollowsInv'
<1> DEFINE z == req[r].x
           w == req[r].u
           q == [req[r] EXCEPT !.at = "own"]
           All == {"follow", "unfollow", "archive"}
<1>1. /\ req[r] # Idle /\ req[r].op \in {"feed", "fix"} /\ req[r].at = "feed"
      /\ feeds' = Put(feeds, z, Fresh({w})) /\ users' = users /\ Go(r, "own")
      /\ hurt \subseteq hurt' /\ astray \subseteq astray'
      /\ z \in DOMAIN users => z \in hurt'
      /\ req[r].op = "feed" /\ z \in DOMAIN feeds => z \in hurt'
      /\ z \in OthersWith(r) => z \in hurt'
      /\ req[r].op = "fix" => (Names \ {w}) \X {z} \subseteq astray'
  BY DEF FeedSave, At
<1>2. w \in Names /\ z \in Names
  BY <1>1, Facts
<1>3. /\ q \in Handling /\ q.at = "own" /\ q.op = req[r].op /\ q.u = w /\ q.x = z
      /\ req' = [req EXCEPT ![r] = q]
  <2>1. "own" \in Stages
    BY DEF Stages
  <2> QED BY <1>1, <2>1, GoIs
<1> HIDE DEF q
<1>4. /\ \A ops, u, x : ~Tells(req[r], ops, u, x) /\ ~Tells(q, ops, u, x)
      /\ \A u, x : (Founds(q, x) => x = z) /\ (Begins(q, u, x) => u = w /\ x = z)
      /\ Adds(q)
  BY <1>1, <1>3 DEF Tells, Begins, Founds, Mends, Adds
<1>5. ASSUME z \notin hurt'
      PROVE  /\ Starting(z) \cup Mending(z) = {}
             /\ \A ops \in SUBSET All, u \in Names : Telling(ops, u, z) = {}
  <2>1. z \notin OthersWith(r)
    BY <1>1, <1>5
  <2>2. Starting(z) \cup Mending(z) \subseteq {r}
    BY <2>1, NobodyElse
  <2>3. r \notin Starting(z) /\ r \notin Mending(z)
    BY <1>1 DEF Starting, Mending, At
  <2>4. ASSUME NEW ops \in SUBSET All, NEW u \in Names, NEW o \in Telling(ops, u, z)
        PROVE  FALSE
    <3>1. o # r
      BY <1>1 DEF Telling
    <3>2. z \notin Halfway(o)
      BY <2>1, <2>4, <3>1 DEF OthersWith, Telling
    <3> QED BY <2>4, <3>2 DEF Halfway, Telling
  <2> QED BY <2>2, <2>3, <2>4
<1>6. /\ z \in DOMAIN feeds' /\ Fresh({w}).followers = {w}
      /\ \A n \in DOMAIN feeds' : feeds'[n] = IF n = z THEN Fresh({w}) ELSE feeds[n]
      /\ DOMAIN feeds' = DOMAIN feeds \cup {z}
  BY <1>1 DEF Put, Fresh
<1>7. ASSUME NEW u \in Names \ hurt', NEW x \in Names \ hurt', <<u, x>> \notin astray', Paired(u, x)
      PROVE  Paired(u, x)'
  <2>1. /\ u \in DOMAIN users' <=> u \in DOMAIN users
        /\ Follower(u, x)' <=> Follower(u, x)
        /\ ListedBy(users, u, x)' <=> ListedBy(users, u, x)
    BY <1>1, UsersSame
  <2>2. CASE x # z
    <3>1. /\ ListedBy(feeds, u, x)' <=> ListedBy(feeds, u, x)
          /\ x \in DOMAIN feeds' <=> x \in DOMAIN feeds
      BY <1>6, <2>2 DEF ListedBy
    <3>2. /\ ~Tells(req[r], {"follow"}, u, x) /\ ~Tells(req[r], {"unfollow", "archive"}, u, x)
          /\ ~Tells(q, All, u, x) /\ ~Begins(q, u, x)
      BY <1>4, <2>2
    <3> QED BY <1>3, <1>7, <2>1, <3>1, <3>2, PairStays
  <2>3. CASE x = z
    <3>1. x \notin DOMAIN users /\ (req[r].op = "feed" => x \notin DOMAIN feeds)
      BY <1>1, <1>7, <2>3
    <3>2. /\ ~ListedBy(users, u, x) /\ (req[r].op = "feed" => ~ListedBy(feeds, u, x))
          /\ u = w => ListedBy(feeds, u, x)'
      BY <1>6, <2>3, <3>1 DEF ListedBy
    <3>3. u # w => req[r].op = "feed"
      BY <1>1, <1>7, <2>3
    <3>4. /\ Telling({"follow"}, u, x) = {} /\ Telling(All, u, x) \ {r} = {}
          /\ (Starting(x) \cup Mending(x)) \ {r} = {}
      BY <1>5, <1>7, <2>3
    <3>5. Follower(u, x)' => ListedBy(feeds, u, x)'
      BY <1>7, <2>1, <3>2, <3>3, <3>4 DEF Paired
    <3>6. ~Tells(q, All, u, x) /\ (Begins(q, u, x) => ListedBy(feeds, u, x)')
      BY <1>4, <3>2
    <3> QED BY <1>3, <1>7, <2>1, <3>2, <3>4, <3>5, <3>6, PairMoves
  <2> QED BY <2>2, <2>3
<1>8. \A x \in Names \ hurt', u \in Names :
        /\ Founds(q, x) => Telling({"archive"}, u, x) = {}
        /\ Tells(q, {"archive"}, u, x) => Starting(x) = {}
  <2> TAKE x \in Names \ hurt', u \in Names
  <2>1. CASE x = z
    <3>1. Telling({"archive"}, u, x) = {}
      BY <1>5, <2>1
    <3> QED BY <1>4, <3>1
  <2> QED BY <1>4, <2>1
<1> QED BY <1>1, <1>3, <1>4, <1>7, <1>8, FollowsKeeps

(* A new account follows nobody and nobody follows it.                     *)
LEMMA RegisterSavePairs ==
  ASSUME Typed, FollowsInv, NEW r \in Requests, RegisterSave(r)
  PROVE  FollowsInv'
<1> DEFINE z == req[r].u
<1>1. /\ req[r] # Idle /\ Mute(req[r]) /\ users' = Put(users, z, Fresh({})) /\ feeds' = feeds
      /\ hurt \subseteq hurt' /\ astray \subseteq astray' /\ (z \in DOMAIN users => z \in hurt')
  BY DEF RegisterSave, At, Mute
<1>2. req' = [req EXCEPT ![r] = Idle] /\ Mute(Idle) /\ Adds(Idle) /\ Idle \in Handling \cup {Idle}
  BY DEF RegisterSave, End, Mute, Adds
<1>3. /\ DOMAIN users' = DOMAIN users \cup {z}
      /\ \A n \in DOMAIN users' : users'[n] = IF n = z THEN Fresh({}) ELSE users[n]
  BY <1>1 DEF Put
<1>4. Fresh({}).followers = {} /\ \A y : ~Follows(Fresh({}), y)
  BY DEF Fresh, Follows, Restrict, Range
<1>5. ASSUME NEW u \in Names \ hurt', NEW x \in Names \ hurt', Paired(u, x)
      PROVE  Paired(u, x)'
  <2>1. (u = z => z \notin DOMAIN users) /\ (x = z => z \notin DOMAIN users)
    BY <1>1, <1>5
  <2>2. /\ Follower(u, x)' <=> Follower(u, x)
        /\ ListedBy(users, u, x)' <=> ListedBy(users, u, x)
    BY <1>3, <1>4, <2>1 DEF Follower, ListedBy
  <2>3. /\ x \in DOMAIN feeds' <=> x \in DOMAIN feeds
        /\ ListedBy(feeds, u, x)' <=> ListedBy(feeds, u, x)
    BY <1>1, FeedsSame
  <2>4. u \in DOMAIN users => u \in DOMAIN users'
    BY <1>3
  <2> QED BY <1>1, <1>2, <1>5, <2>2, <2>3, <2>4, PairOfMute
<1> QED BY <1>1, <1>2, <1>5, MuteFollows

(* What is deleted is set apart.                                           *)
LEMMA DeleteFeedPairs ==
  ASSUME Typed, FollowsInv, NEW r \in Requests, NEW z \in Names, DeleteFeed(r, z)
  PROVE  FollowsInv'
<1>1. /\ req[r] # Idle /\ req[r].op = "delete" /\ Mute(req[r]) /\ users' = users
      /\ hurt \subseteq hurt' /\ astray \subseteq astray'
  BY DEF DeleteFeed, At, Mute
<1>2. CASE End(r) /\ UNCHANGED <<feeds, astray>>
  <2>1. req' = [req EXCEPT ![r] = Idle] /\ Mute(Idle) /\ Adds(Idle)
    BY <1>2 DEF End, Mute, Adds
  <2> QED BY <1>1, <1>2, <2>1, MuteKeeps
<1>3. CASE /\ feeds' = Without(feeds, z) /\ astray' = astray \cup (Names \X {z})
           /\ req' = [req EXCEPT ![r].at = "file", ![r].x = z]
  <2> DEFINE q == [req[r] EXCEPT !.at = "file", !.x = z]
  <2>1. q \in Handling /\ q.op = "delete" /\ req' = [req EXCEPT ![r] = q]
    BY <1>1, <1>3, HandlingIs DEF Handling, Stages
  <2> HIDE DEF q
  <2>2. Mute(q) /\ Adds(q)
    BY <2>1 DEF Mute, Adds
  <2>3. ASSUME NEW u \in Names \ hurt', NEW x \in Names \ hurt', <<u, x>> \notin astray', Paired(u, x)
        PROVE  Paired(u, x)'
    <3>1. x # z
      BY <1>3, <2>3
    <3>2. /\ x \in DOMAIN feeds' <=> x \in DOMAIN feeds
          /\ ListedBy(feeds, u, x)' <=> ListedBy(feeds, u, x)
      BY <1>3, <3>1 DEF ListedBy, Without, Restrict
    <3>3. /\ u \in DOMAIN users' <=> u \in DOMAIN users
          /\ Follower(u, x)' <=> Follower(u, x)
          /\ ListedBy(users, u, x)' <=> ListedBy(users, u, x)
      BY <1>1, UsersSame
    <3> QED BY <1>1, <2>1, <2>2, <2>3, <3>2, <3>3, PairOfMute
  <2> QED BY <1>1, <2>1, <2>2, <2>3, MuteFollows
<1> QED BY <1>2, <1>3 DEF DeleteFeed

LEMMA DeleteAccountPairs ==
  ASSUME Typed, FollowsInv, NEW r \in Requests, DeleteAccount(r)
  PROVE  FollowsInv'
<1> DEFINE z == req[r].u
<1>1. /\ req[r] # Idle /\ Mute(req[r]) /\ users' = Without(users, z) /\ feeds' = feeds
      /\ hurt \subseteq hurt' /\ astray' = astray \cup ({z} \X Names) \cup (Names \X {z})
  BY DEF DeleteAccount, At, Mute
<1>2. req' = [req EXCEPT ![r] = Idle] /\ Mute(Idle) /\ Adds(Idle) /\ Idle \in Handling \cup {Idle}
  BY DEF DeleteAccount, End, Mute, Adds
<1>3. astray \subseteq astray'
  BY <1>1
<1>4. ASSUME NEW u \in Names \ hurt', NEW x \in Names \ hurt', <<u, x>> \notin astray', Paired(u, x)
      PROVE  Paired(u, x)'
  <2>1. u # z /\ x # z
    BY <1>1, <1>4
  <2>2. /\ u \in DOMAIN users' <=> u \in DOMAIN users
        /\ Follower(u, x)' <=> Follower(u, x)
        /\ ListedBy(users, u, x)' <=> ListedBy(users, u, x)
    BY <1>1, <2>1 DEF Follower, ListedBy, Without, Restrict
  <2>3. /\ x \in DOMAIN feeds' <=> x \in DOMAIN feeds
        /\ ListedBy(feeds, u, x)' <=> ListedBy(feeds, u, x)
    BY <1>1, FeedsSame
  <2> QED BY <1>1, <1>2, <1>4, <2>2, <2>3, PairOfMute
<1> QED BY <1>1, <1>2, <1>3, <1>4, MuteFollows

(* Whoever has somebody to tell when the process stops is hurt.            *)
LEMMA RestartPairs ==
  ASSUME Typed, FollowsInv, Restart
  PROVE  FollowsInv'
<1>1. \A r \in Requests : req'[r] = Idle
  BY DEF Restart
<1>2. /\ hurt' = hurt \cup UNION {Halfway(r) : r \in Requests}
      /\ users' = users /\ feeds' = feeds /\ astray' = astray
  BY DEF Restart
<1>3. \A ops, u, x : /\ Telling(ops, u, x)' = {} /\ Starting(x)' = {} /\ Mending(x)' = {}
  BY <1>1 DEF Telling, Starting, Mending, At
<1>4. ASSUME NEW u \in Names \ hurt', NEW x \in Names \ hurt', <<u, x>> \notin astray'
      PROVE  Paired(u, x)'
  <2>1. Paired(u, x)
    BY <1>2, <1>4 DEF FollowsInv
  <2>2. \A ops \in SUBSET {"follow", "unfollow", "archive"} : Telling(ops, u, x) = {}
    <3> SUFFICES ASSUME NEW ops \in SUBSET {"follow", "unfollow", "archive"},
                        NEW r \in Telling(ops, u, x)
                 PROVE  FALSE
      OBVIOUS
    <3>1. r \in Requests /\ x \in Halfway(r)
      BY DEF Telling, Halfway
    <3> QED BY <1>2, <1>4, <3>1
  <2>3. Telling({"follow"}, u, x) = {} /\ Telling({"unfollow", "archive"}, u, x) = {}
    BY <2>2
  <2>4. /\ Follower(u, x)' <=> Follower(u, x)
        /\ ListedBy(users, u, x)' <=> ListedBy(users, u, x)
        /\ ListedBy(feeds, u, x)' <=> ListedBy(feeds, u, x)
    BY <1>2, UsersSame, FeedsSame
  <2> QED BY <1>3, <2>1, <2>3, <2>4 DEF Paired
<1>5. \A r \in Requests : ~(req'[r] # Idle /\ req'[r].op = "followers")
  BY <1>1
<1> QED BY <1>3, <1>4, <1>5 DEF FollowsInv

LEMMA FollowsStart == Init => FollowsInv
<1> SUFFICES ASSUME Init
             PROVE  FollowsInv
  OBVIOUS
<1>1. \A r \in Requests : req[r] = Idle
  BY DEF Init
<1>2. \A ops, u, x : /\ Telling(ops, u, x) = {} /\ Starting(x) = {} /\ Mending(x) = {}
  BY <1>1 DEF Telling, Starting, Mending, At
<1>3. /\ \A n \in DOMAIN users : users[n] = Fresh({})
      /\ Fresh({}).followers = {} /\ \A y : ~Follows(Fresh({}), y)
  BY DEF Init, Fresh, Follows, Restrict, Range
<1>4. \A u, x : ~Follower(u, x) /\ ~ListedBy(users, u, x)
  BY <1>3 DEF Follower, ListedBy
<1>5. \A u, x : Paired(u, x)
  BY <1>2, <1>4 DEF Paired
<1> QED BY <1>1, <1>2, <1>5 DEF FollowsInv

LEMMA FollowsStay == AccountsInv /\ FeedsInv /\ FollowsInv /\ [Next]_vars => FollowsInv'
<1> SUFFICES ASSUME AccountsInv, FeedsInv, FollowsInv, [Next]_vars
             PROVE  FollowsInv'
  OBVIOUS
<1>1. Typed /\ NamesInv /\ AccountsInv'
  BY StaysWell DEF AccountsInv
<1>2. ASSUME NEW r \in Requests, Register(r) \/ Feed(r)
      PROVE  FollowsInv'
  BY <1>1, <1>2, ArrivalsMute, FileStepsMute, RegisterSavePairs, FeedSavePairs, FeedSaveOwnPairs
     DEF Register, Feed, CreateFeed
<1>3. ASSUME NEW r \in Requests, ManageFeed(r) \/ Archive(r) \/ Transfer(r)
      PROVE  FollowsInv'
  BY <1>1, <1>3, ArrivalsMute, ManageTransferPairs, ArchiveSaveOwnPairs, ArchiveSaveFeedPairs,
     TransferFromPairs
     DEF ManageFeed, Archive, Transfer
<1>4. ASSUME NEW r \in Requests, Follow(r) \/ Import(r) \/ Unfollow(r)
      PROVE  FollowsInv'
  BY <1>1, <1>4, ArrivalsMute, FollowSaveOwnPairs, LoadPairs, FollowListPairs, OthersEndPairs,
     UnfollowSaveOwnPairs, UnfollowListPairs
     DEF Follow, Import, Unfollow
<1>5. ASSUME NEW r \in Requests, Settings(r) \/ Post(r) \/ FixFollowers(r) \/ FixUserAccounts(r)
      PROVE  FollowsInv'
  BY <1>1, <1>5, ArrivalsMute, OthersEndPairs, FileStepsMute, FixFollowersPairs
     DEF Settings, Post, FixFollowers, FixUserAccounts
<1>6. ASSUME NEW r \in Requests, DeleteAll(r)
      PROVE  FollowsInv'
  BY <1>1, <1>6, ArrivalsMute, DeleteFeedPairs, FileStepsMute, DeleteAccountPairs DEF DeleteAll
<1>7. CASE Restart
  BY <1>1, <1>7, RestartPairs
<1>8. CASE UNCHANGED vars
  BY <1>8 DEF vars, FollowsInv, Paired, Follower, ListedBy, Telling, Starting, Mending, At
<1> QED BY <1>2, <1>3, <1>4, <1>5, <1>6, <1>7, <1>8 DEF Next

(* Where following and followers differ, a request is on its way to tell   *)
(* the other record, which FollowHandler (follow_handlers.go:61-129),      *)
(* UnfollowHandler (follow_handlers.go:227-262) and the archiving of a     *)
(* feed (handlers.go:372-415) save after their own.                        *)
THEOREM FollowsCorrect == Spec => []FollowsInv
  BY FollowsStart, FollowsStay, AccountsCorrect, FeedsCorrect, PTL DEF Spec

(* Who follows a user is in the user's list and the other way round, and   *)
(* who follows a feed is in its list, for any number of users, feeds,      *)
(* requests at a time and restarts, unless requests met on the records or  *)
(* the pair was driven apart by calls set aside in astray.                 *)
THEOREM FollowersDoAgree == Spec => []FollowersAgree
<1>1. Typed /\ NamesInv /\ FollowsInv => FollowersAgree
  <2> SUFFICES ASSUME Typed, NamesInv, FollowsInv,
                      NEW u \in DOMAIN users, NEW x \in DOMAIN users \cup DOMAIN feeds,
                      Settled(u), Settled(x), <<u, x>> \notin astray
               PROVE  IF x \in DOMAIN users THEN u \in users[x].followers <=> Follows(users[u], x)
                      ELSE Follows(users[u], x) => u \in feeds[x].followers
    BY DEF FollowersAgree
  <2>1. u \in Names \ hurt /\ x \in Names \ hurt
    BY Facts DEF Settled
  <2>2. Paired(u, x) /\ Held(x)
    BY <2>1 DEF FollowsInv, NamesInv
  <2>3. \A ops \in SUBSET {"follow", "unfollow", "archive"} : Telling(ops, u, x) = {}
    <3> SUFFICES ASSUME NEW ops \in SUBSET {"follow", "unfollow", "archive"},
                        NEW r \in Telling(ops, u, x)
                 PROVE  FALSE
      OBVIOUS
    <3>1. r \in Requests /\ x \in Halfway(r)
      BY DEF Telling, Halfway
    <3> QED BY <3>1 DEF Settled
  <2>4. Telling({"follow"}, u, x) = {} /\ Telling({"unfollow", "archive"}, u, x) = {}
    BY <2>3
  <2>5. /\ Follower(u, x) => ListedBy(users, u, x) \/ ListedBy(feeds, u, x)
        /\ ListedBy(users, u, x) => Follower(u, x)
    BY <2>2, <2>4 DEF Paired
  <2>6. x \notin DOMAIN users \cap DOMAIN feeds
    BY <2>2 DEF Held
  <2> QED BY <2>5, <2>6 DEF Follower, ListedBy
<1>2. AccountsInv => Typed /\ NamesInv
  BY DEF AccountsInv
<1> QED BY <1>1, <1>2, AccountsCorrect, FollowsCorrect, PTL
=============================================================================
