------------------------------ MODULE Accounts ------------------------------
(***************************************************************************)
(* Users, feeds, who owns which feed and who follows whom.                 *)
(*                                                                         *)
(* Every handler loads the record of its user (NewContext), changes that   *)
(* copy, and saves the whole copy with SetUser; most of them then do the   *)
(* same to a second record.  No lock and no version spans load and save.   *)
(* A name is shared by users and feeds, and by the file in feeds/ that     *)
(* holds its twts.  The actions here are the single calls to the database  *)
(* and to the file system, of handlers that run at the same time.          *)
(*                                                                         *)
(* Only what relates records is kept of a record: the feeds it owns, the   *)
(* nicks it follows with the names they stand for, its followers.          *)
(***************************************************************************)
EXTENDS Naturals, FiniteSets, Functions

CONSTANTS
  Names,        \* names of users and feeds, also the nicks one may choose
  Starts,       \* sets of names: who may have registered before
  Admin,        \* the admin's name
  Special,      \* specialUsernames, one of them: the pod's own feed
  Requests,     \* requests being handled at one time
  MaxRequests,  \* bound: requests in all
  MaxRestarts,  \* bound: restarts
  MaxFeeds      \* maxUserFeeds

ASSUME AccountsAssumption ==
  /\ Starts \subseteq SUBSET Names /\ Admin \in Names /\ Special \in Names
  /\ MaxRequests \in Nat /\ MaxRestarts \in Nat /\ MaxFeeds \in Nat

VARIABLES
  users, feeds,  \* the database: records by name
  files,         \* names with a file in feeds/
  req,           \* what each request is about to do
  left, restarts,
  hurt,          \* history: names whose record was overwritten by a copy
                 \* made before another request changed it, that two requests
                 \* made or one remade, or a restart left half way
  astray,        \* history: pairs whose following and followers may differ
  archived       \* history: feeds their owner gave up

vars == <<users, feeds, files, req, left, restarts, hurt, astray, archived>>

-----------------------------------------------------------------------------
(* Records                                                                 *)

Put(db, n, rec) == [m \in DOMAIN db \cup {n} |-> IF m = n THEN rec ELSE db[m]]
Without(db, n) == Restrict(db, DOMAIN db \ {n})

\* NewUser and NewFeed; of a feed only the followers are used.
Fresh(followers) == [feeds |-> {}, following |-> Restrict([n \in Names |-> n], {}),
                     followers |-> followers]

Follows(rec, x) == x \in Range(rec.following)
Following(rec, nick, x) == [rec EXCEPT !.following = Put(@, nick, x)]
Owning(rec, x) == [rec EXCEPT !.feeds = @ \cup {x}]
Disowning(rec, x) == [rec EXCEPT !.feeds = @ \ {x}]
Listing(rec, u) == [rec EXCEPT !.followers = @ \cup {u}]
Unlisting(rec, u) == [rec EXCEPT !.followers = @ \ {u}]

\* The owner's record once a feed has been created: user.Follow does nothing
\* when the url is already followed.
Creating(rec, x) ==
  LET own == Owning(rec, x)
  IN  IF Follows(rec, x) THEN own ELSE Following(own, x, x)

\* DetachFeedFromOwner removes the nick that is called like the feed.
Detaching(rec, x) == [Disowning(rec, x) EXCEPT !.following = Without(@, x)]

-----------------------------------------------------------------------------
(* History                                                                 *)

\* Names hurt by saving over db[n] a copy that was read as "read": its own,
\* and the feeds on which the two disagree.
Met(db, n, read) ==
  LET there == IF n \in DOMAIN db THEN db[n] ELSE Fresh({})
  IN  IF n \in DOMAIN db /\ there = read THEN {}
      ELSE {n} \cup (there.feeds \ read.feeds) \cup (read.feeds \ there.feeds)

Owners(x) == {u \in DOMAIN users : x \in users[u].feeds}

Idle == [at |-> "idle"]

\* Names a request has changed and not finished with.
Halfway(r) ==
  IF req[r].at \in {"idle", "stat", "write", "append", "fixed", "fixedFeed"}
     \/ (req[r].at = "own" /\ req[r].op \notin {"feed", "fix"})
  THEN {}
  ELSE {req[r].u, req[r].x} \cup req[r].mine.feeds
         \cup (IF req[r].op = "transfer" THEN {req[r].arg} ELSE {})

\* Names another request has not finished with, and the feed of r when someone
\* else owns it.
OthersWith(r) ==
  (UNION {Halfway(o) : o \in Requests \ {r}})
    \cup (IF Owners(req[r].x) \subseteq {req[r].u} THEN {} ELSE {req[r].x})

\* What other deletions have yet to delete.
Doomed(r) ==
  UNION {{req[o].u} \cup req[o].theirs.feeds :
           o \in {p \in Requests \ {r} : req[p] # Idle /\ req[p].op = "delete"}}

Init ==
  /\ \E people \in Starts : /\ users = [n \in people |-> Fresh({})]
                            /\ files = people
  /\ feeds = Restrict(users, {})
  /\ req = [r \in Requests |-> Idle]
  /\ left = MaxRequests /\ restarts = 0
  /\ hurt = {} /\ astray = {} /\ archived = {}

-----------------------------------------------------------------------------
(* Steps handlers share                                                    *)

\* A request of user u for x arrives and loads the user.
Load(r, op, at, u, x, arg, theirs) ==
  /\ req[r] = Idle /\ left > 0
  /\ left' = left - 1
  /\ req' = [req EXCEPT ![r] = [op |-> op, at |-> at, u |-> u, x |-> x, arg |-> arg,
              mine |-> IF u \in DOMAIN users THEN users[u] ELSE Fresh({}),
              theirs |-> theirs]]
  /\ UNCHANGED <<users, feeds, files, restarts, astray, archived>>

Arrive(r, op, at, u, x, arg, theirs) ==
  Load(r, op, at, u, x, arg, theirs) /\ UNCHANGED hurt

At(r, op, at) == req[r] # Idle /\ req[r].op = op /\ req[r].at = at
Go(r, at) == req' = [req EXCEPT ![r].at = at]
End(r) == req' = [req EXCEPT ![r] = Idle]

\* Another request follows, unfollows or archives for the same pair: it has
\* saved the follower and not yet the followee.
Crossed(r) ==
  \E o \in Requests \ {r} :
    /\ req[o].at \in {"load", "list", "listFeed", "other"}
    /\ req[o].u = req[r].u /\ req[o].x = req[r].x

\* SetUser with the copy of the user's own record, changed into rec.  What it
\* no longer follows is out of step with the followers there, unless the
\* request goes on to see to that ("seen").
SaveOwn(r, rec, seen) ==
  LET q == req[r]
      dropped == Range(q.mine.following) \ (Range(rec.following) \cup seen)
  IN  /\ users' = Put(users, q.u, rec)
      /\ hurt' = hurt \cup Met(users, q.u, q.mine)
                   \cup (IF q.op = "transfer" THEN {q.x} \ q.mine.feeds ELSE {})
                   \cup (IF q.op = "fix" THEN {q.x} \cap OthersWith(r) ELSE {})
                   \cup (IF q.op \in {"feed", "fix"} THEN {q.x} \ DOMAIN feeds ELSE {})
      /\ astray' = astray \cup ({q.u} \X dropped)
                     \cup (IF q.op = "import" \/ Crossed(r) THEN {<<q.u, q.x>>} ELSE {})
      /\ UNCHANGED <<feeds, files, left, restarts>>

-----------------------------------------------------------------------------
(* Registration: RegisterHandler, RegisterEndpoint, AddUserHandler         *)

RegisterCheck(r, n) ==
  /\ n \notin DOMAIN users /\ n \notin DOMAIN feeds
  /\ Arrive(r, "register", "stat", n, n, n, Fresh({}))

\* os.Stat, here and in CreateFeed; the request ends when there is a file.
StatName(r) ==
  /\ req[r].at = "stat"
  /\ IF req[r].x \in files THEN End(r) ELSE Go(r, "write")
  /\ UNCHANGED <<users, feeds, files, left, restarts, hurt, astray, archived>>

WriteFile(r) ==
  /\ req[r].at = "write"
  /\ files' = files \cup {req[r].x}
  /\ hurt' = IF req[r].x \in files THEN hurt \cup {req[r].x} ELSE hurt
  /\ Go(r, IF req[r].op = "register" THEN "account" ELSE "feed")
  /\ UNCHANGED <<users, feeds, left, restarts, astray, archived>>

\* After the hash of the password has been computed, which takes its time.
RegisterSave(r) ==
  /\ At(r, "register", "account")
  /\ users' = Put(users, req[r].u, Fresh({}))
  /\ hurt' = hurt \cup ((DOMAIN users \cup DOMAIN feeds) \cap {req[r].u})
                    \cup ({req[r].u} \ files)
                    \cup UNION {users[n].feeds : n \in DOMAIN users \cap {req[r].u}}
  /\ End(r)
  /\ UNCHANGED <<feeds, files, left, restarts, astray, archived>>

-----------------------------------------------------------------------------
(* Feeds: FeedHandler with CreateFeed, ArchiveFeedHandler, TransferFeed    *)

FeedArrive(r, u, x) ==
  /\ u \in DOMAIN users
  /\ Cardinality(users[u].feeds) <= MaxFeeds
  /\ Arrive(r, "feed", "stat", u, x, x, Fresh({}))

\* db.SetFeed of a new record, whatever there was: the followers of a feed that
\* is made again are gone.
FeedSave(r) ==
  LET x == req[r].x
      taken == DOMAIN users \cup (IF req[r].op = "feed" THEN DOMAIN feeds ELSE {})
  IN
  /\ At(r, "feed", "feed") \/ At(r, "fix", "feed")
  /\ feeds' = Put(feeds, x, Fresh({req[r].u}))
  /\ hurt' = hurt \cup ({x} \cap taken) \cup ({x} \ files)
                    \cup ({x} \cap OthersWith(r))
  /\ astray' = IF req[r].op = "fix" THEN astray \cup ((Names \ {req[r].u}) \X {x}) ELSE astray
  /\ Go(r, "own")
  /\ UNCHANGED <<users, files, left, restarts, archived>>

FeedSaveOwn(r) ==
  /\ At(r, "feed", "own") \/ At(r, "fix", "own")
  /\ SaveOwn(r, Creating(req[r].mine, req[r].x), {})
  /\ End(r) /\ UNCHANGED archived

\* FixUserAccounts, every hour and at the start: CreateFeed with force for the
\* admin, whose record is loaded before and saved after; no file is no
\* obstacle, and neither is one.
FixArrive(r) ==
  /\ Admin \in DOMAIN users
  /\ ~\E o \in Requests : At(o, "fix", req[o].at) \/ At(o, "followers", req[o].at)
  /\ Arrive(r, "fix", "file", Admin, Special, Special, Fresh({}))

FixFile(r) ==
  /\ At(r, "fix", "file")
  /\ files' = files \cup {req[r].x}
  /\ Go(r, "feed")
  /\ UNCHANGED <<users, feeds, left, restarts, hurt, astray, archived>>

ArchiveArrive(r, u, x) ==
  /\ u \in DOMAIN users /\ x \in DOMAIN feeds
  /\ x \in users[u].feeds
  /\ Arrive(r, "archive", "own", u, x, x, feeds[x])

ArchiveSaveOwn(r) ==
  /\ At(r, "archive", "own")
  /\ SaveOwn(r, Detaching(req[r].mine, req[r].x), {req[r].x})
  /\ archived' = archived \cup {req[r].x}
  /\ Go(r, "other")

ArchiveSaveFeed(r) ==
  LET q == req[r] IN
  /\ At(r, "archive", "other")
  /\ feeds' = Put(feeds, q.x, Unlisting(q.theirs, q.u))
  /\ hurt' = hurt \cup Met(feeds, q.x, q.theirs)
                    \cup {req[o].x : o \in {p \in Requests : At(p, "fix", "own")}}
  /\ astray' = IF q.x \in Range(Detaching(q.mine, q.x).following)
                 THEN astray \cup {<<q.u, q.x>>} ELSE astray
  /\ End(r)
  /\ UNCHANGED <<users, files, left, restarts, archived>>

\* ManageFeedHandler: the record of the feed is loaded, and saved with a new
\* description after the avatar has been stored.
ManageArrive(r, u, x) ==
  /\ u \in DOMAIN users /\ x \in users[u].feeds \cap DOMAIN feeds
  /\ Arrive(r, "manage", "other", u, x, x, feeds[x])

ManageSave(r) ==
  LET q == req[r] IN
  /\ At(r, "manage", "other")
  /\ feeds' = Put(feeds, q.x, q.theirs)
  /\ hurt' = hurt \cup Met(feeds, q.x, q.theirs)
  /\ End(r)
  /\ UNCHANGED <<users, files, left, restarts, astray, archived>>

\* The handler does not ask who owns the feed: the page it is called from
\* was made when the user did.
TransferArrive(r, u, x, to) ==
  /\ u \in DOMAIN users /\ to \in DOMAIN users /\ x \in DOMAIN feeds
  /\ Arrive(r, "transfer", "own", u, x, to, users[to])

TransferFrom(r) ==
  /\ At(r, "transfer", "own")
  /\ SaveOwn(r, Disowning(req[r].mine, req[r].x), {})
  /\ Go(r, "other") /\ UNCHANGED archived

\* Mutant: the feed is given before it is taken.
TransferToFirst(r) ==
  LET q == req[r] IN
  /\ At(r, "transfer", "other")
  /\ users' = Put(users, q.arg, IF q.arg = q.u THEN Disowning(q.theirs, q.x)
                                             ELSE Owning(q.theirs, q.x))
  /\ hurt' = hurt \cup (IF q.arg = q.u THEN {} ELSE Met(users, q.arg, q.theirs))
  /\ End(r)
  /\ UNCHANGED <<feeds, files, left, restarts, astray, archived>>

\* A transfer to oneself has just saved what it now saves over.
TransferTo(r) ==
  LET q == req[r]
      read == IF q.arg = q.u THEN Disowning(q.theirs, q.x) ELSE q.theirs
  IN
  /\ At(r, "transfer", "other")
  /\ users' = Put(users, q.arg, Owning(q.theirs, q.x))
  /\ hurt' = hurt \cup Met(users, q.arg, read)
  /\ End(r)
  /\ UNCHANGED <<feeds, files, left, restarts, astray, archived>>

-----------------------------------------------------------------------------
(* FixFollowers, some seconds after the start: it loads all records, adds  *)
(* to each the followers it lacks, and saves them all, changed or not.     *)
(* What it does to one record is one request here.                         *)

FixFollowersArrive(r, x, at, rec) ==
  /\ req[r] = Idle /\ left > 0
  /\ ~\E o \in Requests : At(o, "fix", req[o].at)
  /\ left' = left - 1
  /\ req' = [req EXCEPT ![r] = [op |-> "followers", at |-> at, u |-> x, x |-> x, arg |-> x,
       mine |-> rec,
       theirs |-> [rec EXCEPT !.followers = @ \cup {u \in DOMAIN users : Follows(users[u], x)}]]]
  /\ UNCHANGED <<users, feeds, files, restarts, hurt, astray, archived>>

\* The copy may be older than the record by now, and so may be what it adds.
FixFollowersSave(r) ==
  LET q == req[r]
      added == q.theirs.followers \ q.mine.followers
  IN
  /\ \/ /\ At(r, "followers", "fixed")
        /\ users' = Put(users, q.x, q.theirs) /\ UNCHANGED feeds
        /\ hurt' = hurt \cup Met(users, q.x, q.mine)
     \/ /\ At(r, "followers", "fixedFeed")
        /\ feeds' = Put(feeds, q.x, q.theirs) /\ UNCHANGED users
        /\ hurt' = hurt \cup Met(feeds, q.x, q.mine)
  /\ astray' = astray \cup ({u \in added : u \notin DOMAIN users \/ ~Follows(users[u], q.x)}
                             \X {q.x})
  /\ End(r)
  /\ UNCHANGED <<files, left, restarts, archived>>

-----------------------------------------------------------------------------
(* Following: FollowHandler, ImportHandler, UnfollowHandler                *)

FollowArrive(r, u, nick, x) ==
  /\ u \in DOMAIN users
  /\ Arrive(r, "follow", "own", u, x, nick, Fresh({}))

\* FollowAndValidate fetches the feed before it looks whether it is followed.
FollowSaveOwn(r) ==
  LET q == req[r] IN
  /\ At(r, "follow", "own")
  /\ IF q.x \in files /\ ~Follows(q.mine, q.x)
       THEN /\ SaveOwn(r, Following(q.mine, q.arg, q.x), {})
            /\ Go(r, "load")
       ELSE End(r) /\ UNCHANGED <<users, feeds, files, left, restarts, hurt, astray>>
  /\ UNCHANGED archived

\* The followee is a user, or a feed, or not yet in the database.
FollowLoad(r) ==
  LET q == req[r] IN
  /\ At(r, "follow", "load")
  /\ \/ /\ q.x \in DOMAIN users
        /\ req' = [req EXCEPT ![r].at = "list", ![r].theirs = users[q.x]]
        /\ UNCHANGED astray
     \/ /\ q.x \notin DOMAIN users /\ q.x \in DOMAIN feeds
        /\ req' = [req EXCEPT ![r].at = "listFeed", ![r].theirs = feeds[q.x]]
        /\ UNCHANGED astray
     \/ /\ q.x \notin DOMAIN users \cup DOMAIN feeds
        /\ End(r) /\ astray' = astray \cup {<<q.u, q.x>>}
  /\ UNCHANGED <<users, feeds, files, left, restarts, hurt, archived>>

FollowList(r) ==
  LET q == req[r] IN
  /\ \/ /\ At(r, "follow", "list")
        /\ users' = Put(users, q.x, Listing(q.theirs, q.u))
        /\ hurt' = hurt \cup Met(users, q.x, q.theirs)
        /\ UNCHANGED feeds
     \/ /\ At(r, "follow", "listFeed")
        /\ feeds' = Put(feeds, q.x, Listing(q.theirs, q.u))
        /\ hurt' = hurt \cup Met(feeds, q.x, q.theirs)
        /\ UNCHANGED users
  /\ End(r)
  /\ UNCHANGED <<files, left, restarts, astray, archived>>

\* Lists of feeds name a feed by its own nick.
ImportArrive(r, u, x) ==
  /\ u \in DOMAIN users
  /\ Arrive(r, "import", "own", u, x, x, Fresh({}))

ImportSaveOwn(r) ==
  /\ At(r, "import", "own")
  /\ SaveOwn(r, Following(req[r].mine, req[r].arg, req[r].x), {})
  /\ End(r) /\ UNCHANGED archived

\* Mutant: the nick is not looked up first.
UnfollowArriveUnchecked(r, u, nick) ==
  /\ u \in DOMAIN users
  /\ Arrive(r, "unfollow", "own", u,
            IF nick \in DOMAIN users[u].following THEN users[u].following[nick] ELSE "",
            nick, Fresh({}))

UnfollowArrive(r, u, nick) ==
  /\ u \in DOMAIN users /\ nick \in DOMAIN users[u].following
  /\ Arrive(r, "unfollow", "own", u, users[u].following[nick], nick, Fresh({}))

UnfollowSaveOwn(r) ==
  LET q == req[r] IN
  /\ At(r, "unfollow", "own")
  /\ SaveOwn(r, [q.mine EXCEPT !.following = Without(@, q.arg)], {q.x})
  /\ Go(r, "load") /\ UNCHANGED archived

\* Mutant: nobody is told.
UnfollowLoadNobody(r) ==
  /\ At(r, "unfollow", "load") /\ End(r)
  /\ UNCHANGED <<users, feeds, files, left, restarts, hurt, astray, archived>>

\* Only a user who is unfollowed is told, never a feed.
UnfollowLoad(r) ==
  LET q == req[r] IN
  /\ At(r, "unfollow", "load")
  /\ IF q.x \in DOMAIN users
       THEN req' = [req EXCEPT ![r].at = "list", ![r].theirs = users[q.x]]
       ELSE End(r)
  /\ UNCHANGED <<users, feeds, files, left, restarts, hurt, astray, archived>>

\* The user may still follow the same name by another nick.
UnfollowList(r) ==
  LET q == req[r] IN
  /\ At(r, "unfollow", "list")
  /\ users' = Put(users, q.x, Unlisting(q.theirs, q.u))
  /\ hurt' = hurt \cup Met(users, q.x, q.theirs)
  /\ astray' = IF Follows([q.mine EXCEPT !.following = Without(@, q.arg)], q.x)
                 THEN astray \cup {<<q.u, q.x>>} ELSE astray
  /\ End(r)
  /\ UNCHANGED <<feeds, files, left, restarts, archived>>

-----------------------------------------------------------------------------
(* Own record only, posting, deletion, restart                             *)

\* Settings, mute, unmute, tokens, password: the record is saved with a
\* change that relates it to no other.
SettingsArrive(r, u) ==
  /\ u \in DOMAIN users
  /\ Arrive(r, "settings", "own", u, u, u, Fresh({}))

SettingsSaveOwn(r) ==
  /\ At(r, "settings", "own")
  /\ SaveOwn(r, req[r].mine, {})
  /\ End(r) /\ UNCHANGED archived

PostArrive(r, u, x) ==
  /\ u \in DOMAIN users
  /\ x = u \/ x \in users[u].feeds
  /\ Arrive(r, "post", "append", u, x, x, Fresh({}))

\* AppendTwt creates the file when it has gone meanwhile.
PostAppend(r) ==
  /\ At(r, "post", "append")
  /\ files' = files \cup {req[r].x}
  /\ hurt' = hurt \cup ({req[r].x} \ files)
  /\ End(r)
  /\ UNCHANGED <<users, feeds, left, restarts, astray, archived>>

\* DeleteAllHandler and DelUserHandler; theirs.feeds are the feeds to delete.
\* An owned feed that is not there is one that another deletion has deleted.
DeleteArrive(r, u) ==
  /\ u \in DOMAIN users
  /\ Load(r, "delete", "own", u, u, u,
          [Fresh({}) EXCEPT !.feeds = users[u].feeds \cap DOMAIN feeds])
  /\ hurt' = hurt \cup (users[u].feeds \ DOMAIN feeds)

\* DelFeed of an owned feed, or of the user's own name in the end, unless
\* its twts cannot be read.
DeleteFeed(r, x) ==
  LET q == req[r] IN
  /\ At(r, "delete", "own") \/ At(r, "delete", "next")
  /\ IF q.theirs.feeds = {} THEN x = q.u ELSE x \in q.theirs.feeds
  /\ IF x \in files \/ (q.theirs.feeds # {} /\ x \notin DOMAIN feeds)
       THEN /\ feeds' = Without(feeds, x)
            /\ astray' = astray \cup (Names \X {x})
            /\ req' = [req EXCEPT ![r].at = "file", ![r].x = x]
            /\ hurt' = hurt \cup ({x} \cap Doomed(r))
       ELSE /\ End(r)
            /\ hurt' = hurt \cup {q.u} \cup q.mine.feeds
            /\ UNCHANGED <<feeds, astray>>
  /\ UNCHANGED <<users, files, left, restarts, archived>>

\* Mutant: the file of the account itself stays.
DeleteFeedFile(r) ==
  LET q == req[r] IN
  /\ At(r, "delete", "file")
  /\ files' = IF q.theirs.feeds = {} THEN files ELSE files \ {q.x}
  /\ req' = [req EXCEPT ![r].at = IF q.theirs.feeds = {} THEN "account" ELSE "next",
                        ![r].theirs.feeds = @ \ {q.x}]
  /\ UNCHANGED <<users, feeds, left, restarts, hurt, astray, archived>>

DeleteFile(r) ==
  LET q == req[r] IN
  /\ At(r, "delete", "file")
  /\ files' = files \ {q.x}
  /\ req' = [req EXCEPT ![r].at = IF q.theirs.feeds = {} THEN "account" ELSE "next",
                        ![r].theirs.feeds = @ \ {q.x}]
  /\ UNCHANGED <<users, feeds, left, restarts, hurt, astray, archived>>

\* Another deletion of the account may go on, and delete a new account of that
\* name.
DeleteAccount(r) ==
  LET q == req[r] IN
  /\ At(r, "delete", "account")
  /\ users' = Without(users, q.u)
  /\ hurt' = hurt \cup Met(users, q.u, q.mine) \cup ({q.u} \cap Doomed(r))
  /\ astray' = astray \cup ({q.u} \X Names) \cup (Names \X {q.u})
  /\ End(r)
  /\ UNCHANGED <<feeds, files, left, restarts, archived>>

\* A crash, or a shutdown that does not wait for the requests.  While there are
\* none it would change nothing here.
Restart ==
  /\ restarts < MaxRestarts /\ \E r \in Requests : req[r] # Idle
  /\ restarts' = restarts + 1
  /\ req' = [r \in Requests |-> Idle]
  /\ hurt' = hurt \cup UNION {Halfway(r) : r \in Requests}
  /\ UNCHANGED <<users, feeds, files, left, astray, archived>>

-----------------------------------------------------------------------------
(* The handlers                                                            *)

Register(r) == (\E n \in Names : RegisterCheck(r, n)) \/ RegisterSave(r)
CreateFeed(r) == StatName(r) \/ WriteFile(r) \/ FeedSave(r)
Feed(r) == (\E u, x \in Names : FeedArrive(r, u, x)) \/ CreateFeed(r) \/ FeedSaveOwn(r)
FixUserAccounts(r) == FixArrive(r) \/ FixFile(r)
FixFollowers(r) ==
  \/ \E x \in DOMAIN users : FixFollowersArrive(r, x, "fixed", users[x])
  \/ \E x \in DOMAIN feeds : FixFollowersArrive(r, x, "fixedFeed", feeds[x])
  \/ FixFollowersSave(r)
Archive(r) == \/ \E u, x \in Names : ArchiveArrive(r, u, x)
              \/ ArchiveSaveOwn(r) \/ ArchiveSaveFeed(r)
ManageFeed(r) == (\E u, x \in Names : ManageArrive(r, u, x)) \/ ManageSave(r)
Transfer(r) == \/ \E u, x, to \in Names : TransferArrive(r, u, x, to)
               \/ TransferFrom(r) \/ TransferTo(r)
Follow(r) == \/ \E u, nick, x \in Names : FollowArrive(r, u, nick, x)
             \/ FollowSaveOwn(r) \/ FollowLoad(r) \/ FollowList(r)
Import(r) == (\E u, x \in Names : ImportArrive(r, u, x)) \/ ImportSaveOwn(r)
Unfollow(r) == \/ \E u, nick \in Names : UnfollowArrive(r, u, nick)
               \/ UnfollowSaveOwn(r) \/ UnfollowLoad(r) \/ UnfollowList(r)
Settings(r) == (\E u \in Names : SettingsArrive(r, u)) \/ SettingsSaveOwn(r)
Post(r) == (\E u, x \in Names : PostArrive(r, u, x)) \/ PostAppend(r)
DeleteAll(r) == \/ \E u \in Names : DeleteArrive(r, u)
                \/ \E x \in Names : DeleteFeed(r, x)
                \/ DeleteFile(r) \/ DeleteAccount(r)

Next ==
  \/ \E r \in Requests :
       \/ Register(r) \/ Feed(r) \/ ManageFeed(r) \/ Archive(r) \/ Transfer(r)
       \/ Follow(r) \/ Import(r) \/ Unfollow(r)
       \/ Settings(r) \/ Post(r) \/ DeleteAll(r) \/ FixUserAccounts(r) \/ FixFollowers(r)
  \/ Restart

Spec == Init /\ [][Next]_vars

-----------------------------------------------------------------------------
(* Properties                                                              *)

IsRecord(rec) ==
  /\ rec.feeds \cup rec.followers \subseteq Names
  /\ DOMAIN rec.following \cup Range(rec.following) \subseteq Names

\* Records are records, and every request is about names: an unfollow looks
\* its nick up before it does anything.
TypeOK ==
  /\ DOMAIN users \cup DOMAIN feeds \subseteq Names
  /\ \A n \in DOMAIN users : IsRecord(users[n])
  /\ \A n \in DOMAIN feeds : IsRecord(feeds[n])
  /\ files \subseteq Names
  /\ left \in 0..MaxRequests /\ restarts \in 0..MaxRestarts
  /\ \A r \in Requests : req[r] = Idle \/
       /\ {req[r].u, req[r].x, req[r].arg} \subseteq Names
       /\ IsRecord(req[r].mine) /\ IsRecord(req[r].theirs)
  /\ hurt \cup archived \subseteq Names /\ astray \subseteq Names \X Names

Settled(n) == n \notin hurt /\ \A r \in Requests : n \notin Halfway(r)

\* A name has a file exactly when it is a user or a feed, and is never both:
\* it can be registered when, and only when, nobody has it.  Registration,
\* CreateFeed and deletion each touch file and record in two steps; only
\* requests that met on a name, or a restart, leave one without the other.
NamesTaken ==
  \A n \in Names : Settled(n) =>
    /\ n \in files <=> n \in DOMAIN users \cup DOMAIN feeds
    /\ n \notin DOMAIN users \cap DOMAIN feeds

\* Every feed has one owner, unless the owner archived it: through creation,
\* transfer (also to oneself) and deletion of accounts, each two or more
\* saves, a feed is neither orphaned nor owned twice as long as no requests
\* meet on the records and no transfer is repeated from an old page.
FeedsOwned ==
  \A x \in DOMAIN feeds : Settled(x) =>
    IF x \in archived THEN Cardinality(Owners(x)) <= 1 ELSE Cardinality(Owners(x)) = 1

\* Who follows a user is in that user's list and the other way round, and who
\* follows a feed is in its list.  Pairs that legal calls drive apart for
\* good are set aside in "astray": a nick used again for another name, an
\* import, one of two nicks unfollowed, an account or feed made again.
FollowersAgree ==
  \A u \in DOMAIN users, x \in DOMAIN users \cup DOMAIN feeds :
    Settled(u) /\ Settled(x) /\ <<u, x>> \notin astray =>
      IF x \in DOMAIN users THEN u \in users[x].followers <=> Follows(users[u], x)
      ELSE Follows(users[u], x) => u \in feeds[x].followers

-----------------------------------------------------------------------------
(* Why names are taken: the inductive invariant, proved in AccountsProofs   *)

\* Requests between the two steps that take or give up the name n.
Making(n) == {r \in Requests : req[r] # Idle /\ req[r].x = n
                /\ <<req[r].op, req[r].at>> \in {<<"register", "account">>, <<"feed", "feed">>}}
Fixing(n) == {r \in Requests : At(r, "fix", "feed") /\ req[r].x = n}
Emptying(n) == {r \in Requests : At(r, "delete", "file") /\ req[r].x = n}
Closing(n) == {r \in Requests : At(r, "delete", "account") /\ req[r].u = n}
Deleting(n) == {r \in Requests : req[r] # Idle /\ req[r].op = "delete" /\ req[r].u = n}
Listed(n) == {r \in Requests : req[r] # Idle /\ req[r].op = "delete"
                                /\ n \in req[r].theirs.feeds}

\* The file and the records of n, and who is at work when they disagree.
Held(n) ==
  /\ n \notin DOMAIN users \cap DOMAIN feeds
  /\ n \in DOMAIN feeds => n \in files
  /\ n \in DOMAIN users \ files => Closing(n) # {}
  /\ n \in files \ (DOMAIN users \cup DOMAIN feeds) =>
       Making(n) \cup Fixing(n) \cup Emptying(n) # {}

\* One request at a time makes n: it is nobody's, or its user's who is leaving.
Made(n) ==
  \A r \in Making(n) :
    /\ n \in files \ DOMAIN feeds /\ Making(n) = {r} /\ Emptying(n) = {}
    /\ n \in DOMAIN users => Closing(n) # {}

\* What is being deleted is there until its turn has come, and one request
\* at a time deletes it.
GivenUp(n) ==
  /\ Deleting(n) # {} => n \in DOMAIN users
  /\ \A r \in Listed(n) \ Emptying(n) : n \in DOMAIN feeds
  /\ \A r \in Emptying(n) :
       /\ n \in files \ DOMAIN feeds /\ Emptying(n) = {r}
       /\ n \in DOMAIN users => r \in Deleting(n) \ Listed(n)
  /\ Closing(n) # {} /\ n \in files => Making(n) \cup Fixing(n) # {}

\* Which stages the handlers share, and of whom.
Staged(r) ==
  /\ req[r].at \in {"stat", "write"} => req[r].op \in {"register", "feed"}
  /\ req[r].op = "register" => req[r].x = req[r].u
  /\ At(r, "delete", "file") =>
       IF req[r].theirs.feeds = {} THEN req[r].x = req[r].u ELSE req[r].x \in req[r].theirs.feeds

NamesInv ==
  /\ \A r \in Requests : req[r] = Idle \/ Staged(r)
  /\ \A n \in Names \ hurt : Held(n) /\ Made(n) /\ GivenUp(n)

\* Requests between the two saves that give a feed its owner, or another one.
Starting(x) == {r \in Requests : At(r, "feed", "own") /\ req[r].x = x}
Mending(x) == {r \in Requests : At(r, "fix", "own") /\ req[r].x = x}
Moving(x) == {r \in Requests : At(r, "transfer", "other") /\ req[r].x = x}

\* Deletions of accounts, begun, that found x among the feeds of the account.
Ending(x) == {r \in Requests : req[r] # Idle /\ req[r].op = "delete" /\ req[r].at # "own"
                               /\ x \in req[r].mine.feeds}

\* Nobody shares a feed, and who lacks an owner is getting one or was archived.
Owned(x) ==
  /\ \A u, v \in Owners(x) : u = v
  /\ x \in DOMAIN feeds /\ Owners(x) = {} =>
       x \in archived \/ (Starting(x) \cup Mending(x)) \cup Moving(x) # {}
  /\ \A r \in Starting(x) :
       Owners(x) = {} /\ Moving(x) = {} /\ Mending(x) = {} /\ Starting(x) = {r}
  /\ \A r \in Moving(x) : Owners(x) = {} /\ Moving(x) = {r}
  /\ x \notin DOMAIN feeds /\ (Owners(x) # {} \/ Moving(x) # {}) => Ending(x) # {}

\* The feeds of an account that a deletion has dealt with are no more.
Dealt(x) ==
  \A r \in Requests : req[r] # Idle /\ req[r].op = "delete" /\ x \in req[r].mine.feeds =>
    /\ req[r].at = "own" => x \in req[r].theirs.feeds
    /\ x \in DOMAIN feeds => x \in req[r].theirs.feeds /\ r \notin Emptying(x)

\* What requests know of feeds that is not in one record.
Known(r) ==
  /\ req[r].op = "delete" =>
       /\ req[r].at \in {"own", "file", "next", "account"}
       /\ req[r].theirs.feeds \subseteq req[r].mine.feeds
       /\ req[r].at = "account" => req[r].theirs.feeds = {}
  /\ req[r].op = "followers" => req[r].theirs.feeds = req[r].mine.feeds
  /\ req[r].op = "archive" /\ req[r].at = "own" => req[r].x \in req[r].mine.feeds

FeedsInv ==
  /\ \A r \in Requests : req[r] = Idle \/ Known(r)
  /\ \A x \in Names \ hurt : Owned(x) /\ Dealt(x)

\* Following and followers, apart.
Follower(u, x) == u \in DOMAIN users /\ Follows(users[u], x)
ListedBy(db, u, x) == x \in DOMAIN db /\ u \in db[x].followers

\* Requests of u that have changed whom u follows and have not told x.
Telling(ops, u, x) ==
  {r \in Requests : /\ req[r] # Idle /\ req[r].op \in ops /\ req[r].u = u /\ req[r].x = x
                    /\ req[r].at \in {"load", "list", "listFeed", "other"}}

\* The record such a request has saved.
Saved(q) ==
  IF q.op = "follow" THEN Following(q.mine, q.arg, q.x)
  ELSE IF q.op = "unfollow" THEN [q.mine EXCEPT !.following = Without(@, q.arg)]
  ELSE Detaching(q.mine, q.x)

\* What differs is about to be told, what was saved still stands, and who
\* creates a feed is in its list before following it.
Paired(u, x) ==
  /\ Follower(u, x) =>
       Telling({"follow"}, u, x) # {} \/ ListedBy(users, u, x) \/ ListedBy(feeds, u, x)
  /\ ListedBy(users, u, x) => Telling({"unfollow", "archive"}, u, x) # {} \/ Follower(u, x)
  /\ \A r \in Telling({"follow", "unfollow", "archive"}, u, x) :
       u \in DOMAIN users /\ (Follower(u, x) <=> Follows(Saved(req[r]), x))
  /\ \A r \in Starting(x) \cup Mending(x) :
       req[r].u = u /\ x \in DOMAIN feeds => ListedBy(feeds, u, x)

\* FixFollowers only adds, and nobody archives a feed that has no owner yet.
FollowsInv ==
  /\ \A r \in Requests : req[r] # Idle /\ req[r].op = "followers" =>
       /\ req[r].theirs.following = req[r].mine.following
       /\ req[r].mine.followers \subseteq req[r].theirs.followers
  /\ \A x \in Names \ hurt, u \in Names :
       Starting(x) # {} => Telling({"archive"}, u, x) = {}
  /\ \A u, x \in Names \ hurt : <<u, x>> \notin astray => Paired(u, x)

=============================================================================
