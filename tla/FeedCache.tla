------------------------------ MODULE FeedCache ------------------------------
(***************************************************************************)
(* The feed cache of the pod (internal/cache.go) with what feeds it: feed  *)
(* files and their servers, the requests of FetchTwts, ParseFile, the      *)
(* archive, the post handler, the UpdateFeeds and FixMissingTwts jobs,     *)
(* account deletion, and the cache file a restart loads.                   *)
(*                                                                         *)
(* A twt is a name; stamp[t] is the second its line was written.  Every    *)
(* server dates a feed by the second of its last change, as HTTP's         *)
(* Last-Modified header does.  Feeds exist, empty, since second 1.         *)
(***************************************************************************)
EXTENDS Naturals, FiniteSets

CONSTANTS
  Feed,           \* feeds the pod fetches
  Local,          \* those of the pod's own users, posted through PostHandler
  Twt,            \* the twts ever written
  FeedOf,         \* the feed each twt is written to
  Poster,         \* the feed of the user who posts to each local feed
  URL,            \* cache keys: the feeds' URLs and those some redirect to
  NewURL,         \* where a feed that moves redirects to
  MaxItems,       \* conf.MaxCacheItems (0: no limit)
  TTL,            \* conf.MaxCacheTTL, in seconds (0: none)
  MaxClock,       \* bound: seconds that pass
  MaxRestarts,    \* bound: restarts of a pod that has not crashed
  Deletable,      \* local feeds whose owner may delete the account
  NoEntry         \* "not in the cache"

ASSUME FeedCacheAssumption ==
  /\ Feed \subseteq URL
  /\ Local \subseteq Feed
  /\ Deletable \subseteq Local
  /\ FeedOf \in [Twt -> Feed]
  /\ Poster \in [Local -> Local]
  /\ DOMAIN NewURL \subseteq Feed \ Local
  /\ \A f \in DOMAIN NewURL : NewURL[f] \in URL \ Feed
  /\ \A f, g \in DOMAIN NewURL : NewURL[f] = NewURL[g] => f = g
  /\ MaxItems \in Nat /\ TTL \in Nat /\ MaxClock \in Nat \ {0, 1} /\ MaxRestarts \in Nat

LocalTwt == {t \in Twt : FeedOf[t] \in Local}

Fetcher == Feed \cup LocalTwt      \* a goroutine of the job, or of a post's handler

(* The handler fetches user.Source(), the user's own feed, whatever feed    *)
(* the twt went to.                                                        *)
Target(p) == IF p \in Feed THEN p ELSE Poster[FeedOf[p]]

VARIABLES
  clock,          \* now, in seconds
  file,           \* what each feed's server has: its twts and the second of its change
  stamp,          \* when each twt was written (0: not yet)
  cache,          \* cache.Twts, the feeds: twts and Lastmodified of each entry
  view,           \* cache.Twts["prefix:<BaseURL>"], the local timeline
  archive,        \* the archive's twts
  saved,          \* the cache file: entries and view
  fetch,          \* the goroutines of FetchTwts and the refresh that follows
  job,            \* position of the UpdateFeeds job
  gathered,       \* the local twts the job has gathered for the timeline
  moved,          \* feeds whose server redirects by now
  deletion,       \* position of each account deletion
  crashed,        \* "up", or what brought the pod down
  restarts

vars == <<clock, file, stamp, cache, view, archive, saved, fetch, job, gathered, moved, deletion,
          crashed, restarts>>

WithinLimit(S) == MaxItems = 0 \/ Cardinality(S) <= MaxItems

(* An entry is never larger than the limit.                                *)
Entry == [twts : {S \in SUBSET Twt : WithinLimit(S)}, mod : 0 .. MaxClock]

ASSUME NoEntryAssumption == NoEntry \notin Entry

FetchPos == {"idle", "start", "asked", "dated", "unchanged", "parsing", "archived",
             "fetched", "gathered", "posted"}

FetchState == [pc : FetchPos, since : 0 .. MaxClock, url : URL, mod : 0 .. MaxClock,
               twts : SUBSET Twt]

TypeOK ==
  /\ clock \in 2 .. MaxClock
  /\ file \in [Feed -> [twts : SUBSET Twt, mod : 0 .. MaxClock, live : BOOLEAN]]
  /\ stamp \in [Twt -> 0 .. MaxClock]
  /\ cache \in [URL -> Entry \cup {NoEntry}]
  /\ view \in SUBSET Twt
  /\ archive \in SUBSET Twt
  /\ saved \in [cache : [URL -> Entry \cup {NoEntry}], view : SUBSET Twt]
  /\ fetch \in [Fetcher -> FetchState]
  /\ job \in {"idle", "fetching", "gathered", "warmed"}
  /\ gathered \in SUBSET Twt
  /\ moved \in SUBSET DOMAIN NewURL
  /\ deletion \in [Deletable -> {"none", "file", "cache", "done", "cut"}]
  /\ crashed \in {"up", "no entry", "map race"}
  /\ restarts \in 0 .. MaxRestarts

Idle(p) == [pc |-> "idle", since |-> 0, url |-> Target(p), mod |-> 0, twts |-> {}]

Nothing == [u \in URL |-> NoEntry]

NoFile == [cache |-> Nothing, view |-> {}]

Init ==
  /\ clock = 2
  /\ file = [f \in Feed |-> [twts |-> {}, mod |-> 1, live |-> TRUE]]
  /\ stamp = [t \in Twt |-> 0]
  /\ cache = Nothing
  /\ view = {}
  /\ archive = {}
  /\ saved = NoFile
  /\ fetch = [p \in Fetcher |-> Idle(p)]
  /\ job = "idle"
  /\ gathered = {}
  /\ moved = {}
  /\ deletion = [f \in Deletable |-> "none"]
  /\ crashed = "up"
  /\ restarts = 0

-----------------------------------------------------------------------------
(* Reading the cache.                                                      *)

Cached(c, u) == IF c[u] = NoEntry THEN {} ELSE c[u].twts

(* What GetByPrefix(BaseURL) gathers.                                      *)
LocalTwts == UNION {Cached(cache, u) : u \in Local}

(* Cache.Lookup goes through every entry, the prefix entries too; the      *)
(* permalink falls back on the archive.                                    *)
InCache(t) == t \in view \/ \E u \in URL : t \in Cached(cache, u)

Findable(t) == InCache(t) \/ t \in archive

-----------------------------------------------------------------------------
(* The world outside.                                                      *)

Tick ==
  /\ clock < MaxClock
  /\ clock' = clock + 1
  /\ UNCHANGED <<file, stamp, cache, view, archive, saved, fetch, job, gathered, moved, deletion,
                 crashed, restarts>>

(* A line is appended to a feed's file.                                    *)
Write(t) ==
  LET f == FeedOf[t] IN
  /\ stamp[t] = 0
  /\ file[f].live
  /\ stamp' = [stamp EXCEPT ![t] = clock]
  /\ file' = [file EXCEPT ![f].twts = @ \cup {t}, ![f].mod = clock]

WriteElsewhere(t) ==
  /\ FeedOf[t] \notin Local
  /\ Write(t)
  /\ UNCHANGED <<clock, cache, view, archive, saved, fetch, job, gathered, moved, deletion,
                 crashed, restarts>>

Move(f) ==
  /\ f \notin moved
  /\ moved' = moved \cup {f}
  /\ UNCHANGED <<clock, file, stamp, cache, view, archive, saved, fetch, job, gathered, deletion,
                 crashed, restarts>>

(* The pod has not crashed.                                                *)
Up == crashed = "up"

-----------------------------------------------------------------------------
(* FetchTwts: one goroutine per feed.                                      *)

(* What a goroutine has asked and been answered is forgotten at its end.   *)
Goto(p, pos) == fetch' = [fetch EXCEPT ![p] = [Idle(p) EXCEPT !.pc = pos]]

fetchRest == <<clock, file, stamp, saved, job, gathered, moved, deletion, restarts>>

(* Mutant: the time of the last fetch stands for the date of the entry. *)
AskSinceNow(p) ==
  /\ Up
  /\ fetch[p].pc = "start"
  /\ fetch' = [fetch EXCEPT ![p].pc = "asked", ![p].since = clock]
  /\ UNCHANGED <<cache, view, archive, crashed, fetchRest>>

(* If-Modified-Since is the date of the entry, when it has one.            *)
Ask(p) ==
  LET e == cache[Target(p)] IN
  /\ Up
  /\ fetch[p].pc = "start"
  /\ fetch' = [fetch EXCEPT ![p].pc = "asked",
                            ![p].since = IF e = NoEntry THEN 0 ELSE e.mod]
  /\ UNCHANGED <<cache, view, archive, crashed, fetchRest>>

(* The server, possibly after a redirect, takes the date of its file and   *)
(* compares it with the header; a feed that is gone is not found.          *)
AnswerDate(p) ==
  LET f == Target(p)
      unchanged == fetch[p].since > 0 /\ file[f].mod <= fetch[p].since
  IN
  /\ Up
  /\ fetch[p].pc = "asked"
  /\ IF ~file[f].live THEN Goto(p, "fetched")
     ELSE fetch' = [fetch EXCEPT
            ![p] = [@ EXCEPT !.pc = IF unchanged THEN "unchanged" ELSE "dated",
                             !.since = 0,
                             !.mod = IF unchanged THEN 0 ELSE file[f].mod,
                             !.url = IF f \in moved THEN NewURL[f] ELSE f]]
  /\ UNCHANGED <<cache, view, archive, crashed, fetchRest>>

(* Only then it reads the file.                                            *)
AnswerBody(p) ==
  LET f == Target(p) IN
  /\ Up
  /\ fetch[p].pc = "dated"
  /\ IF ~file[f].live THEN Goto(p, "fetched")
     ELSE fetch' = [fetch EXCEPT ![p].pc = "parsing", ![p].twts = file[f].twts]
  /\ UNCHANGED <<cache, view, archive, crashed, fetchRest>>

(* The request, or the parsing of what came, fails.                        *)
FetchFails(p) ==
  /\ Up
  /\ Target(p) \notin Local
  /\ fetch[p].pc \in {"asked", "parsing"}
  /\ Goto(p, "fetched")
  /\ UNCHANGED <<cache, view, archive, crashed, fetchRest>>

(* ParseFile: twts past the TTL are old, the newest MaxItems others are    *)
(* kept, and the rest is in neither of the two lists.                      *)
Old(S) == {t \in S : TTL > 0 /\ stamp[t] + TTL < clock}

(* Mutant: one more than the limit is kept. *)
KeptOneMore(S) ==
  IF MaxItems = 0 \/ Cardinality(S) <= MaxItems + 1 THEN {S}
  ELSE {K \in SUBSET S : /\ Cardinality(K) = MaxItems
                         /\ \A k \in K, d \in S \ K : stamp[d] <= stamp[k]}

Kept(S) ==
  IF MaxItems = 0 \/ Cardinality(S) <= MaxItems THEN {S}
  ELSE {K \in SUBSET S : /\ Cardinality(K) = MaxItems
                         /\ \A k \in K, d \in S \ K : stamp[d] <= stamp[k]}

Parse(p) ==
  LET body == fetch[p].twts IN
  /\ Up
  /\ fetch[p].pc = "parsing"
  /\ \E keep \in Kept(body \ Old(body)) :
       fetch' = [fetch EXCEPT ![p].pc = "archived", ![p].twts = keep]
  /\ archive' = archive \cup Old(body)
  /\ UNCHANGED <<cache, view, crashed, fetchRest>>

(* Mutant: the date is taken over, the twts are not. *)
StoreDateOnly(p) ==
  LET e == cache[fetch[p].url] IN
  /\ Up
  /\ fetch[p].pc = "archived"
  /\ cache' = [cache EXCEPT ![fetch[p].url] =
                 [twts |-> IF e = NoEntry THEN {} ELSE e.twts, mod |-> fetch[p].mod]]
  /\ Goto(p, "fetched")
  /\ UNCHANGED <<view, archive, crashed, fetchRest>>

(* Mutant: the entry is dated by the clock. *)
StoreDatedNow(p) ==
  /\ Up
  /\ fetch[p].pc = "archived"
  /\ cache' = [cache EXCEPT ![fetch[p].url] = [twts |-> fetch[p].twts, mod |-> clock]]
  /\ Goto(p, "fetched")
  /\ UNCHANGED <<view, archive, crashed, fetchRest>>

StoreEntry(p) ==
  /\ Up
  /\ fetch[p].pc = "archived"
  /\ cache' = [cache EXCEPT ![fetch[p].url] = [twts |-> fetch[p].twts, mod |-> fetch[p].mod]]
  /\ Goto(p, "fetched")
  /\ UNCHANGED <<view, archive, crashed, fetchRest>>

(* 304: the twts of the entry are read, whether there is one or not.       *)
NotModified(p) ==
  /\ Up
  /\ fetch[p].pc = "unchanged"
  /\ crashed' = IF cache[fetch[p].url] = NoEntry THEN "no entry" ELSE crashed
  /\ Goto(p, "fetched")
  /\ UNCHANGED <<cache, view, archive, fetchRest>>

Fetch(p) ==
  \/ Ask(p) \/ AnswerDate(p) \/ AnswerBody(p) \/ FetchFails(p)
  \/ Parse(p) \/ StoreEntry(p) \/ NotModified(p)

-----------------------------------------------------------------------------
(* PostHandler: AppendTwt or AppendSpecial, FetchTwts of the user's own feed, and        *)
(* GetByPrefix with refresh, which gathers and stores under two locks.     *)

Post(t) ==
  /\ Up
  /\ t \in LocalTwt
  /\ Write(t)
  /\ Goto(t, "start")
  /\ UNCHANGED <<clock, cache, view, archive, saved, job, gathered, moved, deletion, crashed, restarts>>

PostGather(t) ==
  /\ Up
  /\ fetch[t].pc = "fetched"
  /\ fetch' = [fetch EXCEPT ![t].pc = "gathered", ![t].twts = LocalTwts]
  /\ UNCHANGED <<cache, view, archive, crashed, fetchRest>>

PostRefresh(t) ==
  /\ Up
  /\ fetch[t].pc = "gathered"
  /\ view' = fetch[t].twts
  /\ Goto(t, "posted")
  /\ UNCHANGED <<cache, archive, crashed, fetchRest>>

-----------------------------------------------------------------------------
(* The UpdateFeeds job: all feeds, then the local timeline, then the file. *)

jobRest == <<clock, file, stamp, cache, archive, moved, deletion, crashed, restarts>>

JobStart ==
  /\ Up
  /\ job = "idle"
  /\ fetch' = [p \in Fetcher |->
       IF p \in Feed THEN [Idle(p) EXCEPT !.pc = IF file[p].live THEN "start" ELSE "fetched"]
       ELSE fetch[p]]
  /\ job' = "fetching"
  /\ UNCHANGED <<view, saved, gathered, jobRest>>

JobGather ==
  /\ Up
  /\ job = "fetching"
  /\ \A f \in Feed : fetch[f].pc = "fetched"
  /\ gathered' = LocalTwts
  /\ fetch' = [p \in Fetcher |-> IF p \in Feed THEN Idle(p) ELSE fetch[p]]
  /\ job' = "gathered"
  /\ UNCHANGED <<view, saved, jobRest>>

JobRefresh ==
  /\ Up
  /\ job = "gathered"
  /\ view' = gathered
  /\ gathered' = {}
  /\ job' = "warmed"
  /\ UNCHANGED <<fetch, saved, jobRest>>

JobSave ==
  /\ Up
  /\ job = "warmed"
  /\ saved' = [cache |-> cache, view |-> view]
  /\ job' = "idle"
  /\ UNCHANGED <<fetch, view, gathered, jobRest>>

(* Store encodes the map without the lock: a write that overlaps with the  *)
(* iteration ends the program.                                             *)
EncodeRace ==
  /\ Up
  /\ job = "warmed"
  /\ \/ \E p \in Fetcher : fetch[p].pc \in {"archived", "gathered"}
     \/ \E f \in Deletable : deletion[f] = "cache"
  /\ crashed' = "map race"
  /\ UNCHANGED <<clock, file, stamp, cache, view, archive, saved, fetch, job, gathered, moved,
                 deletion, restarts>>

(* FixMissingTwts: a local twt found nowhere goes to the archive.          *)
FixMissing(t) ==
  /\ Up
  /\ FeedOf[t] \in Local
  /\ t \in file[FeedOf[t]].twts
  /\ ~Findable(t)
  /\ archive' = archive \cup {t}
  /\ UNCHANGED <<fetch, view, cache, crashed, fetchRest>>

-----------------------------------------------------------------------------
(* Account deletion, as far as the feed goes: its twts leave the archive,  *)
(* the feed and its file go, its entry leaves the cache, and the local     *)
(* timeline is rebuilt.                                                    *)

deletionRest == <<clock, stamp, saved, fetch, job, gathered, moved, crashed, restarts>>

DeleteArchived(f) ==
  /\ Up
  /\ deletion[f] = "none"
  /\ file[f].live
  /\ archive' = archive \ file[f].twts
  /\ deletion' = [deletion EXCEPT ![f] = "file"]
  /\ UNCHANGED <<file, cache, view, deletionRest>>

DeleteFile(f) ==
  /\ Up
  /\ deletion[f] = "file"
  /\ file' = [file EXCEPT ![f].twts = {}, ![f].live = FALSE]
  /\ deletion' = [deletion EXCEPT ![f] = "cache"]
  /\ UNCHANGED <<cache, view, archive, deletionRest>>

DeleteEntry(f) ==
  /\ Up
  /\ deletion[f] = "cache"
  /\ cache' = [cache EXCEPT ![f] = NoEntry]
  /\ view' = UNION {Cached(cache, u) : u \in Local \ {f}}
  /\ deletion' = [deletion EXCEPT ![f] = "done"]
  /\ UNCHANGED <<file, archive, deletionRest>>

Delete(f) == DeleteArchived(f) \/ DeleteFile(f) \/ DeleteEntry(f)

-----------------------------------------------------------------------------
(* The pod goes down, or has crashed, and loads the cache file; one that   *)
(* was only written in part is removed.  What was under way is gone; a     *)
(* deletion that got to the file is never resumed.                         *)
Restart ==
  /\ ~Up \/ restarts < MaxRestarts
  /\ restarts' = IF Up THEN restarts + 1 ELSE restarts
  /\ crashed' = "up"
  /\ \E found \in {saved} \cup (IF job = "warmed" THEN {NoFile} ELSE {}) :
       /\ saved' = found
       /\ cache' = found.cache
       /\ view' = found.view
  /\ fetch' = [p \in Fetcher |-> Idle(p)]
  /\ job' = "idle"
  /\ gathered' = {}
  /\ deletion' = [f \in Deletable |->
                    CASE deletion[f] = "file" -> "none"
                      [] deletion[f] = "cache" -> "cut"
                      [] OTHER -> deletion[f]]
  /\ UNCHANGED <<clock, file, stamp, archive, moved>>

JobNext == JobStart \/ JobGather \/ JobRefresh \/ JobSave

PostNext(t) == Post(t) \/ PostGather(t) \/ PostRefresh(t)

PodNext ==
  \/ \E p \in Fetcher : Fetch(p)
  \/ \E t \in LocalTwt : PostNext(t)
  \/ JobNext \/ EncodeRace
  \/ \E t \in LocalTwt : FixMissing(t)
  \/ \E f \in Deletable : Delete(f)

Next ==
  \/ PodNext
  \/ Tick
  \/ \E t \in Twt \ LocalTwt : WriteElsewhere(t)
  \/ \E f \in DOMAIN NewURL : Move(f)
  \/ Restart

(* Goroutines run, jobs are started again and again by cron, and a crashed *)
(* pod is restarted.  A server elsewhere may fail to answer, but not every *)
(* time it is asked.                                                       *)
Fairness ==
  /\ \A p \in Fetcher : WF_vars(Ask(p) \/ AnswerDate(p) \/ AnswerBody(p)
                             \/ Parse(p) \/ StoreEntry(p) \/ NotModified(p))
  /\ \A f \in Feed \ Local : SF_vars(AnswerDate(f)) /\ SF_vars(Parse(f))
  /\ \A t \in LocalTwt : WF_vars(PostGather(t) \/ PostRefresh(t))
  /\ WF_vars(JobNext)
  /\ \A t \in LocalTwt : WF_vars(FixMissing(t))
  /\ \A f \in Deletable : WF_vars(DeleteFile(f) \/ DeleteEntry(f))
  /\ WF_vars(~Up /\ Restart)

Spec == Init /\ [][Next]_vars

FairSpec == Spec /\ Fairness

-----------------------------------------------------------------------------
(* Correctness.                                                            *)

(* Where the pod files the twts of feed f.                                 *)
Keys(f) == {f} \cup (IF f \in DOMAIN NewURL THEN {NewURL[f]} ELSE {})

(* t fell victim to the limit: the entry holds MaxItems twts, none older.  *)
Displaced(t, e) ==
  /\ MaxItems > 0
  /\ t \notin e.twts
  /\ Cardinality(e.twts) = MaxItems
  /\ \A k \in e.twts : stamp[t] <= stamp[k]

(* What makes it right to believe a 304: whatever was written in a second  *)
(* before the date of an entry is in the entry or archived (or displaced), *)
(* although date, body, archive and entry are taken at different moments.  *)
CoveredBy(e, f) ==
  \A t \in file[f].twts : stamp[t] < e.mod => t \in e.twts \cup archive \/ Displaced(t, e)

DateCoversEntry ==
  \A f \in Feed \ Deletable : \A u \in Keys(f) :
     cache[u] # NoEntry => CoveredBy(cache[u], f)

(* The same in the making, for what goroutines and the cache file hold.    *)
FilesDated ==
  \A f \in Feed :
     /\ file[f].mod <= clock
     /\ \A t \in file[f].twts : FeedOf[t] = f /\ stamp[t] > 0

AnswersCovered ==
  \A p \in Fetcher :
     /\ fetch[p].url \in Keys(Target(p))
     /\ fetch[p].mod <= clock
     /\ fetch[p].pc = "archived" => WithinLimit(fetch[p].twts)
     /\ Target(p) \notin Deletable =>
          /\ fetch[p].pc = "parsing" =>
               \A t \in file[Target(p)].twts : stamp[t] < fetch[p].mod => t \in fetch[p].twts
          /\ fetch[p].pc = "archived" => CoveredBy(fetch[p], Target(p))

EntriesCovered(c) ==
  \A u \in URL : c[u] # NoEntry =>
     /\ c[u].mod <= clock
     /\ \A f \in Feed \ Deletable : u \in Keys(f) => CoveredBy(c[u], f)

CacheInv ==
  /\ TypeOK
  /\ FilesDated
  /\ AnswersCovered
  /\ EntriesCovered(cache)
  /\ EntriesCovered(saved.cache)

(* The pod only dereferences a missing entry when a feed has moved or an   *)
(* account was deleted: a conditional request is sent for cached feeds.    *)
CrashNeedsRace ==
  crashed = "no entry" => moved # {} \/ \E f \in Deletable : deletion[f] # "none"

(* A fetch that may be told that nothing has changed has an entry to go    *)
(* back to.                                                                *)
EntriesAwaited ==
  moved = {} /\ (\A f \in Deletable : deletion[f] = "none") =>
    \A p \in Fetcher :
      /\ fetch[p].pc = "asked" /\ fetch[p].since > 0 => cache[Target(p)] # NoEntry
      /\ fetch[p].pc = "unchanged" => cache[fetch[p].url] # NoEntry

(* Nothing else was written to the feed in the second of t.                *)
AloneInSecond(t) == \A u \in Twt \ {t} : FeedOf[u] = FeedOf[t] => stamp[u] # stamp[t]

Fresh(t) == ~(TTL > 0 /\ stamp[t] + TTL < clock)

(* The deletion of the account has begun.                                  *)
Deleted(f) == f \in Deletable /\ deletion[f] # "none"

(* As long as the pod is up, every twt is in the end found by its hash and *)
(* the local timeline in the end shows every recent local twt, in spite of *)
(* stale bodies and timelines that overwrite newer ones.  Exempt are twts  *)
(* that share their second (see OwnPostShown) and displaced ones, of which *)
(* local ones are found even so, the FixMissingTwts job sees to it, and    *)
(* those of feeds whose deletion has begun.                                *)
Shown(t) ==
  stamp[t] > 0 /\ ~Deleted(FeedOf[t]) =>
    LET hidden == \/ ~AloneInSecond(t)
                  \/ \E u \in Keys(FeedOf[t]) : cache[u] # NoEntry /\ Displaced(t, cache[u])
    IN /\ FeedOf[t] \in Local => Findable(t) /\ (t \in view \/ hidden \/ ~Fresh(t))
       /\ Findable(t) \/ hidden

Converges == <>[](moved = {} /\ Up) => <>[](\A t \in Twt : Shown(t))

(* handlers.go:780: "Update user's own timeline with their own new post."  *)
OwnPostShown ==
  [][\A t \in LocalTwt :
       fetch[t].pc # "posted" /\ fetch'[t].pc = "posted" => t \in view']_vars
=============================================================================
