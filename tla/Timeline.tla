------------------------------ MODULE Timeline ------------------------------
(***************************************************************************)
(* What a visitor is shown: pages of a timeline, cut out of a cache that   *)
(* fetches change between two pages and filtered by the feeds the user has *)
(* muted; and single twts, looked for in the cache and then in the archive *)
(* while twts move from the one to the other.                              *)
(*                                                                         *)
(* Abstracted: a feed is its URL, normalised; a fetch is a 200 answer (the *)
(* others change nothing; FeedCache has dates, redirects, the cache file   *)
(* and the local timeline's own entry).                                    *)
(***************************************************************************)
EXTENDS Naturals, FiniteSets

CONSTANTS
  Feed,       \* feeds the user follows
  Local,      \* those of this pod, which FixMissingTwts reads
  Fetcher,    \* goroutines of FetchTwts: of the job, a post, a visit to a profile
  Job,        \* the FixMissingTwts job
  Twt, FeedOf, DateOf,
  Tagged,     \* twts that a search finds
  Mentioning, \* twts that mention the user
  Retractable,\* twts their author may take back
  PageSize,   \* conf.TwtsPerPage
  MaxItems,   \* conf.MaxCacheItems (0: no limit)
  Nick,       \* names under which feeds are muted
  Muting,     \* requests to mute or unmute
  NoFeed, NoTwt,
  Cast,       \* bound: the twts that are written in each case
  MaxAge,     \* bound: the date before which twts get too old
  MaxRestarts \* bound: ends of the program

ASSUME TimelineAssumption ==
  /\ Local \subseteq Feed /\ Retractable \cup Tagged \cup Mentioning \subseteq Twt
  /\ Cast \in [{"timeline", "twt"} -> SUBSET Twt] /\ Job \notin Fetcher /\ NoFeed \notin Feed /\ NoTwt \notin Twt
  /\ IsFiniteSet(Twt) /\ FeedOf \in [Twt -> Feed] /\ DateOf \in [Twt -> Nat]
  /\ Feed \cap {"none", "timeline", "search", "mentions"} = {}
  /\ PageSize \in Nat \ {0} /\ MaxItems \in Nat /\ MaxAge \in Nat /\ MaxRestarts \in Nat

Archiver == Fetcher \cup {Job}

VARIABLES
  visit,    \* what the visitor comes for: pages of the timeline, or a twt
  feed,     \* the twts of each feed's file
  removed,  \* twts their author has taken back
  cutoff,   \* twts before this date are too old for the cache
  cache,    \* the twts of each feed's entry
  file,     \* the archive's files: none, opened and not yet or badly written, whole
  work,     \* the fetchers and the job: what they read, keep, and have to archive
  muted,    \* User.Muted in the database
  muting,   \* requests that change it
  visitor,  \* one visitor: pages read, or a twt looked for
  restarts,
  spoilt,   \* history: twts cut by the limit, or whose archiving failed or was cut off
  wish,     \* history: feeds muted and not unmuted
  dropped   \* history: feeds whose mark was lost

world == <<visit, feed, removed, cutoff>>
mutes == <<muted, muting, wish, dropped>>
vars == <<world, cache, file, work, mutes, visitor, restarts, spoilt>>

AtRest == [at |-> "idle", feed |-> NoFeed, read |-> {}, keep |-> {}, todo |-> {}, twt |-> NoTwt]

Away == [at |-> "idle", list |-> "none", page |-> 0, count |-> [t \in Twt |-> 0], stay |-> Twt,
         wished |-> Feed, came |-> FALSE, went |-> FALSE,
         twt |-> NoTwt, excuse |-> FALSE]

NoMute == [n \in Nick |-> NoFeed]

Asleep == [at |-> "idle", copy |-> NoMute]

Init ==
  /\ visit \in {"timeline", "twt"}
  /\ feed = [f \in Feed |-> {}]
  /\ removed = {} /\ cutoff = 0
  /\ cache = [f \in Feed |-> {}]
  /\ file = [t \in Twt |-> "none"]
  /\ work = [x \in Archiver |-> AtRest]
  /\ muted = NoMute /\ muting = [m \in Muting |-> Asleep]
  /\ visitor = Away
  /\ restarts = 0 /\ spoilt = {} /\ wish = {} /\ dropped = {}

-----------------------------------------------------------------------------
(* Feeds and time                                                          *)

worldRest == <<cache, file, work, mutes, visitor, restarts, spoilt>>

Publish(t) ==
  /\ t \in Cast[visit] \ (removed \cup feed[FeedOf[t]])
  /\ feed' = [feed EXCEPT ![FeedOf[t]] = @ \cup {t}]
  /\ UNCHANGED <<visit, removed, cutoff, worldRest>>

TakeBack(t) ==
  /\ t \in Retractable \cap feed[FeedOf[t]]
  /\ feed' = [feed EXCEPT ![FeedOf[t]] = @ \ {t}]
  /\ removed' = removed \cup {t}
  /\ UNCHANGED <<visit, cutoff, worldRest>>

\* Pages depend on no archive, and twts on no mute: what ages is left out of
\* the one case, and who mutes of the other.
Age ==
  /\ visit = "twt"
  /\ cutoff < MaxAge /\ cutoff' = cutoff + 1
  /\ UNCHANGED <<visit, feed, removed, worldRest>>

-----------------------------------------------------------------------------
(* FetchTwts and FixMissingTwts                                            *)

InCache(t) == \E f \in Feed : t \in cache[f]

workRest == <<world, mutes, restarts>>

Old(S) == {t \in S : DateOf[t] < cutoff}

\* The newest MaxItems; those beyond are in no list (retwt.go).
Kept(S) ==
  IF MaxItems = 0 \/ Cardinality(S) <= MaxItems THEN {S}
  ELSE {K \in SUBSET S : /\ Cardinality(K) = MaxItems
                         /\ \A k \in K, d \in S \ K : DateOf[d] <= DateOf[k]}

\* The body has come and ParseFile has parted it.
Parsed(x, f) ==
  LET fresh == feed[f] \ Old(feed[f]) IN
  /\ work[x].at = "idle"
  /\ \E K \in Kept(fresh) :
       /\ work' = [work EXCEPT ![x] = [at |-> "each", feed |-> f, read |-> feed[f], keep |-> K,
                                      todo |-> Old(feed[f]), twt |-> NoTwt]]
       /\ spoilt' = spoilt \cup (fresh \ K)
  /\ UNCHANGED <<cache, file, visitor, workRest>>

\* The job reads a feed's file.
JobReads(f) ==
  /\ visit = "twt" /\ f \in Local /\ work[Job].at = "idle" /\ feed[f] # {}
  /\ work' = [work EXCEPT ![Job] = [AtRest EXCEPT !.at = "each", !.todo = feed[f]]]
  /\ UNCHANGED <<cache, file, visitor, spoilt, workRest>>

Skip(x, t) == work' = [work EXCEPT ![x].at = "each", ![x].todo = @ \ {t}, ![x].twt = NoTwt]

\* The job leaves out what the cache has.
JobLookup(t) ==
  /\ work[Job].at = "each" /\ t \in work[Job].todo
  /\ IF InCache(t) THEN Skip(Job, t)
     ELSE work' = [work EXCEPT ![Job].at = "has", ![Job].twt = t]
  /\ UNCHANGED <<cache, file, visitor, spoilt, workRest>>

\* A file that is there is left as it is, whatever is in it.
Has(x, t) ==
  /\ \/ work[x].at = "has" /\ work[x].twt = t
     \/ x # Job /\ work[x].at = "each" /\ t \in work[x].todo
  /\ IF file[t] # "none" THEN Skip(x, t)
     ELSE work' = [work EXCEPT ![x].at = "open", ![x].twt = t]
  /\ UNCHANGED <<cache, file, visitor, spoilt, workRest>>

\* WriteFile truncates; the other archiver may have written the file by now.
OpenArchived(x) ==
  LET t == work[x].twt IN
  /\ work[x].at = "open"
  /\ work' = [work EXCEPT ![x].at = "write"]
  /\ file' = [file EXCEPT ![t] = "part"]
  /\ visitor' = [visitor EXCEPT !.excuse = @ \/ (visitor.twt = t /\ file[t] # "none")]
  /\ UNCHANGED <<cache, spoilt, workRest>>

\* An error is logged, and the fetch goes on.
WriteArchived(x) ==
  LET t == work[x].twt IN
  /\ work[x].at = "write"
  /\ \/ file' = [file EXCEPT ![t] = "whole"] /\ UNCHANGED spoilt
     \/ spoilt' = spoilt \cup {t} /\ UNCHANGED file
  /\ Skip(x, t)
  /\ UNCHANGED <<cache, visitor, workRest>>

\* What the new entry means to the visitor.
Watched(x) ==
  LET old == cache[work[x].feed]
      gone == old \ work[x].keep
      t == visitor.twt
  IN  [visitor EXCEPT
        !.came = @ \/ (visitor.at = "paging" /\ ~(work[x].keep \subseteq old)),
        !.went = @ \/ (visitor.at = "paging" /\ gone # {}),
        !.excuse = @ \/ /\ t \in gone
                         /\ \/ t \notin work[x].read \/ t \in spoilt
                            \/ \E y \in Archiver : work[y].at = "write" /\ work[y].twt = t]

\* Mutant: the entry is stored before the old twts are archived.
StoreAtOnce(x) ==
  /\ x # Job /\ work[x].at = "each"
  /\ cache' = [cache EXCEPT ![work[x].feed] = work[x].keep]
  /\ visitor' = Watched(x)
  /\ work' = IF work[x].todo = {} THEN [work EXCEPT ![x] = AtRest] ELSE work
  /\ UNCHANGED <<file, spoilt, workRest>>

StoreEntry(x) ==
  /\ x # Job /\ work[x].at = "each" /\ work[x].todo = {}
  /\ cache' = [cache EXCEPT ![work[x].feed] = work[x].keep]
  /\ visitor' = Watched(x)
  /\ work' = [work EXCEPT ![x] = AtRest]
  /\ UNCHANGED <<file, spoilt, workRest>>

JobEnds ==
  /\ work[Job].at = "each" /\ work[Job].todo = {}
  /\ work' = [work EXCEPT ![Job] = AtRest]
  /\ UNCHANGED <<cache, file, visitor, spoilt, workRest>>

Archiving ==
  \/ \E x \in Archiver : \/ OpenArchived(x) \/ WriteArchived(x) \/ StoreEntry(x)
                        \/ \E t \in Twt : Has(x, t)
  \/ \E x \in Fetcher, f \in Feed : Parsed(x, f)
  \/ \E f \in Feed : JobReads(f)
  \/ \E t \in Twt : JobLookup(t)
  \/ JobEnds

-----------------------------------------------------------------------------
(* MuteHandler, UnmuteHandler                                              *)

\* LoadUser: what FilterTwts leaves out.
Hidden(record) == {record[n] : n \in Nick} \ {NoFeed}

FilterTwts(S) == {t \in S : FeedOf[t] \notin Hidden(muted)}

muteRest == <<world, cache, file, work, visitor, restarts, spoilt>>

\* The request's user, loaded by NewContext.
LoadUser(m) ==
  /\ visit = "timeline" /\ muting[m].at = "idle"
  /\ muting' = [muting EXCEPT ![m] = [at |-> "loaded", copy |-> muted]]
  /\ UNCHANGED <<muted, wish, dropped, muteRest>>

\* SetUser saves all of the record; marks saved since it was loaded are lost.
SetUser(m, record) ==
  /\ muting' = [muting EXCEPT ![m] = [Asleep EXCEPT !.at = "saved"]]
  /\ muted' = record

LostMarks(m) ==
  LET then == Hidden(muting[m].copy)
      now == Hidden(muted)
  IN  (then \ now) \cup (now \ then)

\* Mutant: a feed is muted again under another nick.
MuteAgain(m, n, f) ==
  /\ muting[m].at = "loaded"
  /\ SetUser(m, [muting[m].copy EXCEPT ![n] = f])
  /\ wish' = wish \cup {f} /\ UNCHANGED dropped
  /\ UNCHANGED muteRest

\* A nick used again forgets its former feed.
Mute(m, n, f) ==
  LET c == muting[m].copy IN
  /\ muting[m].at = "loaded"
  /\ SetUser(m, IF f \in Hidden(c) THEN c ELSE [c EXCEPT ![n] = f])
  /\ wish' = wish \cup {f}
  /\ dropped' = (dropped \cup LostMarks(m)
                 \cup (IF f \in Hidden(c) THEN {} ELSE {c[n]} \ {NoFeed})) \ {f}
  /\ UNCHANGED muteRest

Unmute(m, n) ==
  LET c == muting[m].copy IN
  /\ muting[m].at = "loaded"
  /\ SetUser(m, [c EXCEPT ![n] = NoFeed])
  /\ wish' = wish \ {c[n]}
  /\ dropped' = (dropped \cup LostMarks(m)) \ {c[n]}
  /\ UNCHANGED muteRest

-----------------------------------------------------------------------------
(* TimelineHandler: one page                                               *)

\* Mutant: twts are left in the order of the map.
OrdersOfMap(S) ==
  {q \in [1 .. Cardinality(S) -> S] : \A i, j \in DOMAIN q : i # j => q[i] # q[j]}

\* Feeds come in the order of a map, sort.Sort is not stable: twts of one
\* date come in any order, at each request anew.
NewestFirst(S) ==
  {q \in [1 .. Cardinality(S) -> S] :
     /\ \A i, j \in DOMAIN q : i # j => q[i] # q[j]
     /\ \A i, j \in DOMAIN q : i < j => DateOf[q[i]] >= DateOf[q[j]]}

Pages(S) == (Cardinality(S) + PageSize - 1) \div PageSize

\* Pages are cut before twts of muted feeds are left out.  A page past the
\* last one is the last one; the link to the next is on all others.
ReadPage(list, twts) ==
  LET pages == Pages(twts)
      page == IF visitor.page < pages THEN visitor.page + 1 ELSE pages
  IN
  /\ visit = "timeline" /\ twts # {}
  /\ visitor.at = "idle" \/ (visitor.at = "paging" /\ visitor.list = list)
  /\ \E q \in NewestFirst(twts) :
       LET shown == {q[i] : i \in {j \in DOMAIN q : /\ (page - 1) * PageSize < j
                                                     /\ j <= page * PageSize}}
       IN  visitor' = [visitor EXCEPT
             !.at = IF page < pages THEN "paging" ELSE "paged",
             !.list = list, !.page = page,
             !.count = [t \in Twt |-> IF t \in FilterTwts(shown) /\ @[t] < 2 THEN @[t] + 1 ELSE @[t]],
             !.stay = {t \in @ \cap twts : FeedOf[t] \notin wish \cup dropped},
             !.wished = @ \cap (wish \ dropped)]
  /\ UNCHANGED <<world, cache, file, work, mutes, restarts, spoilt>>

GetAll == UNION {cache[f] : f \in Feed}

TimelinePage == ReadPage("timeline", GetAll)

ProfilePage(f) == f \in Local /\ ReadPage(f, cache[f])

\* Of a feed elsewhere, which is fetched first when it has no entry.
ExternalPage(f) == f \in Feed \ Local /\ ReadPage(f, cache[f])

SearchPage == ReadPage("search", GetAll \cap Tagged)

MentionsPage == ReadPage("mentions", GetAll \cap Mentioning)

-----------------------------------------------------------------------------
(* PermalinkHandler, ConversationHandler: one twt                          *)

visitRest == <<world, cache, file, work, mutes, restarts, spoilt>>

Findable(t) == InCache(t) \/ file[t] = "whole"

\* With the link of a twt that can be found.
Arrive(t) ==
  /\ visit = "twt" /\ visitor.at = "idle" /\ Findable(t)
  /\ visitor' = [Away EXCEPT !.at = "lookup", !.twt = t]
  /\ UNCHANGED visitRest

Lookup ==
  /\ visitor.at = "lookup"
  /\ visitor' = IF InCache(visitor.twt) THEN Away ELSE [visitor EXCEPT !.at = "has"]
  /\ UNCHANGED visitRest

AskArchive ==
  /\ visitor.at = "has"
  /\ visitor' = [visitor EXCEPT !.at = IF file[visitor.twt] = "none" THEN "missing" ELSE "get"]
  /\ UNCHANGED visitRest

\* A file that is not whole cannot be decoded.
GetArchived ==
  /\ visitor.at = "get"
  /\ visitor' = IF file[visitor.twt] = "whole" THEN Away ELSE [visitor EXCEPT !.at = "error"]
  /\ UNCHANGED visitRest

\* A visit ends when its pages have been compared, or the twt shown.
Leave ==
  /\ visitor.at \in {"paged", "missing", "error"}
  /\ visitor' = Away
  /\ UNCHANGED visitRest

Visit == \/ TimelinePage \/ SearchPage \/ MentionsPage
         \/ \E f \in Feed : ProfilePage(f) \/ ExternalPage(f)
         \/ Lookup \/ AskArchive \/ GetArchived \/ Leave
         \/ \E t \in Twt : Arrive(t)

\* The pod ends and starts, with its cache file or without.  Who reads pages
\* begins anew; that a request to mute is cut off is like that it never came.
Restart ==
  /\ visit = "twt" /\ restarts < MaxRestarts /\ restarts' = restarts + 1
  /\ cache' \in {cache, [f \in Feed |-> {}]}
  /\ work' = [x \in Archiver |-> AtRest]
  /\ spoilt' = spoilt \cup {work[x].twt : x \in {y \in Archiver : work[y].at = "write"}}
  /\ visitor' = Away
  /\ UNCHANGED <<world, file, mutes>>

Next ==
  \/ \E t \in Twt : Publish(t) \/ TakeBack(t)
  \/ Age \/ Archiving \/ Visit \/ Restart
  \/ \E m \in Muting : \/ LoadUser(m)
                       \/ \E n \in Nick : Unmute(m, n) \/ \E f \in Feed : Mute(m, n, f)

Spec == Init /\ [][Next]_vars

-----------------------------------------------------------------------------
(* Properties                                                              *)

\* Types; a feed is muted under one nick.
TypeOK ==
  /\ visit \in {"timeline", "twt"}
  /\ feed \in [Feed -> SUBSET Twt] /\ cache \in [Feed -> SUBSET Twt]
  /\ removed \cup spoilt \subseteq Twt /\ cutoff \in 0 .. MaxAge
  /\ file \in [Twt -> {"none", "part", "whole"}]
  /\ work \in [Archiver -> [at : {"idle", "each", "has", "open", "write"},
                            feed : Feed \cup {NoFeed}, read : SUBSET Twt, keep : SUBSET Twt,
                            todo : SUBSET Twt, twt : Twt \cup {NoTwt}]]
  /\ muted \in [Nick -> Feed \cup {NoFeed}]
  /\ muting \in [Muting -> [at : {"idle", "loaded", "saved"},
                            copy : [Nick -> Feed \cup {NoFeed}]]]
  /\ visitor \in [at : {"idle", "paging", "paged", "lookup", "has", "get", "missing",
                        "error"},
                  list : Feed \cup {"none", "timeline", "search", "mentions"},
                  page : Nat, count : [Twt -> 0 .. 2], stay : SUBSET Twt, wished : SUBSET Feed,
                  came : BOOLEAN, went : BOOLEAN, twt : Twt \cup {NoTwt},
                  excuse : BOOLEAN]
  /\ restarts \in 0 .. MaxRestarts /\ wish \cup dropped \subseteq Feed
  /\ \A m, n \in Nick : muted[m] = muted[n] => m = n \/ muted[m] = NoFeed

Tied(t) == \E u \in Twt \ {t} : DateOf[u] = DateOf[t]

\* Who has read all pages has been shown every twt that was on the list all
\* the while, once: one is missed only if others left the list or it
\* shares its second with another, and doubled only if others came or left,
\* or so.  Of feeds that the user muted nothing is shown, and of the others
\* everything, unless the nick of the mark was used for another feed, or two
\* requests changed the user at a time (handlers.go:801-858, models.go:387).
PagesTrue ==
  visitor.at = "paged" =>
    /\ \A t \in visitor.stay :
         /\ visitor.count[t] = 0 => visitor.went \/ Tied(t)
         /\ visitor.count[t] > 1 => visitor.came \/ visitor.went \/ Tied(t)
    /\ \A t \in Twt : visitor.count[t] > 0 => FeedOf[t] \notin visitor.wished

\* A twt that could be found when its visitor came is found, although it
\* moves from the cache to the archive meanwhile, unless the entry was
\* overwritten by a fetch that had read a feed without it, its archiving had
\* failed or been cut off or the limit dropped it, or a second archiver was
\* writing the same file anew (handlers.go:882-894, cache.go:294-303).
PermalinkFound ==
  visitor.at \in {"missing", "error"} => visitor.excuse

-----------------------------------------------------------------------------
(* The inductive invariant                                                 *)

Single(record) == \A m, n \in Nick : record[m] = record[n] => m = n \/ record[m] = NoFeed

\* What is hidden is what is wished for, but for the marks that were lost.
MarksSound ==
  /\ \A m \in Muting : Single(muting[m].copy)
  /\ wish \ dropped \subseteq Hidden(muted) /\ Hidden(muted) \subseteq wish \cup dropped

Writing(t) == \E y \in Archiver : work[y].at = "write" /\ work[y].twt = t

\* A file that is there is whole, or being written, or its writing failed.
\* Every twt that a fetch has read is one to keep, or still to be archived,
\* or there is a file, or it is lost in a known way.
ArchiveSound ==
  /\ \A t \in Twt : file[t] = "part" => t \in spoilt \/ Writing(t)
  /\ \A x \in Archiver :
       /\ work[x].at \in {"has", "open", "write"} => work[x].twt \in Twt
       /\ work[x].at = "write" => file[work[x].twt] # "none"
  /\ \A x \in Fetcher : work[x].at # "idle" =>
       /\ work[x].feed \in Feed
       /\ \A t \in work[x].read : t \in work[x].keep \cup work[x].todo \cup spoilt \/ file[t] # "none"

\* The twt that the visitor looks for is where it is looked for next, or later.
VisitSound ==
  /\ visitor.at \in {"lookup", "has", "get"} => visitor.twt \in Twt
  /\ visitor.at = "lookup" => visitor.excuse \/ Findable(visitor.twt)
  /\ visitor.at \in {"has", "get"} => visitor.excuse \/ file[visitor.twt] = "whole"
  /\ PermalinkFound

Listed(list) ==
  CASE list = "timeline" -> GetAll
    [] list = "search" -> GetAll \cap Tagged
    [] list = "mentions" -> GetAll \cap Mentioning
    [] OTHER -> cache[list]

\* Where an untied twt stands, newest first.
Rank(t, S) == Cardinality({u \in S : DateOf[u] > DateOf[t]}) + 1

\* While pages are read, an untied twt that was always on the list and has not
\* been shown stands behind the last page unless twts left, and one that was
\* shown stands before, unless twts came or left.
ReadSound ==
  /\ visitor.at = "idle" =>
       /\ visitor.page = 0 /\ ~visitor.came /\ ~visitor.went
       /\ \A t \in Twt : visitor.count[t] = 0
  /\ visitor.at = "paging" =>
       LET S == Listed(visitor.list)
           cut == visitor.page * PageSize
       IN
       /\ visitor.list # "none"
       /\ visitor.came \/ visitor.went \/ visitor.page < Pages(S)
       /\ \A t \in visitor.stay : ~Tied(t) /\ ~visitor.went =>
            /\ visitor.count[t] = 0 => Rank(t, S) > cut
            /\ visitor.came \/ (visitor.count[t] <= 1 /\ (visitor.count[t] = 1 => Rank(t, S) <= cut))
  /\ \A t \in Twt : visitor.count[t] > 0 => FeedOf[t] \notin visitor.wished

TimelineInv ==
  /\ TypeOK
  /\ MarksSound
  /\ ArchiveSound /\ VisitSound
  /\ ReadSound /\ PagesTrue
=============================================================================
