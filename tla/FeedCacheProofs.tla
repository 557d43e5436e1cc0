-------------------------- MODULE FeedCacheProofs --------------------------
(* The invariant of the feed cache, for any feeds, twts, limit and TTL,    *)
(* any number of seconds and of restarts.                                  *)
EXTENDS FeedCache, TLAPS

(* CoveredBy with what it reads of the state as parameters.                *)
Covers(e, F, st, ar) ==
  \A t \in F : st[t] < e.mod =>
     \/ t \in e.twts \cup ar
     \/ /\ MaxItems > 0
        /\ t \notin e.twts
        /\ Cardinality(e.twts) = MaxItems
        /\ \A k \in e.twts : st[t] <= st[k]

(* A covered entry stays covered while its feed's file only gains lines    *)
(* of this second and the archive keeps what it has of the feed.           *)
LEMMA CoversMonotone ==
  ASSUME NEW e, NEW clk \in Nat, e.mod \in Nat, e.mod <= clk, e.twts \subseteq Twt,
         NEW F \in SUBSET Twt, NEW F2 \in SUBSET Twt,
         NEW st \in [Twt -> Nat], NEW st2 \in [Twt -> Nat], NEW ar, NEW ar2,
         \A t \in F2 : t \in F \/ st2[t] >= clk,
         \A t \in F : st2[t] = st[t],
         \A t \in Twt : st[t] <= st2[t],
         \A t \in F \cap F2 : t \in ar => t \in ar2,
         Covers(e, F, st, ar)
  PROVE  Covers(e, F2, st2, ar2)
  <1> SUFFICES ASSUME NEW t \in F2, st2[t] < e.mod, t \notin e.twts \cup ar2
               PROVE  /\ MaxItems > 0
                      /\ t \notin e.twts
                      /\ Cardinality(e.twts) = MaxItems
                      /\ \A k \in e.twts : st2[t] <= st2[k]
    BY DEF Covers
  <1>1. st2[t] \in Nat /\ st[t] \in Nat
    OBVIOUS
  <1>2. t \in F
    BY <1>1
  <1>3. st[t] < e.mod /\ t \notin e.twts \cup ar
    BY <1>2
  <1>4. /\ MaxItems > 0
        /\ Cardinality(e.twts) = MaxItems
        /\ \A k \in e.twts : st[t] <= st[k]
    BY <1>2, <1>3 DEF Covers
  <1>5. ASSUME NEW k \in e.twts PROVE st2[t] <= st2[k]
    <2>1. st[k] \in Nat /\ st2[k] \in Nat /\ st[k] <= st2[k]
      OBVIOUS
    <2> QED BY <1>1, <1>2, <1>4, <2>1
  <1> QED BY <1>4, <1>5

(* No two feeds share a key of the cache.                                  *)
LEMMA KeysDisjoint ==
  ASSUME NEW f \in Feed, NEW g \in Feed, NEW u, u \in Keys(f), u \in Keys(g)
  PROVE  f = g /\ u \in URL
  BY FeedCacheAssumption DEF Keys

(* Every goroutine fetches one of the feeds.                               *)
LEMMA TargetIsFeed == \A p \in Fetcher : Target(p) \in Feed
  BY FeedCacheAssumption DEF Fetcher, Target, LocalTwt

(* What an idle goroutine remembers is of the right type.                  *)
LEMMA IdleTyped ==
  ASSUME NEW p \in Fetcher, NEW pos \in FetchPos
  PROVE  /\ Idle(p) \in FetchState
         /\ [Idle(p) EXCEPT !.pc = pos] \in FetchState
         /\ [Idle(p) EXCEPT !.pc = pos].pc = pos
         /\ [Idle(p) EXCEPT !.pc = pos].url = Target(p)
         /\ [Idle(p) EXCEPT !.pc = pos].mod = 0
  BY TargetIsFeed, FeedCacheAssumption DEF Idle, FetchState, FetchPos

-----------------------------------------------------------------------------
(* The beginning: nothing is cached and no request is under way.           *)
LEMMA CacheInvInit == Init => CacheInv
  <1> SUFFICES ASSUME Init PROVE CacheInv
    OBVIOUS
  <1> USE FeedCacheAssumption
  <1>1. TypeOK
    <2>1. fetch \in [Fetcher -> FetchState]
      BY IdleTyped DEF Init, FetchPos
    <2>2. cache \in [URL -> Entry \cup {NoEntry}]
      BY DEF Init, Nothing
    <2>3. saved \in [cache : [URL -> Entry \cup {NoEntry}], view : SUBSET Twt]
      BY DEF Init, NoFile, Nothing
    <2>4. /\ file \in [Feed -> [twts : SUBSET Twt, mod : 0 .. MaxClock, live : BOOLEAN]]
          /\ stamp \in [Twt -> 0 .. MaxClock]
      BY DEF Init
    <2> QED BY <2>1, <2>2, <2>3, <2>4 DEF Init, TypeOK
  <1>2. FilesDated
    BY DEF Init, FilesDated
  <1>3. AnswersCovered
    BY TargetIsFeed DEF Init, AnswersCovered, Idle, Keys
  <1>4. EntriesCovered(cache) /\ EntriesCovered(saved.cache)
    BY DEF Init, EntriesCovered, Nothing, NoFile
  <1> QED BY <1>1, <1>2, <1>3, <1>4 DEF CacheInv

-----------------------------------------------------------------------------
(* Types.                                                                  *)

(* Moving a goroutine on keeps it well typed.                              *)
LEMMA GotoTyped ==
  ASSUME fetch \in [Fetcher -> FetchState], NEW p \in Fetcher, NEW pos \in FetchPos, Goto(p, pos)
  PROVE  fetch' \in [Fetcher -> FetchState]
  BY IdleTyped DEF Goto

(* The steps of a fetch.                                                   *)
LEMMA FetchTypes ==
  ASSUME CacheInv, NEW p \in Fetcher, Fetch(p)
  PROVE  TypeOK'
  <1> USE FeedCacheAssumption, TargetIsFeed
  <1>0. /\ fetch \in [Fetcher -> FetchState] /\ fetch[p] \in FetchState
        /\ file[Target(p)] \in [twts : SUBSET Twt, mod : 0 .. MaxClock, live : BOOLEAN]
        /\ cache \in [URL -> Entry \cup {NoEntry}]
        /\ fetch[p].url \in URL /\ fetch[p].mod \in 0 .. MaxClock /\ fetch[p].twts \in SUBSET Twt
        /\ Target(p) \in URL
    BY DEF CacheInv, TypeOK, FetchState
  <1>1. CASE Ask(p)
    <2>1. cache[Target(p)] # NoEntry => cache[Target(p)].mod \in 0 .. MaxClock
      BY <1>0 DEF Entry
    <2>2. 0 \in 0 .. MaxClock
      OBVIOUS
    <2>3. fetch' \in [Fetcher -> FetchState]
      BY <1>0, <1>1, <2>1, <2>2 DEF Ask, FetchState, FetchPos
    <2> QED BY <1>1, <2>3 DEF Ask, CacheInv, TypeOK, fetchRest
  <1>2. CASE AnswerDate(p)
    <2>1. Target(p) \in moved => NewURL[Target(p)] \in URL
      BY DEF CacheInv, TypeOK
    <2>2. fetch' \in [Fetcher -> FetchState]
      <3>1. CASE ~file[Target(p)].live
        BY <1>0, <1>2, <3>1, GotoTyped DEF AnswerDate, FetchPos
      <3>2. CASE file[Target(p)].live
        <4>1. PICK r \in FetchState : fetch' = [fetch EXCEPT ![p] = r]
          <5> DEFINE unchanged == fetch[p].since > 0 /\ file[Target(p)].mod <= fetch[p].since
                     r == [fetch[p] EXCEPT !.pc = IF unchanged THEN "unchanged" ELSE "dated",
                                           !.since = 0,
                                           !.mod = IF unchanged THEN 0 ELSE file[Target(p)].mod,
                                           !.url = IF Target(p) \in moved THEN NewURL[Target(p)]
                                                   ELSE Target(p)]
          <5>1. fetch' = [fetch EXCEPT ![p] = r]
            BY <1>0, <1>2, <3>2 DEF AnswerDate
          <5>2. 0 \in 0 .. MaxClock /\ file[Target(p)].mod \in 0 .. MaxClock
            BY <1>0
          <5>3. r \in FetchState
            BY <1>0, <2>1, <5>2 DEF FetchState, FetchPos
          <5> QED BY <5>1, <5>3
        <4> QED BY <1>0, <4>1
      <3> QED BY <3>1, <3>2
    <2> QED BY <1>2, <2>2 DEF AnswerDate, CacheInv, TypeOK, fetchRest
  <1>3. CASE AnswerBody(p)
    <2>1. fetch' \in [Fetcher -> FetchState]
      <3>1. CASE ~file[Target(p)].live
        BY <1>0, <1>3, <3>1, GotoTyped DEF AnswerBody, FetchPos
      <3>2. CASE file[Target(p)].live
        BY <1>0, <1>3, <3>2 DEF AnswerBody, FetchState, FetchPos
      <3> QED BY <3>1, <3>2
    <2> QED BY <1>3, <2>1 DEF AnswerBody, CacheInv, TypeOK, fetchRest
  <1>4. CASE FetchFails(p)
    <2>1. fetch' \in [Fetcher -> FetchState]
      BY <1>0, <1>4, GotoTyped DEF FetchFails, FetchPos
    <2> QED BY <1>4, <2>1 DEF FetchFails, CacheInv, TypeOK, fetchRest
  <1>5. CASE Parse(p)
    <2>1. PICK keep \in Kept(fetch[p].twts \ Old(fetch[p].twts)) :
            fetch' = [fetch EXCEPT ![p].pc = "archived", ![p].twts = keep]
      BY <1>5 DEF Parse
    <2>2. keep \in SUBSET Twt
      BY <1>0, <2>1 DEF Kept
    <2>3. fetch' \in [Fetcher -> FetchState]
      BY <1>0, <2>1, <2>2 DEF FetchState, FetchPos
    <2>4. archive' \in SUBSET Twt
      BY <1>0, <1>5 DEF Parse, Old, CacheInv, TypeOK
    <2> QED BY <1>5, <2>3, <2>4 DEF Parse, CacheInv, TypeOK, fetchRest
  <1>6. CASE StoreEntry(p)
    <2>1. WithinLimit(fetch[p].twts)
      BY <1>6 DEF StoreEntry, CacheInv, AnswersCovered
    <2>2. [twts |-> fetch[p].twts, mod |-> fetch[p].mod] \in Entry
      BY <1>0, <2>1 DEF Entry
    <2>3. cache' \in [URL -> Entry \cup {NoEntry}]
      BY <1>0, <1>6, <2>2 DEF StoreEntry
    <2>4. fetch' \in [Fetcher -> FetchState]
      BY <1>0, <1>6, GotoTyped DEF StoreEntry, FetchPos
    <2> QED BY <1>6, <2>3, <2>4 DEF StoreEntry, CacheInv, TypeOK, fetchRest
  <1>7. CASE NotModified(p)
    <2>1. fetch' \in [Fetcher -> FetchState]
      BY <1>0, <1>7, GotoTyped DEF NotModified, FetchPos
    <2>2. crashed' \in {"up", "no entry", "map race"}
      BY <1>7 DEF NotModified, CacheInv, TypeOK
    <2> QED BY <1>7, <2>1, <2>2 DEF NotModified, CacheInv, TypeOK, fetchRest
  <1> QED BY <1>1, <1>2, <1>3, <1>4, <1>5, <1>6, <1>7 DEF Fetch

(* What GetByPrefix gathers are twts.                                      *)
LEMMA LocalTwtsTyped == TypeOK => LocalTwts \in SUBSET Twt
  <1> SUFFICES ASSUME TypeOK, NEW u \in Local PROVE Cached(cache, u) \in SUBSET Twt
    BY DEF LocalTwts
  <1>1. u \in URL
    BY FeedCacheAssumption
  <1>2. cache[u] \in Entry \cup {NoEntry}
    BY <1>1 DEF TypeOK
  <1> QED BY <1>2 DEF Cached, Entry

(* A line that is written bears the second of the clock.                   *)
LEMMA WriteTypes ==
  ASSUME TypeOK, NEW t \in Twt, Write(t)
  PROVE  /\ stamp' \in [Twt -> 0 .. MaxClock]
         /\ file' \in [Feed -> [twts : SUBSET Twt, mod : 0 .. MaxClock, live : BOOLEAN]]
  <1>1. FeedOf[t] \in Feed /\ clock \in 0 .. MaxClock
    <2>1. FeedOf[t] \in Feed
      BY FeedCacheAssumption
    <2>2. clock \in 2 .. MaxClock /\ MaxClock \in Nat
      BY FeedCacheAssumption DEF TypeOK
    <2> QED BY <2>1, <2>2
  <1>2. stamp' \in [Twt -> 0 .. MaxClock]
    BY <1>1 DEF Write, TypeOK
  <1>3. file[FeedOf[t]] \in [twts : SUBSET Twt, mod : 0 .. MaxClock, live : BOOLEAN]
    BY <1>1 DEF TypeOK
  <1>4. file' = [file EXCEPT ![FeedOf[t]].twts = @ \cup {t}, ![FeedOf[t]].mod = clock]
    BY DEF Write
  <1>5. file' \in [Feed -> [twts : SUBSET Twt, mod : 0 .. MaxClock, live : BOOLEAN]]
    <2>1. file \in [Feed -> [twts : SUBSET Twt, mod : 0 .. MaxClock, live : BOOLEAN]]
      BY DEF TypeOK
    <2> QED BY <1>1, <1>3, <1>4, <2>1
  <1> QED BY <1>2, <1>5

(* The steps of posts, job and repair.                                     *)
LEMMA PostTypes ==
  ASSUME CacheInv, NEW t \in LocalTwt, PostNext(t) \/ FixMissing(t)
  PROVE  TypeOK'
  <1>0. TypeOK /\ fetch \in [Fetcher -> FetchState] /\ t \in Fetcher /\ t \in Twt
    BY DEF CacheInv, TypeOK, Fetcher, LocalTwt
  <1>1. CASE Post(t)
    <2>1. fetch' \in [Fetcher -> FetchState]
      BY <1>0, <1>1, GotoTyped DEF Post, FetchPos
    <2> QED BY <1>0, <1>1, <2>1, WriteTypes DEF Post, TypeOK
  <1>2. CASE PostGather(t)
    <2>1. fetch' \in [Fetcher -> FetchState]
      BY <1>0, <1>2, LocalTwtsTyped DEF PostGather, FetchState, FetchPos
    <2> QED BY <1>2, <1>0, <2>1 DEF PostGather, TypeOK, fetchRest
  <1>3. CASE PostRefresh(t)
    <2>1. fetch' \in [Fetcher -> FetchState]
      BY <1>0, <1>3, GotoTyped DEF PostRefresh, FetchPos
    <2>2. view' \in SUBSET Twt
      BY <1>0, <1>3 DEF PostRefresh, FetchState
    <2> QED BY <1>3, <1>0, <2>1, <2>2 DEF PostRefresh, TypeOK, fetchRest
  <1>4. CASE FixMissing(t)
    BY <1>4, <1>0 DEF FixMissing, TypeOK, fetchRest
  <1> QED BY <1>1, <1>2, <1>3, <1>4 DEF PostNext

(* The steps of the UpdateFeeds job.                                        *)
LEMMA JobTypes ==
  ASSUME CacheInv, JobNext \/ EncodeRace
  PROVE  TypeOK'
  <1>0. TypeOK
    BY DEF CacheInv
  <1>1. CASE JobStart
    <2>1. fetch' \in [Fetcher -> FetchState]
      BY <1>0, <1>1, IdleTyped DEF JobStart, TypeOK, FetchPos
    <2> QED BY <1>0, <1>1, <2>1 DEF JobStart, TypeOK, jobRest
  <1>2. CASE JobGather
    <2>1. fetch' \in [Fetcher -> FetchState]
      BY <1>0, <1>2, IdleTyped DEF JobGather, TypeOK, FetchPos
    <2> QED BY <1>0, <1>2, <2>1, LocalTwtsTyped DEF JobGather, TypeOK, jobRest
  <1>3. CASE JobRefresh
    BY <1>0, <1>3 DEF JobRefresh, TypeOK, jobRest
  <1>4. CASE JobSave
    BY <1>0, <1>4 DEF JobSave, TypeOK, jobRest
  <1>5. CASE EncodeRace
    BY <1>0, <1>5 DEF EncodeRace, TypeOK
  <1> QED BY <1>1, <1>2, <1>3, <1>4, <1>5 DEF JobNext

(* A deletion only takes twts, files and entries away.                     *)
LEMMA DeleteTypes ==
  ASSUME CacheInv, NEW f \in Deletable, Delete(f)
  PROVE  TypeOK'
  <1>0. TypeOK /\ f \in Feed /\ f \in URL
    BY FeedCacheAssumption DEF CacheInv
  <1>1. CASE DeleteArchived(f)
    BY <1>0, <1>1 DEF DeleteArchived, TypeOK, deletionRest
  <1>2. CASE DeleteFile(f)
    <2>1. file' \in [Feed -> [twts : SUBSET Twt, mod : 0 .. MaxClock, live : BOOLEAN]]
      <3>1. file \in [Feed -> [twts : SUBSET Twt, mod : 0 .. MaxClock, live : BOOLEAN]]
        BY <1>0 DEF TypeOK
      <3>2. file' = [file EXCEPT ![f].twts = {}, ![f].live = FALSE]
        BY <1>2 DEF DeleteFile
      <3> QED BY <1>0, <3>1, <3>2
    <2> QED BY <1>0, <1>2, <2>1 DEF DeleteFile, TypeOK, deletionRest
  <1>3. CASE DeleteEntry(f)
    <2>1. cache' \in [URL -> Entry \cup {NoEntry}]
      BY <1>0, <1>3 DEF DeleteEntry, TypeOK
    <2>2. \A u \in Local : Cached(cache, u) \in SUBSET Twt
      BY <1>0, FeedCacheAssumption DEF Cached, Entry, TypeOK
    <2>3. view' \in SUBSET Twt
      BY <1>3, <2>2 DEF DeleteEntry
    <2> QED BY <1>0, <1>3, <2>1, <2>3 DEF DeleteEntry, TypeOK, deletionRest
  <1> QED BY <1>1, <1>2, <1>3 DEF Delete

(* Steps outside of the pod, and its restart.                              *)
LEMMA OutsideTypes ==
  ASSUME CacheInv,
         \/ Tick
         \/ \E t \in Twt \ LocalTwt : WriteElsewhere(t)
         \/ \E f \in DOMAIN NewURL : Move(f)
         \/ Restart
  PROVE  TypeOK'
  <1>0. TypeOK
    BY DEF CacheInv
  <1>1. CASE Tick
    <2>0. clock \in 2 .. MaxClock /\ MaxClock \in Nat
      BY <1>0, FeedCacheAssumption DEF TypeOK
    <2>1. clock' \in 2 .. MaxClock
      BY <2>0, <1>1 DEF Tick
    <2> QED BY <1>0, <1>1, <2>1 DEF Tick, TypeOK
  <1>2. ASSUME NEW t \in Twt \ LocalTwt, WriteElsewhere(t)
        PROVE  TypeOK'
    BY <1>0, <1>2, WriteTypes DEF WriteElsewhere, TypeOK
  <1>3. ASSUME NEW f \in DOMAIN NewURL, Move(f)
        PROVE  TypeOK'
    BY <1>0, <1>3 DEF Move, TypeOK
  <1>4. CASE Restart
    <2>1. PICK found \in {saved} \cup (IF job = "warmed" THEN {NoFile} ELSE {}) :
            saved' = found /\ cache' = found.cache /\ view' = found.view
      BY <1>4 DEF Restart
    <2>2. found \in [cache : [URL -> Entry \cup {NoEntry}], view : SUBSET Twt]
      <3>1. NoFile \in [cache : [URL -> Entry \cup {NoEntry}], view : SUBSET Twt]
        BY DEF NoFile, Nothing
      <3>2. saved \in [cache : [URL -> Entry \cup {NoEntry}], view : SUBSET Twt]
        BY <1>0 DEF TypeOK
      <3> QED BY <2>1, <3>1, <3>2
    <2>3. fetch' \in [Fetcher -> FetchState]
      BY <1>4, IdleTyped DEF Restart, FetchPos
    <2>4. deletion' \in [Deletable -> {"none", "file", "cache", "done", "cut"}]
      BY <1>0, <1>4 DEF Restart, TypeOK
    <2>5. restarts' \in 0 .. MaxRestarts
      <3>1. restarts \in 0 .. MaxRestarts /\ MaxRestarts \in Nat
        BY <1>0, FeedCacheAssumption DEF TypeOK
      <3> QED BY <3>1, <1>4 DEF Restart
    <2> QED BY <1>0, <1>4, <2>1, <2>2, <2>3, <2>4, <2>5 DEF Restart, TypeOK
  <1> QED BY <1>1, <1>2, <1>3, <1>4

(* Every step keeps the types, and entries within the limit.               *)
LEMMA TypeStep == CacheInv /\ [Next]_vars => TypeOK'
  <1> SUFFICES ASSUME CacheInv, [Next]_vars PROVE TypeOK'
    OBVIOUS
  <1>1. CASE PodNext
    BY <1>1, FetchTypes, PostTypes, JobTypes, DeleteTypes DEF PodNext
  <1>2. CASE UNCHANGED vars
    BY <1>2 DEF vars, CacheInv, TypeOK
  <1> QED BY <1>1, <1>2, OutsideTypes DEF Next

-----------------------------------------------------------------------------
(* What a step does to the clock, the files and the archive.               *)

(* Of a feed that is not deleted: files gain lines of this second, and the *)
(* archive loses none of its twts.                                         *)
LEMMA WorldStep ==
  ASSUME CacheInv, [Next]_vars
  PROVE  /\ clock \in Nat /\ clock' \in Nat /\ clock <= clock'
         /\ \A t \in Twt : stamp[t] <= stamp'[t]
         /\ \A f \in Feed : \A t \in file[f].twts : stamp'[t] = stamp[t]
         /\ \A f \in Feed : \A t \in file'[f].twts : t \in file[f].twts \/ stamp'[t] >= clock
         /\ \A f \in Feed \ Deletable : \A t \in file[f].twts : t \in archive => t \in archive'
  <1> DEFINE Goal == /\ clock \in Nat /\ clock' \in Nat /\ clock <= clock'
                     /\ \A t \in Twt : stamp[t] <= stamp'[t]
                     /\ \A f \in Feed : \A t \in file[f].twts : stamp'[t] = stamp[t]
                     /\ \A f \in Feed : \A t \in file'[f].twts :
                           t \in file[f].twts \/ stamp'[t] >= clock
                     /\ \A f \in Feed \ Deletable : \A t \in file[f].twts :
                           t \in archive => t \in archive'
  <1>0. /\ clock \in Nat /\ \A t \in Twt : stamp[t] \in Nat
        /\ \A f \in Feed : file[f].twts \subseteq Twt
        /\ stamp \in [Twt -> Nat]
    <2>1. clock \in 2 .. MaxClock /\ stamp \in [Twt -> 0 .. MaxClock] /\ MaxClock \in Nat
      BY FeedCacheAssumption DEF CacheInv, TypeOK
    <2>2. \A f \in Feed : file[f].twts \subseteq Twt
      BY DEF CacheInv, TypeOK
    <2> QED BY <2>1, <2>2
  <1>1. ASSUME UNCHANGED <<clock, stamp, file>>, archive \subseteq archive'
        PROVE  Goal
    BY <1>0, <1>1
  <1>2. ASSUME NEW t \in Twt, Write(t), UNCHANGED <<clock, archive>>
        PROVE  Goal
    <2>1. stamp[t] = 0 /\ stamp' = [stamp EXCEPT ![t] = clock]
      BY <1>2 DEF Write
    <2>2. \A s \in Twt : stamp[s] <= stamp'[s]
      BY <1>0, <2>1
    <2>3. \A f \in Feed : t \notin file[f].twts
      BY <1>0, <2>1 DEF CacheInv, FilesDated
    <2>4. \A f \in Feed : \A s \in file[f].twts : stamp'[s] = stamp[s]
      BY <1>0, <2>1, <2>3
    <2>5. \A f \in Feed : file'[f].twts \subseteq file[f].twts \cup {t}
      BY <1>2 DEF Write, CacheInv, TypeOK
    <2>6. stamp'[t] = clock
      BY <1>0, <2>1
    <2>7. \A f \in Feed : \A s \in file'[f].twts : s \in file[f].twts \/ stamp'[s] >= clock
      BY <1>0, <2>5, <2>6
    <2> QED BY <1>0, <1>2, <2>2, <2>4, <2>7
  <1>3. ASSUME NEW p \in Fetcher, Fetch(p) PROVE Goal
    BY <1>1, <1>3 DEF Fetch, Ask, AnswerDate, AnswerBody, FetchFails, Parse, StoreEntry,
                      NotModified, fetchRest
  <1>4. ASSUME NEW t \in LocalTwt, PostNext(t) PROVE Goal
    <2>1. CASE Post(t)
      BY <1>2, <2>1 DEF Post, LocalTwt
    <2> QED BY <1>1, <1>4, <2>1 DEF PostNext, PostGather, PostRefresh, fetchRest
  <1>5. CASE JobNext \/ EncodeRace
    BY <1>1, <1>5 DEF JobNext, JobStart, JobGather, JobRefresh, JobSave, EncodeRace, jobRest
  <1>6. ASSUME NEW t \in LocalTwt, FixMissing(t) PROVE Goal
    BY <1>1, <1>6 DEF FixMissing, fetchRest
  <1>7. ASSUME NEW g \in Deletable, Delete(g) PROVE Goal
    <2>0. g \in Feed
      BY FeedCacheAssumption
    <2>1. CASE DeleteArchived(g)
      <3>1. \A f \in Feed \ Deletable : \A t \in file[f].twts : t \notin file[g].twts
        BY <2>0 DEF CacheInv, FilesDated
      <3>2. UNCHANGED <<clock, stamp, file>> /\ archive' = archive \ file[g].twts
        BY <2>1 DEF DeleteArchived, deletionRest
      <3> QED BY <1>0, <3>1, <3>2
    <2>2. CASE DeleteFile(g)
      <3>1. UNCHANGED <<clock, stamp, archive>>
        BY <2>2 DEF DeleteFile, deletionRest
      <3>2. \A f \in Feed : file'[f].twts \subseteq file[f].twts
        <4>1. file \in [Feed -> [twts : SUBSET Twt, mod : 0 .. MaxClock, live : BOOLEAN]]
          BY DEF CacheInv, TypeOK
        <4>2. file' = [file EXCEPT ![g].twts = {}, ![g].live = FALSE]
          BY <2>2 DEF DeleteFile
        <4> QED BY <2>0, <4>1, <4>2
      <3> QED BY <1>0, <3>1, <3>2
    <2>3. CASE DeleteEntry(g)
      BY <1>1, <2>3 DEF DeleteEntry, deletionRest
    <2> QED BY <1>7, <2>1, <2>2, <2>3 DEF Delete
  <1>8. CASE Tick
    BY <1>0, <1>8 DEF Tick
  <1>9. ASSUME NEW t \in Twt \ LocalTwt, WriteElsewhere(t) PROVE Goal
    BY <1>2, <1>9 DEF WriteElsewhere
  <1>10. ASSUME NEW f \in DOMAIN NewURL, Move(f) PROVE Goal
    BY <1>1, <1>10 DEF Move
  <1>11. CASE Restart
    BY <1>1, <1>11 DEF Restart
  <1>12. CASE UNCHANGED vars
    BY <1>1, <1>12 DEF vars
  <1> QED
    BY <1>3, <1>4, <1>5, <1>6, <1>7, <1>8, <1>9, <1>10, <1>11, <1>12 DEF Next, PodNext

(* A file's date is never ahead of the clock, and its lines are dated.     *)
LEMMA FilesStep == CacheInv /\ [Next]_vars => FilesDated'
  <1> SUFFICES ASSUME CacheInv, [Next]_vars PROVE FilesDated'
    OBVIOUS
  <1>0. /\ clock \in Nat /\ clock' \in Nat /\ clock <= clock'
        /\ \A f \in Feed : /\ file[f].mod <= clock /\ file[f].mod \in Nat
                           /\ file[f].twts \subseteq Twt
                           /\ \A t \in file[f].twts : FeedOf[t] = f /\ stamp[t] > 0
        /\ \A f \in Feed : \A t \in file[f].twts : stamp'[t] = stamp[t]
        /\ clock >= 2
    <2>1. /\ file \in [Feed -> [twts : SUBSET Twt, mod : 0 .. MaxClock, live : BOOLEAN]]
          /\ clock \in 2 .. MaxClock /\ MaxClock \in Nat
      BY FeedCacheAssumption DEF CacheInv, TypeOK
    <2>2. \A f \in Feed : /\ file[f].mod \in 0 .. MaxClock
                          /\ file[f].twts \subseteq Twt
      BY <2>1
    <2>3. \A f \in Feed : /\ file[f].mod <= clock
                          /\ \A t \in file[f].twts : FeedOf[t] = f /\ stamp[t] > 0
      BY DEF CacheInv, FilesDated
    <2> QED BY <2>1, <2>2, <2>3, WorldStep
  <1>1. ASSUME \A f \in Feed : file'[f].mod = file[f].mod /\ file'[f].twts \subseteq file[f].twts
        PROVE  FilesDated'
    BY <1>0, <1>1 DEF FilesDated
  <1>2. ASSUME NEW t \in Twt, Write(t) PROVE FilesDated'
    <2>0. /\ file \in [Feed -> [twts : SUBSET Twt, mod : 0 .. MaxClock, live : BOOLEAN]]
          /\ stamp \in [Twt -> 0 .. MaxClock]
          /\ FeedOf[t] \in Feed
      BY FeedCacheAssumption DEF CacheInv, TypeOK
    <2>1. /\ file' = [file EXCEPT ![FeedOf[t]].twts = @ \cup {t}, ![FeedOf[t]].mod = clock]
          /\ stamp'[t] = clock
      BY <1>2, <2>0 DEF Write
    <2>2. \A f \in Feed : /\ file'[f].mod \in {file[f].mod, clock}
                          /\ \A s \in file'[f].twts : s \in file[f].twts \/ (s = t /\ f = FeedOf[t])
      <3> SUFFICES ASSUME NEW f \in Feed
                   PROVE  /\ file'[f].mod \in {file[f].mod, clock}
                          /\ \A s \in file'[f].twts : s \in file[f].twts \/ (s = t /\ f = FeedOf[t])
        OBVIOUS
      <3>1. CASE f = FeedOf[t]
        BY <2>0, <2>1, <3>1
      <3>2. CASE f # FeedOf[t]
        BY <2>0, <2>1, <3>2
      <3> QED BY <3>1, <3>2
    <2>3. \A f \in Feed : file'[f].mod <= clock'
      BY <1>0, <2>2
    <2>4. \A f \in Feed : \A s \in file'[f].twts : FeedOf[s] = f /\ stamp'[s] > 0
      <3> SUFFICES ASSUME NEW f \in Feed, NEW s \in file'[f].twts
                   PROVE  FeedOf[s] = f /\ stamp'[s] > 0
        OBVIOUS
      <3>1. CASE s \in file[f].twts
        <4>1. FeedOf[s] = f /\ stamp[s] > 0 /\ stamp'[s] = stamp[s]
          BY <1>0, <3>1
        <4> QED BY <4>1
      <3>2. CASE s = t /\ f = FeedOf[t]
        BY <1>0, <2>1, <3>2
      <3> QED BY <2>2, <3>1, <3>2
    <2> QED BY <2>3, <2>4 DEF FilesDated
  <1>3. CASE PodNext
    <2>1. ASSUME NEW t \in LocalTwt, Post(t) PROVE FilesDated'
      BY <1>2, <2>1 DEF Post, LocalTwt
    <2>2. ASSUME NEW g \in Deletable, DeleteFile(g) PROVE FilesDated'
      <3>1. file \in [Feed -> [twts : SUBSET Twt, mod : 0 .. MaxClock, live : BOOLEAN]]
        BY DEF CacheInv, TypeOK
      <3>2. file' = [file EXCEPT ![g].twts = {}, ![g].live = FALSE] /\ g \in Feed
        BY <2>2, FeedCacheAssumption DEF DeleteFile
      <3>3. \A f \in Feed : file'[f].mod = file[f].mod /\ file'[f].twts \subseteq file[f].twts
        BY <3>1, <3>2
      <3> QED BY <1>1, <3>3
    <2>3. ASSUME file' = file PROVE FilesDated'
      BY <1>1, <2>3
    <2>4. ASSUME NEW p \in Fetcher, Fetch(p) PROVE file' = file
      BY <2>4 DEF Fetch, Ask, AnswerDate, AnswerBody, FetchFails, Parse, StoreEntry,
                  NotModified, fetchRest
    <2>5. ASSUME NEW t \in LocalTwt, PostNext(t), ~Post(t) PROVE file' = file
      BY <2>5 DEF PostNext, PostGather, PostRefresh, fetchRest
    <2>6. ASSUME JobNext \/ EncodeRace PROVE file' = file
      BY <2>6 DEF JobNext, JobStart, JobGather, JobRefresh, JobSave, EncodeRace, jobRest
    <2>7. ASSUME NEW t \in LocalTwt, FixMissing(t) PROVE file' = file
      BY <2>7 DEF FixMissing, fetchRest
    <2>8. ASSUME NEW g \in Deletable, Delete(g), ~DeleteFile(g) PROVE file' = file
      BY <2>8 DEF Delete, DeleteArchived, DeleteEntry, deletionRest
    <2> QED BY <1>3, <2>1, <2>2, <2>3, <2>4, <2>5, <2>6, <2>7, <2>8 DEF PodNext
  <1>4. ASSUME NEW t \in Twt \ LocalTwt, WriteElsewhere(t) PROVE FilesDated'
    BY <1>2, <1>4 DEF WriteElsewhere
  <1>5. ASSUME Tick \/ (\E f \in DOMAIN NewURL : Move(f)) \/ Restart \/ UNCHANGED vars
        PROVE  FilesDated'
    BY <1>1, <1>5 DEF Tick, Move, Restart, vars
  <1> QED BY <1>3, <1>4, <1>5 DEF Next

-----------------------------------------------------------------------------
(* Entries and answers under a change of the world.                        *)

EntriesCover(c, clk, F, st, ar) ==
  \A u \in URL : c[u] # NoEntry =>
     /\ c[u].mod <= clk
     /\ \A f \in Feed \ Deletable : u \in Keys(f) => Covers(c[u], F[f].twts, st, ar)

AnswerCovers(r, f, clk, F, st, ar) ==
  /\ r.url \in Keys(f)
  /\ r.mod <= clk
  /\ r.pc = "archived" => WithinLimit(r.twts)
  /\ f \notin Deletable =>
       /\ r.pc = "parsing" => \A t \in F[f].twts : st[t] < r.mod => t \in r.twts
       /\ r.pc = "archived" => Covers(r, F[f].twts, st, ar)

(* Both say of the state what CacheInv says.                               *)
LEMMA Renamed ==
  /\ \A c : EntriesCovered(c) <=> EntriesCover(c, clock, file, stamp, archive)
  /\ AnswersCovered <=>
       \A p \in Fetcher : AnswerCovers(fetch[p], Target(p), clock, file, stamp, archive)
  BY DEF EntriesCovered, EntriesCover, AnswersCovered, AnswerCovers, CoveredBy, Displaced, Covers

(* No step uncovers what was covered.                                      *)
LEMMA CoveredStays ==
  ASSUME CacheInv, [Next]_vars, NEW f \in Feed \ Deletable,
         NEW e, e.mod \in Nat, e.mod <= clock, e.twts \subseteq Twt,
         Covers(e, file[f].twts, stamp, archive)
  PROVE  Covers(e, file'[f].twts, stamp', archive')
  <1>1. TypeOK /\ TypeOK'
    BY TypeStep DEF CacheInv
  <1>2. /\ file[f].twts \in SUBSET Twt /\ file'[f].twts \in SUBSET Twt
        /\ stamp \in [Twt -> Nat] /\ stamp' \in [Twt -> Nat]
    <2>1. /\ file \in [Feed -> [twts : SUBSET Twt, mod : 0 .. MaxClock, live : BOOLEAN]]
          /\ file' \in [Feed -> [twts : SUBSET Twt, mod : 0 .. MaxClock, live : BOOLEAN]]
          /\ stamp \in [Twt -> 0 .. MaxClock] /\ stamp' \in [Twt -> 0 .. MaxClock]
          /\ MaxClock \in Nat
      BY <1>1, FeedCacheAssumption DEF TypeOK
    <2> QED BY <2>1
  <1> QED BY <1>2, WorldStep, CoversMonotone

(* A set of entries that is covered stays so in every step.                *)
LEMMA EntriesStay ==
  ASSUME CacheInv, [Next]_vars, NEW c \in [URL -> Entry \cup {NoEntry}],
         EntriesCover(c, clock, file, stamp, archive)
  PROVE  EntriesCover(c, clock', file', stamp', archive')
  <1> SUFFICES ASSUME NEW u \in URL, c[u] # NoEntry
               PROVE  /\ c[u].mod <= clock'
                      /\ \A f \in Feed \ Deletable : u \in Keys(f) =>
                            Covers(c[u], file'[f].twts, stamp', archive')
    BY DEF EntriesCover
  <1>1. c[u].mod \in Nat /\ c[u].mod <= clock /\ c[u].twts \subseteq Twt
    BY FeedCacheAssumption DEF EntriesCover, Entry
  <1>2. c[u].mod <= clock'
    BY <1>1, WorldStep
  <1>3. ASSUME NEW f \in Feed \ Deletable, u \in Keys(f)
        PROVE  Covers(c[u], file'[f].twts, stamp', archive')
    <2>1. Covers(c[u], file[f].twts, stamp, archive)
      BY <1>3 DEF EntriesCover
    <2> QED BY <1>1, <2>1, CoveredStays
  <1> QED BY <1>2, <1>3

(* What a goroutine holds stays covered while others move.                 *)
LEMMA AnswerStays ==
  ASSUME CacheInv, [Next]_vars, NEW p \in Fetcher
  PROVE  AnswerCovers(fetch[p], Target(p), clock', file', stamp', archive')
  <1> DEFINE r == fetch[p]
             f == Target(p)
  <1>1. AnswerCovers(r, f, clock, file, stamp, archive)
    BY Renamed DEF CacheInv
  <1>2. r.mod \in Nat /\ r.twts \subseteq Twt /\ f \in Feed /\ file'[f].twts \subseteq Twt
    <2>1. r \in FetchState /\ f \in Feed
      BY TargetIsFeed DEF CacheInv, TypeOK
    <2>2. r.mod \in 0 .. MaxClock /\ MaxClock \in Nat /\ r.twts \subseteq Twt
      BY <2>1, FeedCacheAssumption DEF FetchState
    <2>3. file'[f].twts \subseteq Twt
      BY <2>1, TypeStep DEF TypeOK
    <2> QED BY <2>1, <2>2, <2>3
  <1>3. r.url \in Keys(f) /\ r.mod <= clock /\ (r.pc = "archived" => WithinLimit(r.twts))
    BY <1>1 DEF AnswerCovers
  <1>4. r.mod <= clock'
    BY <1>2, <1>3, WorldStep
  <1>5. ASSUME f \notin Deletable, r.pc = "parsing",
               NEW t \in file'[f].twts, stamp'[t] < r.mod
        PROVE  t \in r.twts
    <2>1. stamp'[t] \in Nat
      <3>1. stamp' \in [Twt -> 0 .. MaxClock] /\ t \in Twt
        BY TypeStep, <1>2, <1>5 DEF TypeOK
      <3> QED BY <3>1, FeedCacheAssumption
    <2>2. t \in file[f].twts
      BY <1>2, <1>3, <1>5, <2>1, WorldStep
    <2>3. stamp[t] = stamp'[t]
      BY <1>2, <2>2, WorldStep
    <2> QED BY <1>1, <1>5, <2>2, <2>3 DEF AnswerCovers
  <1>6. ASSUME f \notin Deletable, r.pc = "archived"
        PROVE  Covers(r, file'[f].twts, stamp', archive')
    <2>1. Covers(r, file[f].twts, stamp, archive)
      BY <1>1, <1>6 DEF AnswerCovers
    <2> QED BY <1>2, <1>3, <1>6, <2>1, CoveredStays
  <1> QED BY <1>3, <1>4, <1>5, <1>6 DEF AnswerCovers

(* A goroutine between other positions has nothing to cover.               *)
LEMMA QuietAnswer ==
  ASSUME CacheInv, [Next]_vars, NEW p \in Fetcher, NEW r,
         r.url \in Keys(Target(p)), r.mod \in Nat, r.mod <= clock,
         r.pc \notin {"parsing", "archived"}
  PROVE  AnswerCovers(r, Target(p), clock', file', stamp', archive')
  <1>1. r.mod <= clock'
    BY WorldStep
  <1> QED BY <1>1 DEF AnswerCovers

(* Goto leaves the goroutine with what an idle one remembers.              *)
LEMMA GotoAnswer ==
  ASSUME CacheInv, [Next]_vars, NEW p \in Fetcher, NEW pos \in FetchPos \ {"parsing", "archived"}
  PROVE  AnswerCovers([Idle(p) EXCEPT !.pc = pos], Target(p), clock', file', stamp', archive')
  <1>1. Target(p) \in Keys(Target(p))
    BY DEF Keys
  <1>2. 0 <= clock
    BY WorldStep
  <1> DEFINE r == [Idle(p) EXCEPT !.pc = pos]
  <1>3. r.url = Target(p) /\ r.mod = 0 /\ r.pc = pos
    BY IdleTyped
  <1> HIDE DEF r
  <1>4. AnswerCovers(r, Target(p), clock', file', stamp', archive')
    BY <1>1, <1>2, <1>3, QuietAnswer
  <1> QED BY <1>4 DEF r

(* The step of a fetch from the answer of the server to ParseFile.         *)
LEMMA FetchAnswer ==
  ASSUME CacheInv, [Next]_vars, NEW p \in Fetcher, Fetch(p)
  PROVE  AnswerCovers(fetch'[p], Target(p), clock', file', stamp', archive')
  <1> DEFINE r == fetch[p]
             f == Target(p)
  <1>0. /\ fetch \in [Fetcher -> FetchState] /\ r \in FetchState /\ f \in Feed
        /\ file \in [Feed -> [twts : SUBSET Twt, mod : 0 .. MaxClock, live : BOOLEAN]]
        /\ MaxItems \in Nat /\ MaxClock \in Nat
    BY TargetIsFeed, FeedCacheAssumption DEF CacheInv, TypeOK
  <1>1. AnswerCovers(r, f, clock, file, stamp, archive)
    BY Renamed DEF CacheInv
  <1>2. r.url \in Keys(f) /\ r.mod \in Nat /\ r.mod <= clock
    <2>1. r.mod \in 0 .. MaxClock
      BY <1>0 DEF FetchState
    <2> QED BY <1>0, <1>1, <2>1 DEF AnswerCovers
  <1>3. file[f].mod \in Nat /\ file[f].mod <= clock
    <2>1. file[f].mod \in 0 .. MaxClock
      BY <1>0
    <2> QED BY <1>0, <2>1 DEF CacheInv, FilesDated
  <1>4. CASE Ask(p)
    <2>1. /\ fetch'[p].url = r.url /\ fetch'[p].mod = r.mod /\ fetch'[p].pc = "asked"
      BY <1>0, <1>4 DEF Ask, FetchState
    <2> QED BY <1>2, <2>1, QuietAnswer
  <1>5. CASE AnswerDate(p)
    <2>1. CASE ~file[f].live
      BY <1>0, <1>5, <2>1, GotoAnswer DEF AnswerDate, Goto, FetchPos
    <2>2. CASE file[f].live
      <3>1. /\ fetch'[p].url \in {f, NewURL[f]} /\ (f \notin moved => fetch'[p].url = f)
            /\ fetch'[p].mod \in {0, file[f].mod}
            /\ fetch'[p].pc \in {"unchanged", "dated"}
        <4> DEFINE unchanged == r.since > 0 /\ file[f].mod <= r.since
                   new == [r EXCEPT !.pc = IF unchanged THEN "unchanged" ELSE "dated",
                                    !.since = 0,
                                    !.mod = IF unchanged THEN 0 ELSE file[f].mod,
                                    !.url = IF f \in moved THEN NewURL[f] ELSE f]
        <4>1. fetch' = [fetch EXCEPT ![p] = new]
          BY <1>0, <1>5, <2>2 DEF AnswerDate
        <4>2. fetch'[p] = new
          BY <1>0, <4>1
        <4>3. /\ new.url \in {f, NewURL[f]} /\ (f \notin moved => new.url = f)
              /\ new.mod \in {0, file[f].mod}
              /\ new.pc \in {"unchanged", "dated"}
          BY <1>0 DEF FetchState
        <4> QED BY <4>2, <4>3
      <3>2. fetch'[p].url \in Keys(f)
        BY <3>1 DEF Keys, CacheInv, TypeOK
      <3>3. fetch'[p].mod \in Nat /\ fetch'[p].mod <= clock
        BY <1>3, <3>1, WorldStep
      <3> QED BY <3>1, <3>2, <3>3, QuietAnswer
    <2> QED BY <2>1, <2>2
  <1>6. CASE AnswerBody(p)
    <2>1. CASE ~file[f].live
      BY <1>0, <1>6, <2>1, GotoAnswer DEF AnswerBody, Goto, FetchPos
    <2>2. CASE file[f].live
      <3>1. /\ fetch'[p].url = r.url /\ fetch'[p].mod = r.mod /\ fetch'[p].pc = "parsing"
            /\ fetch'[p].twts = file[f].twts
        BY <1>0, <1>6, <2>2 DEF AnswerBody, FetchState
      <3>2. file' = file /\ clock' = clock
        BY <1>6 DEF AnswerBody, fetchRest
      <3> QED BY <1>2, <3>1, <3>2 DEF AnswerCovers
    <2> QED BY <2>1, <2>2
  <1>7. CASE Parse(p)
    <2> DEFINE body == r.twts
               fresh == body \ Old(body)
    <2>1. PICK keep \in Kept(fresh) :
            fetch' = [fetch EXCEPT ![p].pc = "archived", ![p].twts = keep]
      BY <1>7 DEF Parse
    <2>2. /\ fetch'[p].url = r.url /\ fetch'[p].mod = r.mod /\ fetch'[p].pc = "archived"
          /\ fetch'[p].twts = keep
      BY <1>0, <2>1 DEF FetchState
    <2>3. UNCHANGED <<clock, file, stamp>> /\ archive' = archive \cup Old(body) /\ r.pc = "parsing"
      BY <1>7 DEF Parse, fetchRest
    <2>4. \/ keep = fresh /\ (MaxItems = 0 \/ Cardinality(fresh) <= MaxItems)
          \/ /\ MaxItems # 0 /\ keep \subseteq fresh /\ Cardinality(keep) = MaxItems
             /\ \A k \in keep, d \in fresh \ keep : stamp[d] <= stamp[k]
      BY <2>1 DEF Kept
    <2>5. WithinLimit(keep)
      <3>1. CASE keep = fresh /\ (MaxItems = 0 \/ Cardinality(fresh) <= MaxItems)
        BY <3>1 DEF WithinLimit
      <3>2. CASE Cardinality(keep) = MaxItems
        <4>1. Cardinality(keep) <= MaxItems
          BY <1>0, <3>2
        <4> QED BY <4>1 DEF WithinLimit
      <3> QED BY <2>4, <3>1, <3>2
    <2>6. ASSUME f \notin Deletable
          PROVE  Covers(fetch'[p], file[f].twts, stamp, archive')
      <3> SUFFICES ASSUME NEW t \in file[f].twts, stamp[t] < r.mod, t \notin keep \cup archive'
                   PROVE  /\ MaxItems > 0
                          /\ t \notin keep
                          /\ Cardinality(keep) = MaxItems
                          /\ \A k \in keep : stamp[t] <= stamp[k]
        BY <2>2 DEF Covers
      <3>1. t \in fresh \ keep
        BY <1>1, <2>3, <2>6 DEF AnswerCovers
      <3> QED BY <1>0, <2>4, <3>1
    <2> QED BY <1>2, <2>2, <2>3, <2>5, <2>6 DEF AnswerCovers
  <1>8. CASE FetchFails(p) \/ StoreEntry(p) \/ NotModified(p)
    <2>1. fetch' = [fetch EXCEPT ![p] = [Idle(p) EXCEPT !.pc = "fetched"]]
      BY <1>8 DEF FetchFails, StoreEntry, NotModified, Goto
    <2>2. fetch'[p] = [Idle(p) EXCEPT !.pc = "fetched"]
      BY <1>0, <2>1
    <2>3. "fetched" \in FetchPos \ {"parsing", "archived"}
      BY DEF FetchPos
    <2> QED BY <2>2, <2>3, GotoAnswer
  <1> QED BY <1>4, <1>5, <1>6, <1>7, <1>8 DEF Fetch

(* Every step leaves every goroutine with a covered answer.                *)
LEMMA AnswersStep ==
  CacheInv /\ [Next]_vars =>
    \A p \in Fetcher : AnswerCovers(fetch'[p], Target(p), clock', file', stamp', archive')
  <1> SUFFICES ASSUME CacheInv, [Next]_vars, NEW p \in Fetcher
               PROVE  AnswerCovers(fetch'[p], Target(p), clock', file', stamp', archive')
    OBVIOUS
  <1>0. fetch \in [Fetcher -> FetchState] /\ p \in Fetcher
    BY DEF CacheInv, TypeOK
  <1>1. ASSUME fetch'[p] = fetch[p]
        PROVE  AnswerCovers(fetch'[p], Target(p), clock', file', stamp', archive')
    BY <1>1, AnswerStays
  <1>2. ASSUME NEW pos \in FetchPos \ {"parsing", "archived"},
               fetch'[p] = [Idle(p) EXCEPT !.pc = pos]
        PROVE  AnswerCovers(fetch'[p], Target(p), clock', file', stamp', archive')
    BY <1>2, GotoAnswer
  <1>3. ASSUME fetch'[p] = Idle(p)
        PROVE  AnswerCovers(fetch'[p], Target(p), clock', file', stamp', archive')
    <2>1. Idle(p) = [Idle(p) EXCEPT !.pc = "idle"]
      BY DEF Idle
    <2> QED BY <1>2, <1>3, <2>1 DEF FetchPos
  <1>4. ASSUME NEW q \in Fetcher, Fetch(q)
        PROVE  AnswerCovers(fetch'[p], Target(p), clock', file', stamp', archive')
    <2>1. CASE p = q
      BY <1>4, <2>1, FetchAnswer
    <2>2. CASE p # q
      <3>1. fetch'[p] = fetch[p]
        BY <1>0, <1>4, <2>2 DEF Fetch, Ask, AnswerDate, AnswerBody, FetchFails, Parse, StoreEntry,
                               NotModified, Goto
      <3> QED BY <1>1, <3>1
    <2> QED BY <2>1, <2>2
  <1>5. ASSUME NEW t \in LocalTwt, PostNext(t)
        PROVE  AnswerCovers(fetch'[p], Target(p), clock', file', stamp', archive')
    <2>1. t \in Fetcher
      BY DEF Fetcher
    <2>2. CASE p = t /\ (Post(t) \/ PostRefresh(t))
      BY <1>0, <1>2, <2>2 DEF Post, PostRefresh, Goto, FetchPos
    <2>3. CASE p = t /\ PostGather(t)
      <3>1. /\ fetch'[p].url = fetch[p].url /\ fetch'[p].mod = fetch[p].mod
            /\ fetch'[p].pc = "gathered"
        BY <1>0, <2>3 DEF PostGather, FetchState
      <3>2. fetch[p].url \in Keys(Target(p)) /\ fetch[p].mod <= clock
        BY DEF CacheInv, AnswersCovered
      <3>3. fetch[p].mod \in Nat
        <4>1. fetch[p].mod \in 0 .. MaxClock
          BY <1>0 DEF FetchState
        <4> QED BY <4>1, FeedCacheAssumption
      <3> QED BY <3>1, <3>2, <3>3, QuietAnswer
    <2>4. CASE p # t
      <3>1. fetch'[p] = fetch[p]
        BY <1>0, <1>5, <2>4 DEF PostNext, Post, PostGather, PostRefresh, Goto
      <3> QED BY <1>1, <3>1
    <2> QED BY <1>5, <2>2, <2>3, <2>4 DEF PostNext
  <1>6. CASE JobStart \/ JobGather
    BY <1>0, <1>1, <1>2, <1>3, <1>6 DEF JobStart, JobGather, FetchPos
  <1>7. CASE Restart
    BY <1>3, <1>7 DEF Restart
  <1>8. CASE fetch' = fetch
    BY <1>1, <1>8
  <1>9. ASSUME NEW g \in Deletable, Delete(g) PROVE fetch' = fetch
    BY <1>9 DEF Delete, DeleteArchived, DeleteFile, DeleteEntry, deletionRest
  <1>10. \/ JobRefresh \/ JobSave \/ EncodeRace \/ Tick \/ UNCHANGED vars
         \/ \E t \in LocalTwt : FixMissing(t)
         \/ \E t \in Twt \ LocalTwt : WriteElsewhere(t)
         \/ \E f \in DOMAIN NewURL : Move(f)
         => fetch' = fetch
    BY DEF JobRefresh, JobSave, EncodeRace, Tick, vars, FixMissing, fetchRest, WriteElsewhere,
           Move, jobRest
  <1> QED BY <1>4, <1>5, <1>6, <1>7, <1>8, <1>9, <1>10 DEF Next, PodNext, JobNext

(* Every step leaves covered entries, in memory and in the file.           *)
LEMMA EntriesStep ==
  CacheInv /\ [Next]_vars =>
    /\ EntriesCover(cache', clock', file', stamp', archive')
    /\ EntriesCover(saved'.cache, clock', file', stamp', archive')
  <1> DEFINE Fine(c) == EntriesCover(c, clock', file', stamp', archive')
  <1> SUFFICES ASSUME CacheInv, [Next]_vars PROVE Fine(cache') /\ Fine(saved'.cache)
    OBVIOUS
  <1>1. Fine(cache) /\ Fine(saved.cache)
    BY EntriesStay, Renamed DEF CacheInv, TypeOK
  <1>2. Fine(Nothing)
    BY DEF EntriesCover, Nothing
  <1>3. ASSUME NEW p \in Fetcher, Fetch(p) PROVE Fine(cache') /\ saved' = saved
    <2>1. CASE StoreEntry(p)
      <3> DEFINE r == fetch[p]
                 e == [twts |-> r.twts, mod |-> r.mod]
      <3>1. /\ cache' = [cache EXCEPT ![r.url] = e] /\ r.pc = "archived"
            /\ UNCHANGED <<clock, file, stamp, archive, saved>>
        BY <2>1 DEF StoreEntry, fetchRest
      <3>2. AnswerCovers(r, Target(p), clock, file, stamp, archive) /\ Target(p) \in Feed
        BY Renamed, TargetIsFeed DEF CacheInv
      <3>3. cache \in [URL -> Entry \cup {NoEntry}]
        BY DEF CacheInv, TypeOK
      <3>4. ASSUME NEW f \in Feed \ Deletable, r.url \in Keys(f)
            PROVE  Covers(e, file[f].twts, stamp, archive)
        <4>1. f = Target(p)
          BY <3>2, <3>4, KeysDisjoint DEF AnswerCovers
        <4>2. Covers(r, file[f].twts, stamp, archive)
          BY <3>1, <3>2, <4>1 DEF AnswerCovers
        <4> QED BY <4>2 DEF Covers
      <3>5. r.mod <= clock
        BY <3>2 DEF AnswerCovers
      <3>6. ASSUME NEW u \in URL, cache'[u] # NoEntry
            PROVE  /\ cache'[u].mod <= clock'
                   /\ \A f \in Feed \ Deletable : u \in Keys(f) =>
                         Covers(cache'[u], file'[f].twts, stamp', archive')
        <4>1. CASE u = r.url
          <5>1. cache'[u] = e
            BY <3>1, <3>3, <4>1
          <5> QED BY <3>1, <3>4, <3>5, <4>1, <5>1
        <4>2. CASE u # r.url
          <5>1. cache'[u] = cache[u]
            BY <3>1, <3>3, <4>2
          <5> QED BY <1>1, <3>6, <5>1 DEF EntriesCover
        <4> QED BY <4>1, <4>2
      <3> QED BY <3>1, <3>6 DEF EntriesCover
    <2>2. CASE ~StoreEntry(p)
      <3>1. cache' = cache /\ saved' = saved
        BY <1>3, <2>2 DEF Fetch, Ask, AnswerDate, AnswerBody, FetchFails, Parse, NotModified, fetchRest
      <3> QED BY <1>1, <3>1
    <2> QED BY <2>1, <2>2 DEF StoreEntry, fetchRest
  <1>4. CASE JobSave
    BY <1>1, <1>4 DEF JobSave, jobRest
  <1>5. CASE Restart
    <2>1. PICK found \in {saved} \cup (IF job = "warmed" THEN {NoFile} ELSE {}) :
            saved' = found /\ cache' = found.cache
      BY <1>5 DEF Restart
    <2> QED BY <1>1, <1>2, <2>1 DEF NoFile
  <1>6. ASSUME NEW g \in Deletable, Delete(g) PROVE Fine(cache') /\ saved' = saved
    <2>1. CASE DeleteEntry(g)
      <3>1. /\ cache' = [cache EXCEPT ![g] = NoEntry] /\ saved' = saved
            /\ cache \in [URL -> Entry \cup {NoEntry}]
        BY <2>1 DEF DeleteEntry, deletionRest, CacheInv, TypeOK
      <3>2. \A u \in URL : cache'[u] = cache[u] \/ cache'[u] = NoEntry
        BY <3>1
      <3> QED BY <1>1, <3>1, <3>2 DEF EntriesCover
    <2>2. CASE ~DeleteEntry(g)
      BY <1>1, <1>6, <2>2 DEF Delete, DeleteArchived, DeleteFile, deletionRest
    <2> QED BY <2>1, <2>2
  <1>7. \/ JobStart \/ JobGather \/ JobRefresh \/ EncodeRace \/ Tick \/ UNCHANGED vars
        \/ \E t \in LocalTwt : FixMissing(t) \/ PostNext(t)
        \/ \E t \in Twt \ LocalTwt : WriteElsewhere(t)
        \/ \E f \in DOMAIN NewURL : Move(f)
        => cache' = cache /\ saved' = saved
    BY DEF JobStart, JobGather, JobRefresh, EncodeRace, Tick, vars, FixMissing, fetchRest,
           PostNext, Post, PostGather, PostRefresh, WriteElsewhere, Move, jobRest
  <1> QED BY <1>1, <1>3, <1>4, <1>5, <1>6, <1>7 DEF Next, PodNext, JobNext

-----------------------------------------------------------------------------
(* The inductive invariant: types, dated files, answers and entries that   *)
(* cover what their date promises, in memory and in the cache file.        *)
THEOREM FeedCacheCorrect == Spec => []CacheInv
  <1>1. CacheInv /\ [Next]_vars => CacheInv'
    BY TypeStep, FilesStep, AnswersStep, EntriesStep
       DEF CacheInv, EntriesCovered, EntriesCover, AnswersCovered, AnswerCovers, CoveredBy,
           Displaced, Covers
  <1> QED BY CacheInvInit, <1>1, PTL DEF Spec

(* Entries never exceed the limit, and everything has its type.            *)
THEOREM FeedCacheTyped == Spec => []TypeOK
  <1>1. CacheInv => TypeOK
    BY DEF CacheInv
  <1> QED BY FeedCacheCorrect, <1>1, PTL

(* A 304 can be believed: what was written before the second of an entry's *)
(* date is in the entry, archived, or displaced by the limit.              *)
THEOREM DatesTruthful == Spec => []DateCoversEntry
  <1>1. CacheInv => DateCoversEntry
    <2> SUFFICES ASSUME CacheInv, NEW f \in Feed \ Deletable, NEW u \in Keys(f),
                        cache[u] # NoEntry
                 PROVE  CoveredBy(cache[u], f)
      BY DEF DateCoversEntry
    <2>1. u \in URL
      BY KeysDisjoint
    <2> QED BY <2>1 DEF CacheInv, EntriesCovered
  <1> QED BY FeedCacheCorrect, <1>1, PTL

-----------------------------------------------------------------------------
(* What crashes the pod.                                                   *)

Undisturbed == moved = {} /\ \A f \in Deletable : deletion[f] = "none"

AwaitInv == TypeOK /\ CrashNeedsRace /\ EntriesAwaited

(* Moving a goroutine on moves it there, and no other.                     *)
LEMMA GotoTo ==
  ASSUME fetch \in [Fetcher -> FetchState], NEW p \in Fetcher, NEW pos, Goto(p, pos)
  PROVE  fetch'[p].pc = pos /\ \A q \in Fetcher \ {p} : fetch'[q] = fetch[q]
  BY DEF Goto, Idle

(* As long as no feed moves and no account goes, an entry stays, and only  *)
(* a fetch that found one sends the date of it.                            *)
LEMMA FetchAwaits ==
  ASSUME CacheInv, AwaitInv, Undisturbed, NEW p \in Fetcher, Fetch(p)
  PROVE  (CrashNeedsRace /\ EntriesAwaited)'
  <1> DEFINE t == Target(p)
             Awaited(q) == /\ fetch'[q].pc = "asked" /\ fetch'[q].since > 0 => cache'[Target(q)] # NoEntry
                           /\ fetch'[q].pc = "unchanged" => cache'[fetch'[q].url] # NoEntry
  <1>0. /\ fetch \in [Fetcher -> FetchState] /\ fetch[p] \in FetchState
        /\ cache \in [URL -> Entry \cup {NoEntry}] /\ fetch[p].url \in URL
        /\ t \in URL /\ moved = {}
    BY TargetIsFeed, FeedCacheAssumption DEF CacheInv, TypeOK, FetchState, Undisturbed
  <1>1. \A u \in URL : cache[u] # NoEntry => cache'[u] # NoEntry
    <2>1. CASE StoreEntry(p)
      <3>1. [twts |-> fetch[p].twts, mod |-> fetch[p].mod] # NoEntry
        <4>1. WithinLimit(fetch[p].twts)
          BY <2>1 DEF CacheInv, AnswersCovered, StoreEntry
        <4> QED BY <1>0, <4>1, NoEntryAssumption DEF Entry, FetchState
      <3> QED BY <1>0, <2>1, <3>1 DEF StoreEntry
    <2>2. CASE ~StoreEntry(p)
      BY <2>2 DEF Fetch, Ask, AnswerDate, AnswerBody, FetchFails, Parse, NotModified
    <2> QED BY <2>1, <2>2
  <1>2. ASSUME NEW q \in Fetcher \ {p} PROVE Awaited(q)
    <2>1. fetch'[q] = fetch[q]
      BY <1>0 DEF Fetch, Ask, AnswerDate, AnswerBody, FetchFails, Parse, NotModified, StoreEntry, Goto
    <2>2. Target(q) \in URL /\ fetch[q].url \in URL
      BY <1>0, TargetIsFeed, FeedCacheAssumption DEF FetchState
    <2> QED BY <1>1, <2>1, <2>2 DEF AwaitInv, EntriesAwaited, Undisturbed
  <1>3. Awaited(p) /\ crashed' # "no entry"
    <2>0. crashed # "no entry"
      BY DEF AwaitInv, CrashNeedsRace, Undisturbed
    <2>1. CASE Ask(p)
      <3>1. /\ fetch'[p].pc = "asked" /\ fetch'[p].since > 0 => cache[t] # NoEntry
            /\ fetch'[p].pc = "asked" /\ cache' = cache /\ crashed' = crashed
        BY <1>0, <2>1 DEF Ask, FetchState
      <3> QED BY <2>0, <3>1
    <2>2. CASE AnswerDate(p)
      <3>0. fetch[p].pc = "asked" /\ crashed' = crashed /\ cache' = cache
        BY <2>2 DEF AnswerDate
      <3>1. CASE ~file[t].live
        <4>1. Goto(p, "fetched")
          BY <2>2, <3>1 DEF AnswerDate
        <4>2. fetch'[p].pc = "fetched"
          BY <1>0, <4>1 DEF Goto, Idle
        <4> QED BY <2>0, <3>0, <4>2
      <3>2. CASE file[t].live
        <4> DEFINE unchanged == fetch[p].since > 0 /\ file[t].mod <= fetch[p].since
        <4> DEFINE r == [fetch[p] EXCEPT !.pc = IF unchanged THEN "unchanged" ELSE "dated",
                                         !.since = 0,
                                         !.mod = IF unchanged THEN 0 ELSE file[t].mod,
                                         !.url = IF t \in moved THEN NewURL[t] ELSE t]
        <4>1. /\ fetch'[p].pc = IF unchanged THEN "unchanged" ELSE "dated"
              /\ fetch'[p].url = t
          <5>1. fetch' = [fetch EXCEPT ![p] = r]
            BY <2>2, <3>2 DEF AnswerDate
          <5>2. r.pc = IF unchanged THEN "unchanged" ELSE "dated"
            BY <1>0 DEF FetchState
          <5>3. r.url = t
            BY <1>0 DEF FetchState
          <5> HIDE DEF r
          <5> QED BY <1>0, <5>1, <5>2, <5>3
        <4>2. unchanged => cache[t] # NoEntry
          BY <3>0 DEF AwaitInv, EntriesAwaited, Undisturbed
        <4> QED BY <2>0, <3>0, <4>1, <4>2
      <3> QED BY <3>1, <3>2
    <2>3. CASE NotModified(p)
      <3>1. cache[fetch[p].url] # NoEntry
        BY <2>3 DEF NotModified, AwaitInv, EntriesAwaited, Undisturbed
      <3>2. Goto(p, "fetched") /\ crashed' = crashed
        BY <2>3, <3>1 DEF NotModified
      <3>3. fetch'[p].pc = "fetched"
        BY <1>0, <3>2 DEF Goto, Idle
      <3> QED BY <2>0, <3>2, <3>3
    <2>4. CASE FetchFails(p) \/ StoreEntry(p)
      <3>1. Goto(p, "fetched") /\ crashed' = crashed
        BY <2>4 DEF FetchFails, StoreEntry, fetchRest
      <3>2. fetch'[p].pc = "fetched"
        BY <1>0, <3>1 DEF Goto, Idle
      <3> QED BY <2>0, <3>1, <3>2
    <2>5. CASE AnswerBody(p)
      <3>1. fetch'[p].pc \in {"fetched", "parsing"} /\ crashed' = crashed
        BY <1>0, <2>5 DEF AnswerBody, Goto, Idle, FetchState
      <3> QED BY <2>0, <3>1
    <2>6. CASE Parse(p)
      <3>1. fetch'[p].pc = "archived" /\ crashed' = crashed
        BY <1>0, <2>6 DEF Parse, FetchState
      <3> QED BY <2>0, <3>1
    <2> QED BY <2>1, <2>2, <2>3, <2>4, <2>5, <2>6 DEF Fetch
  <1> QED BY <1>2, <1>3 DEF CrashNeedsRace, EntriesAwaited

(* Posts and the job begin fetches and leave the entries alone.            *)
LEMMA OthersAwait ==
  ASSUME TypeOK, AwaitInv, cache' = cache, UNCHANGED <<moved, deletion>>,
         crashed' = crashed \/ crashed' = "map race",
         \A p \in Fetcher : fetch'[p] = fetch[p] \/ fetch'[p].pc \notin {"asked", "unchanged"}
  PROVE  (CrashNeedsRace /\ EntriesAwaited)'
  BY DEF AwaitInv, CrashNeedsRace, EntriesAwaited

(* Every step: a fetch, one of the others, or one after which a feed has   *)
(* moved or the deletion of an account has begun.                          *)
LEMMA AwaitStep == CacheInv /\ AwaitInv /\ [Next]_vars => AwaitInv'
  <1> SUFFICES ASSUME CacheInv, AwaitInv, [Next]_vars PROVE (CrashNeedsRace /\ EntriesAwaited)'
    BY TypeStep DEF AwaitInv
  <1>0. TypeOK /\ fetch \in [Fetcher -> FetchState] /\ deletion \in [Deletable -> {"none", "file", "cache", "done", "cut"}]
    BY DEF CacheInv, TypeOK
  <1>1. CASE UNCHANGED vars
    BY <1>0, <1>1, OthersAwait DEF vars
  <1>2. ASSUME NEW p \in Fetcher, Fetch(p) PROVE (CrashNeedsRace /\ EntriesAwaited)'
    <2>1. UNCHANGED <<moved, deletion>>
      BY <1>2 DEF Fetch, Ask, AnswerDate, AnswerBody, FetchFails, Parse, NotModified, StoreEntry, fetchRest
    <2>2. CASE Undisturbed
      BY <1>2, <2>2, FetchAwaits
    <2>3. CASE ~Undisturbed
      BY <2>1, <2>3 DEF Undisturbed, CrashNeedsRace, EntriesAwaited
    <2> QED BY <2>2, <2>3
  <1>3. ASSUME NEW t \in LocalTwt, PostNext(t) PROVE (CrashNeedsRace /\ EntriesAwaited)'
    <2>1. t \in Fetcher
      BY DEF Fetcher
    <2>2. CASE Post(t) \/ PostRefresh(t)
      <3>1. PICK pos \in {"start", "posted"} : Goto(t, pos)
        BY <2>2 DEF Post, PostRefresh
      <3>2. cache' = cache /\ UNCHANGED <<moved, deletion>> /\ crashed' = crashed
        BY <2>2 DEF Post, PostRefresh, fetchRest
      <3> QED BY <1>0, <2>1, <3>1, <3>2, GotoTo, OthersAwait
    <2>3. CASE PostGather(t)
      <3>1. \A p \in Fetcher : fetch'[p] = fetch[p] \/ fetch'[p].pc = "gathered"
        BY <1>0, <2>1, <2>3 DEF PostGather, FetchState
      <3> QED BY <1>0, <2>3, <3>1, OthersAwait DEF PostGather, fetchRest
    <2> QED BY <1>3, <2>2, <2>3 DEF PostNext
  <1>4. CASE JobNext
    <2>1. ASSUME NEW p \in Fetcher
          PROVE  fetch'[p] = fetch[p] \/ fetch'[p].pc \in {"idle", "start", "fetched"}
      <3>1. CASE JobStart
        BY <3>1 DEF JobStart, Idle
      <3>2. CASE JobGather
        BY <3>2 DEF JobGather, Idle
      <3> QED BY <1>4, <3>1, <3>2 DEF JobNext, JobRefresh, JobSave
    <2>2. cache' = cache /\ UNCHANGED <<moved, deletion>> /\ crashed' = crashed
      BY <1>4 DEF JobNext, JobStart, JobGather, JobRefresh, JobSave, jobRest
    <2> QED BY <1>0, <2>1, <2>2, OthersAwait
  <1>5. CASE EncodeRace
    BY <1>0, <1>5, OthersAwait DEF EncodeRace
  <1>6. ASSUME NEW t \in LocalTwt, FixMissing(t) PROVE (CrashNeedsRace /\ EntriesAwaited)'
    BY <1>0, <1>6, OthersAwait DEF FixMissing, fetchRest
  <1>7. ASSUME NEW f \in Deletable, Delete(f) PROVE (CrashNeedsRace /\ EntriesAwaited)'
    <2>1. deletion'[f] # "none"
      BY <1>0, <1>7 DEF Delete, DeleteArchived, DeleteFile, DeleteEntry
    <2> QED BY <2>1 DEF CrashNeedsRace, EntriesAwaited
  <1>8. CASE Tick \/ \E t \in Twt \ LocalTwt : WriteElsewhere(t)
    BY <1>0, <1>8, OthersAwait DEF Tick, WriteElsewhere
  <1>9. ASSUME NEW f \in DOMAIN NewURL, Move(f) PROVE (CrashNeedsRace /\ EntriesAwaited)'
    BY <1>9 DEF Move, CrashNeedsRace, EntriesAwaited
  <1>10. CASE Restart
    BY <1>10 DEF Restart, Idle, CrashNeedsRace, EntriesAwaited
  <1> QED BY <1>1, <1>2, <1>3, <1>4, <1>5, <1>6, <1>7, <1>8, <1>9, <1>10 DEF Next, PodNext

(* The pod is brought down by a missing entry only when a feed has moved   *)
(* or an account was deleted.                                              *)
THEOREM CrashesNeedRaces == Spec => []CrashNeedsRace
  <1>1. Init => AwaitInv
    BY CacheInvInit DEF CacheInv, AwaitInv, Init, Idle, CrashNeedsRace, EntriesAwaited
  <1>2. AwaitInv => CrashNeedsRace
    BY DEF AwaitInv
  <1> QED BY <1>1, <1>2, AwaitStep, FeedCacheCorrect, PTL DEF Spec
=============================================================================
