--------------------------- MODULE TimelineProofs ---------------------------
(***************************************************************************)
(* Proofs about Timeline: who reads all pages misses and doubles nothing   *)
(* but by what came or left, and a twt is found while it moves from the    *)
(* cache to the archive.                                                   *)
(***************************************************************************)
EXTENDS Timeline, FiniteSetTheorems, TLAPS

-----------------------------------------------------------------------------
(* Types                                                                   *)

WorldTypes ==
  /\ visit \in {"timeline", "twt"} /\ feed \in [Feed -> SUBSET Twt]
  /\ removed \subseteq Twt /\ cutoff \in 0 .. MaxAge

StoreTypes ==
  /\ cache \in [Feed -> SUBSET Twt] /\ file \in [Twt -> {"none", "part", "whole"}]
  /\ spoilt \subseteq Twt /\ restarts \in 0 .. MaxRestarts

Task == [at : {"idle", "each", "has", "open", "write"},
         feed : Feed \cup {NoFeed}, read : SUBSET Twt, keep : SUBSET Twt,
         todo : SUBSET Twt, twt : Twt \cup {NoTwt}]

WorkTypes == work \in [Archiver -> Task]

Record == [Nick -> Feed \cup {NoFeed}]
Changing == [at : {"idle", "loaded", "saved"}, copy : Record]

MuteTypes ==
  /\ muted \in Record /\ muting \in [Muting -> Changing]
  /\ wish \cup dropped \subseteq Feed /\ Single(muted)

Visitors ==
  [at : {"idle", "paging", "paged", "lookup", "has", "get", "missing", "error"},
   list : Feed \cup {"none", "timeline", "search", "mentions"},
   page : Nat, count : [Twt -> 0 .. 2], stay : SUBSET Twt, wished : SUBSET Feed,
   came : BOOLEAN, went : BOOLEAN, twt : Twt \cup {NoTwt}, excuse : BOOLEAN]

VisitorTypes == visitor \in Visitors

LEMMA TypeParts ==
  TypeOK <=> WorldTypes /\ StoreTypes /\ WorkTypes /\ MuteTypes /\ VisitorTypes
BY Zenon DEF TypeOK, WorldTypes, StoreTypes, Task, WorkTypes, Record, Changing, MuteTypes,
             Single, Visitors, VisitorTypes

\* The numbers are numbers and Twt is finite.
LEMMA Numbers ==
  /\ PageSize \in Nat /\ PageSize > 0 /\ MaxItems \in Nat /\ MaxAge \in Nat /\ MaxRestarts \in Nat
  /\ IsFiniteSet(Twt) /\ FeedOf \in [Twt -> Feed] /\ DateOf \in [Twt -> Nat]
  /\ NoFeed \notin Feed /\ NoTwt \notin Twt
BY TimelineAssumption

-----------------------------------------------------------------------------
(* What the actions of one kind leave alone                                *)

World == (\E t \in Twt : Publish(t) \/ TakeBack(t)) \/ Age

Mutes == \E m \in Muting : \/ LoadUser(m)
                           \/ \E n \in Nick : Unmute(m, n) \/ \E f \in Feed : Mute(m, n, f)

LEMMA Kinds == Next => World \/ Archiving \/ Mutes \/ Visit \/ Restart
BY DEF Next, World, Mutes

LEMMA WorldLeaves == World => UNCHANGED <<cache, file, work, mutes, visitor, restarts, spoilt>>
BY DEF World, Publish, TakeBack, Age, worldRest

LEMMA MutesLeave == Mutes => UNCHANGED <<world, cache, file, work, visitor, restarts, spoilt>>
BY DEF Mutes, LoadUser, Mute, Unmute, SetUser, muteRest

LEMMA VisitLeaves == Visit => UNCHANGED <<world, cache, file, work, mutes, restarts, spoilt>>
BY DEF Visit, TimelinePage, SearchPage, MentionsPage, ProfilePage, ExternalPage, ReadPage,
       Arrive, Lookup, AskArchive, GetArchived, Leave, visitRest

LEMMA ArchivingLeaves == Archiving => UNCHANGED <<world, mutes, restarts>>
BY DEF Archiving, OpenArchived, WriteArchived, StoreEntry, Has, Parsed, JobReads, JobLookup,
       JobEnds, workRest

LEMMA RestartLeaves == Restart => UNCHANGED <<world, file, mutes>>
BY DEF Restart

LEMMA WorldTyped == TypeOK /\ [Next]_vars => WorldTypes'
<1> SUFFICES ASSUME WorldTypes, [Next]_vars PROVE WorldTypes'
  BY TypeParts
<1>1. CASE World
  <2>1. ASSUME NEW t \in Twt, Publish(t) PROVE WorldTypes'
    BY <2>1, Numbers DEF Publish, WorldTypes
  <2>2. ASSUME NEW t \in Twt, TakeBack(t) PROVE WorldTypes'
    BY <2>2, Numbers DEF TakeBack, WorldTypes
  <2>3. CASE Age
    BY <2>3, Numbers DEF Age, WorldTypes
  <2> QED BY <1>1, <2>1, <2>2, <2>3 DEF World
<1>2. CASE UNCHANGED world
  BY <1>2 DEF WorldTypes, world
<1> QED
  BY <1>1, <1>2, Kinds, MutesLeave, VisitLeaves, ArchivingLeaves, RestartLeaves DEF vars

\* What an archiver does next is again a task.
LEMMA SkipTyped ==
  ASSUME WorkTypes, NEW x \in Archiver, NEW t \in Twt, Skip(x, t)
  PROVE  WorkTypes'
<1> DEFINE w == [work[x] EXCEPT !.at = "each", !.todo = @ \ {t}, !.twt = NoTwt]
<1>1. work[x] \in Task
  BY DEF WorkTypes
<1>2. w \in Task
  BY <1>1 DEF Task
<1>3. work' = [work EXCEPT ![x] = w]
  BY <1>1 DEF Skip
<1> HIDE DEF w
<1> QED BY <1>2, <1>3 DEF WorkTypes

LEMMA ParsedParts ==
  ASSUME StoreTypes, WorldTypes, NEW x, NEW f \in Feed, Parsed(x, f)
  PROVE  \E K \in SUBSET (feed[f] \ Old(feed[f])) :
           /\ work' = [work EXCEPT ![x] = [at |-> "each", feed |-> f, read |-> feed[f], keep |-> K,
                                          todo |-> Old(feed[f]), twt |-> NoTwt]]
           /\ spoilt' = spoilt \cup ((feed[f] \ Old(feed[f])) \ K)
<1> DEFINE fresh == feed[f] \ Old(feed[f])
<1>1. PICK K \in Kept(fresh) :
           /\ work' = [work EXCEPT ![x] = [at |-> "each", feed |-> f, read |-> feed[f], keep |-> K,
                                          todo |-> Old(feed[f]), twt |-> NoTwt]]
           /\ spoilt' = spoilt \cup (fresh \ K)
  BY Zenon DEF Parsed
<1> HIDE DEF fresh
<1>2. K \subseteq fresh
  BY <1>1 DEF Kept
<1> USE DEF fresh
<1> QED BY <1>1, <1>2

LEMMA ArchivingTyped ==
  ASSUME TypeOK, ArchiveSound, Archiving
  PROVE  StoreTypes' /\ WorkTypes'
<1> USE TypeParts
<1>1. ASSUME NEW x \in Archiver, OpenArchived(x) PROVE StoreTypes' /\ WorkTypes'
  <2>1. work[x].twt \in Twt
    BY <1>1 DEF OpenArchived, ArchiveSound
  <2>2. StoreTypes'
    BY <1>1, <2>1, ArchivingLeaves DEF OpenArchived, StoreTypes, workRest
  <2>3. WorkTypes'
    BY <1>1 DEF OpenArchived, WorkTypes, Task
  <2> QED BY <2>2, <2>3
<1>2. ASSUME NEW x \in Archiver, WriteArchived(x) PROVE StoreTypes' /\ WorkTypes'
  <2>1. work[x].twt \in Twt
    BY <1>2 DEF WriteArchived, ArchiveSound
  <2>2. StoreTypes'
    BY <1>2, <2>1 DEF WriteArchived, StoreTypes, workRest
  <2>3. WorkTypes'
    BY <1>2, <2>1, SkipTyped DEF WriteArchived
  <2> QED BY <2>2, <2>3
<1>3. ASSUME NEW x \in Archiver, StoreEntry(x) PROVE StoreTypes' /\ WorkTypes'
  <2>1. StoreTypes'
    BY <1>3 DEF StoreEntry, StoreTypes, WorkTypes, Task, workRest
  <2>2. AtRest \in Task
    BY DEF AtRest, Task
  <2>3. WorkTypes'
    BY <1>3, <2>2 DEF StoreEntry, WorkTypes
  <2> QED BY <2>1, <2>3
<1>4. ASSUME NEW x \in Archiver, NEW t \in Twt, Has(x, t) PROVE StoreTypes' /\ WorkTypes'
  <2>1. StoreTypes'
    BY <1>4 DEF Has, StoreTypes, workRest
  <2>2. CASE Skip(x, t)
    BY <2>1, <2>2, SkipTyped
  <2>3. CASE work' = [work EXCEPT ![x].at = "open", ![x].twt = t]
    <3> DEFINE w == [work[x] EXCEPT !.at = "open", !.twt = t]
    <3>1. work[x] \in Task
      BY DEF WorkTypes, Archiver
    <3>2. w \in Task
      BY <3>1 DEF Task
    <3>3. work' = [work EXCEPT ![x] = w]
      BY <2>3, <3>1
    <3> HIDE DEF w
    <3> QED BY <2>1, <3>2, <3>3 DEF WorkTypes
  <2> QED BY <1>4, <2>2, <2>3 DEF Has
<1>5. ASSUME NEW x \in Fetcher, NEW f \in Feed, Parsed(x, f) PROVE StoreTypes' /\ WorkTypes'
  <2>1. PICK K \in SUBSET (feed[f] \ Old(feed[f])) :
           /\ work' = [work EXCEPT ![x] = [at |-> "each", feed |-> f, read |-> feed[f], keep |-> K,
                                          todo |-> Old(feed[f]), twt |-> NoTwt]]
           /\ spoilt' = spoilt \cup ((feed[f] \ Old(feed[f])) \ K)
    BY <1>5, ParsedParts
  <2>2. feed[f] \subseteq Twt /\ Old(feed[f]) \subseteq Twt
    BY DEF WorldTypes, Old
  <2>3. StoreTypes'
    BY <1>5, <2>1, <2>2 DEF Parsed, StoreTypes, workRest
  <2> DEFINE w == [at |-> "each", feed |-> f, read |-> feed[f], keep |-> K,
                   todo |-> Old(feed[f]), twt |-> NoTwt]
  <2>4. w \in Task
    BY <2>1, <2>2 DEF Task
  <2>5. work' = [work EXCEPT ![x] = w]
    BY <2>1
  <2> HIDE DEF w
  <2>6. WorkTypes'
    BY <2>4, <2>5 DEF WorkTypes
  <2> QED BY <2>3, <2>6
<1>6. ASSUME NEW f \in Feed, JobReads(f) PROVE StoreTypes' /\ WorkTypes'
  <2> DEFINE w == [AtRest EXCEPT !.at = "each", !.todo = feed[f]]
  <2>1. w \in Task
    BY DEF AtRest, Task, WorldTypes
  <2>2. work' = [work EXCEPT ![Job] = w]
    BY <1>6 DEF JobReads
  <2> HIDE DEF w
  <2>3. WorkTypes'
    BY <2>1, <2>2 DEF WorkTypes
  <2> QED BY <1>6, <2>3 DEF JobReads, StoreTypes, workRest
<1>7. ASSUME NEW t \in Twt, JobLookup(t) PROVE StoreTypes' /\ WorkTypes'
  <2>1. StoreTypes'
    BY <1>7 DEF JobLookup, StoreTypes, workRest
  <2>2. CASE Skip(Job, t)
    BY <2>1, <2>2, SkipTyped DEF Archiver
  <2>3. CASE work' = [work EXCEPT ![Job].at = "has", ![Job].twt = t]
    <3> DEFINE w == [work[Job] EXCEPT !.at = "has", !.twt = t]
    <3>1. work[Job] \in Task
      BY DEF WorkTypes, Archiver
    <3>2. w \in Task
      BY <3>1 DEF Task
    <3>3. work' = [work EXCEPT ![Job] = w]
      BY <2>3, <3>1
    <3> HIDE DEF w
    <3> QED BY <2>1, <3>2, <3>3 DEF WorkTypes
  <2> QED BY <1>7, <2>2, <2>3 DEF JobLookup
<1>8. ASSUME JobEnds PROVE StoreTypes' /\ WorkTypes'
  <2>1. AtRest \in Task
    BY DEF AtRest, Task
  <2> QED BY <1>8, <2>1 DEF JobEnds, WorkTypes, StoreTypes, workRest
<1> QED BY <1>1, <1>2, <1>3, <1>4, <1>5, <1>6, <1>7, <1>8 DEF Archiving

LEMMA ArchiveTyped ==
  TypeOK /\ ArchiveSound /\ [Next]_vars => StoreTypes' /\ WorkTypes'
<1> SUFFICES ASSUME TypeOK, ArchiveSound, [Next]_vars PROVE StoreTypes' /\ WorkTypes'
  OBVIOUS
<1> USE TypeParts
<1>1. CASE Archiving
  BY <1>1, ArchivingTyped
<1>2. CASE Restart
  <2>1. AtRest \in Task
    BY DEF AtRest, Task
  <2>2. WorkTypes'
    BY <1>2, <2>1 DEF Restart, WorkTypes
  <2>3. \A y \in Archiver : work[y].at = "write" => work[y].twt \in Twt
    BY DEF ArchiveSound
  <2>4. StoreTypes'
    BY <1>2, <2>3, Numbers DEF Restart, StoreTypes
  <2> QED BY <2>2, <2>4
<1>3. CASE UNCHANGED <<cache, file, work, restarts, spoilt>>
  BY <1>3 DEF StoreTypes, WorkTypes
<1> QED
  BY <1>1, <1>2, <1>3, Kinds, WorldLeaves, MutesLeave, VisitLeaves DEF vars

-----------------------------------------------------------------------------
(* Muting                                                                  *)

\* A feed is added under one nick, or a nick is given up.
LEMMA MarkAdded ==
  ASSUME NEW c \in Record, Single(c), NEW n \in Nick, NEW f \in Feed, f \notin Hidden(c)
  PROVE  LET d == [c EXCEPT ![n] = f] IN
         /\ d \in Record /\ Single(d)
         /\ Hidden(d) \subseteq Hidden(c) \cup {f}
         /\ Hidden(c) \subseteq Hidden(d) \cup ({c[n]} \ {NoFeed}) /\ f \in Hidden(d)
<1> DEFINE d == [c EXCEPT ![n] = f]
<1>1. d \in Record /\ \A k \in Nick : d[k] = IF k = n THEN f ELSE c[k]
  BY DEF Record
<1> HIDE DEF d
<1>2. f # NoFeed
  BY Numbers
<1>3. \A k \in Nick : c[k] # f
  BY <1>2 DEF Hidden
<1>4. Single(d)
  BY <1>1, <1>3 DEF Single
<1>5. Hidden(d) \subseteq Hidden(c) \cup {f}
  BY <1>1 DEF Hidden
<1>6. Hidden(c) \subseteq Hidden(d) \cup ({c[n]} \ {NoFeed}) /\ f \in Hidden(d)
  BY <1>1, <1>2 DEF Hidden
<1> QED BY <1>1, <1>4, <1>5, <1>6 DEF d

LEMMA MarkTaken ==
  ASSUME NEW c \in Record, Single(c), NEW n \in Nick
  PROVE  LET d == [c EXCEPT ![n] = NoFeed] IN
         d \in Record /\ Single(d) /\ Hidden(d) = Hidden(c) \ {c[n]}
<1> DEFINE d == [c EXCEPT ![n] = NoFeed]
<1>1. d \in Record /\ \A k \in Nick : d[k] = IF k = n THEN NoFeed ELSE c[k]
  BY DEF Record
<1> HIDE DEF d
<1>2. Single(d)
  BY <1>1 DEF Single
<1>3. Hidden(d) = Hidden(c) \ {c[n]}
  BY <1>1 DEF Hidden, Single
<1> QED BY <1>1, <1>2, <1>3 DEF d

LEMMA SaveTyped ==
  ASSUME MuteTypes, MarksSound, NEW m \in Muting, NEW record \in Record, Single(record),
         SetUser(m, record)
  PROVE  /\ muted' = record /\ muting' \in [Muting -> Changing]
         /\ \A k \in Muting : Single(muting'[k].copy)
<1>1. NoMute \in Record /\ Single(NoMute)
  BY DEF NoMute, Record, Single
<1> DEFINE w == [Asleep EXCEPT !.at = "saved"]
<1>2. w \in Changing /\ w.copy = NoMute
  BY <1>1 DEF Asleep, Changing
<1>3. muting' = [muting EXCEPT ![m] = w]
  BY DEF SetUser
<1> HIDE DEF w
<1>4. muting' \in [Muting -> Changing]
  BY <1>2, <1>3 DEF MuteTypes
<1>5. \A k \in Muting : Single(muting'[k].copy)
  BY <1>1, <1>2, <1>3 DEF MuteTypes, MarksSound
<1> QED BY <1>4, <1>5 DEF SetUser

LEMMA LostMarksAre ==
  ASSUME NEW m
  PROVE  /\ Hidden(muting[m].copy) \subseteq Hidden(muted) \cup LostMarks(m)
         /\ Hidden(muted) \subseteq Hidden(muting[m].copy) \cup LostMarks(m)
BY DEF LostMarks

LEMMA MutesHold ==
  ASSUME MuteTypes, MarksSound, Mutes
  PROVE  MuteTypes' /\ MarksSound'
<1> DEFINE Same == wish \ dropped \subseteq Hidden(muted) /\ Hidden(muted) \subseteq wish \cup dropped
<1>1. \A m \in Muting : muting[m].copy \in Record /\ Single(muting[m].copy)
  BY DEF MuteTypes, MarksSound, Changing
<1>2. Same
  BY DEF MarksSound
<1>3. \A c \in Record : Hidden(c) \subseteq Feed
  BY DEF Record, Hidden
<1>4. ASSUME NEW m \in Muting, LoadUser(m) PROVE MuteTypes' /\ MarksSound'
  <2> DEFINE w == [at |-> "loaded", copy |-> muted]
  <2>1. w \in Changing /\ w.copy = muted
    BY DEF MuteTypes, Changing
  <2>2. muting' = [muting EXCEPT ![m] = w] /\ muted' = muted /\ wish' = wish /\ dropped' = dropped
    BY <1>4 DEF LoadUser
  <2> HIDE DEF w
  <2>3. MuteTypes'
    BY <2>1, <2>2 DEF MuteTypes, Single
  <2>4. \A k \in Muting : Single(muting'[k].copy)
    BY <2>1, <2>2 DEF MuteTypes, MarksSound
  <2> QED BY <1>2, <2>2, <2>3, <2>4 DEF MarksSound, Hidden, Single
<1>5. ASSUME NEW m \in Muting, NEW n \in Nick, Unmute(m, n) PROVE MuteTypes' /\ MarksSound'
  <2> DEFINE c == muting[m].copy
             d == [c EXCEPT ![n] = NoFeed]
  <2>1. d \in Record /\ Single(d) /\ Hidden(d) = Hidden(c) \ {c[n]}
    BY <1>1, MarkTaken
  <2>2. SetUser(m, d) /\ wish' = wish \ {c[n]} /\ dropped' = (dropped \cup LostMarks(m)) \ {c[n]}
    BY <1>5 DEF Unmute
  <2>3. c \in Record /\ LostMarks(m) \subseteq Feed
    BY <1>1, <1>3 DEF LostMarks, MuteTypes
  <2>4. /\ Hidden(c) \subseteq Hidden(muted) \cup LostMarks(m)
        /\ Hidden(muted) \subseteq Hidden(c) \cup LostMarks(m)
    BY LostMarksAre
  <2> HIDE DEF c, d
  <2>5. /\ muted' = d /\ muting' \in [Muting -> Changing]
        /\ \A k \in Muting : Single(muting'[k].copy)
    BY <2>1, <2>2, SaveTyped
  <2>6. MuteTypes'
    BY <2>1, <2>2, <2>3, <2>5 DEF MuteTypes, Single
  <2>7. Hidden(muted)' = Hidden(c) \ {c[n]}
    BY <2>1, <2>5 DEF Hidden
  <2>8. Same'
    BY <1>2, <2>2, <2>4, <2>7
  <2> QED BY <2>5, <2>6, <2>8 DEF MarksSound, Single
<1>6. ASSUME NEW m \in Muting, NEW n \in Nick, NEW f \in Feed, Mute(m, n, f)
      PROVE  MuteTypes' /\ MarksSound'
  <2> DEFINE c == muting[m].copy
             lost == IF f \in Hidden(c) THEN {} ELSE {c[n]} \ {NoFeed}
             d == IF f \in Hidden(c) THEN c ELSE [c EXCEPT ![n] = f]
  <2>1. /\ d \in Record /\ Single(d) /\ Hidden(d) \subseteq Hidden(c) \cup {f}
        /\ Hidden(c) \subseteq Hidden(d) \cup lost /\ f \in Hidden(d)
    <3>1. CASE f \in Hidden(c)
      BY <1>1, <3>1
    <3>2. CASE f \notin Hidden(c)
      BY <1>1, <3>2, MarkAdded
    <3> QED BY <3>1, <3>2
  <2>2. /\ SetUser(m, d) /\ wish' = wish \cup {f}
        /\ dropped' = (dropped \cup LostMarks(m) \cup lost) \ {f}
    BY <1>6 DEF Mute
  <2>3. c \in Record /\ LostMarks(m) \subseteq Feed /\ lost \subseteq Feed
    BY <1>1, <1>3 DEF LostMarks, MuteTypes, Record
  <2>4. /\ Hidden(c) \subseteq Hidden(muted) \cup LostMarks(m)
        /\ Hidden(muted) \subseteq Hidden(c) \cup LostMarks(m)
    BY LostMarksAre
  <2> HIDE DEF c, d, lost
  <2>5. /\ muted' = d /\ muting' \in [Muting -> Changing]
        /\ \A k \in Muting : Single(muting'[k].copy)
    BY <2>1, <2>2, SaveTyped
  <2>6. MuteTypes'
    BY <2>1, <2>2, <2>3, <2>5 DEF MuteTypes, Single
  <2>7. Hidden(muted)' = Hidden(d)
    BY <2>5 DEF Hidden
  <2>8. Same'
    BY <1>2, <2>1, <2>2, <2>4, <2>7
  <2> QED BY <2>5, <2>6, <2>8 DEF MarksSound, Single
<1> QED BY <1>4, <1>5, <1>6 DEF Mutes

LEMMA MarksStep == TypeOK /\ MarksSound /\ [Next]_vars => MuteTypes' /\ MarksSound'
<1> SUFFICES ASSUME MuteTypes, MarksSound, [Next]_vars PROVE MuteTypes' /\ MarksSound'
  BY TypeParts
<1>1. CASE Mutes
  BY <1>1, MutesHold
<1>2. CASE UNCHANGED mutes
  BY <1>2 DEF MuteTypes, MarksSound, mutes, Single, Hidden
<1> QED
  BY <1>1, <1>2, Kinds, WorldLeaves, VisitLeaves, ArchivingLeaves, RestartLeaves DEF vars

-----------------------------------------------------------------------------
(* The archive: where the twts of a fetch are                              *)

FilesSound == \A t \in Twt : file[t] = "part" => t \in spoilt \/ Writing(t)

HandsSound ==
  \A x \in Archiver :
    /\ work[x].at \in {"has", "open", "write"} => work[x].twt \in Twt
    /\ work[x].at = "write" => file[work[x].twt] # "none"

\* Every twt that was read is accounted for.
FetchSound(w) ==
  w.at # "idle" =>
    /\ w.feed \in Feed
    /\ \A t \in w.read : t \in w.keep \cup w.todo \cup spoilt \/ file[t] # "none"

LEMMA ArchiveParts ==
  FilesSound' /\ HandsSound' /\ (\A x \in Fetcher : FetchSound(work[x])') => ArchiveSound'
BY DEF ArchiveSound, FilesSound, HandsSound, FetchSound

LEMMA SkipFacts ==
  ASSUME WorkTypes, NEW x \in Archiver, NEW t, Skip(x, t)
  PROVE  /\ work'[x].at = "each" /\ work'[x].feed = work[x].feed /\ work'[x].read = work[x].read
         /\ work'[x].keep = work[x].keep /\ work'[x].todo = work[x].todo \ {t}
         /\ \A y \in Archiver \ {x} : work'[y] = work[y]
BY DEF Skip, WorkTypes, Task

\* A twt is put aside once it has a file.
LEMMA SkipSound ==
  ASSUME WorkTypes, ArchiveSound, NEW x \in Archiver, NEW t \in Twt, Skip(x, t),
         x # Job => work[x].at # "idle" /\ file'[t] # "none",
         \A u \in Twt : file[u] # "none" => file'[u] # "none",
         spoilt \subseteq spoilt'
  PROVE  HandsSound' /\ \A y \in Fetcher : FetchSound(work[y])'
<1>1. /\ work'[x].at = "each" /\ work'[x].feed = work[x].feed /\ work'[x].read = work[x].read
      /\ work'[x].keep = work[x].keep /\ work'[x].todo = work[x].todo \ {t}
      /\ \A y \in Archiver \ {x} : work'[y] = work[y]
  BY SkipFacts
<1>2. HandsSound'
  BY <1>1 DEF HandsSound, ArchiveSound
<1>3. \A y \in Fetcher : y \in Archiver /\ y # Job /\ work[y].read \subseteq Twt
  BY TimelineAssumption DEF Archiver, WorkTypes, Task
<1>4. ASSUME NEW y \in Fetcher PROVE FetchSound(work[y])'
  BY <1>1, <1>3 DEF FetchSound, ArchiveSound
<1> QED BY <1>2, <1>4

\* What the others hold stays sound.
LEMMA OthersSound ==
  ASSUME WorkTypes, ArchiveSound, NEW x \in Archiver,
         \A y \in Archiver \ {x} : work'[y] = work[y],
         \A u \in Twt : file[u] # "none" => file'[u] # "none", spoilt \subseteq spoilt',
         work'[x].at \in {"has", "open", "write"} => work'[x].twt \in Twt,
         work'[x].at = "write" => file'[work'[x].twt] # "none",
         x \in Fetcher => FetchSound(work[x])'
  PROVE  HandsSound' /\ \A y \in Fetcher : FetchSound(work[y])'
<1>1. HandsSound'
  BY DEF HandsSound, ArchiveSound
<1>2. \A y \in Fetcher : y \in Archiver /\ work[y].read \subseteq Twt
  BY DEF Archiver, WorkTypes, Task
<1>3. ASSUME NEW y \in Fetcher, y # x PROVE FetchSound(work[y])'
  BY <1>2, <1>3 DEF FetchSound, ArchiveSound
<1> QED BY <1>1, <1>3

LEMMA OpenSound ==
  ASSUME StoreTypes, WorkTypes, ArchiveSound, NEW x \in Archiver, OpenArchived(x)
  PROVE  ArchiveSound'
<1> DEFINE t == work[x].twt
<1>1. t \in Twt /\ work[x].at = "open"
  BY DEF OpenArchived, ArchiveSound
<1>2. /\ work'[x].at = "write" /\ work'[x].twt = t /\ work'[x].feed = work[x].feed
      /\ work'[x].read = work[x].read /\ work'[x].keep = work[x].keep
      /\ work'[x].todo = work[x].todo
      /\ \A y \in Archiver \ {x} : work'[y] = work[y]
  BY DEF OpenArchived, WorkTypes, Task
<1>3. /\ file'[t] = "part" /\ \A u \in Twt \ {t} : file'[u] = file[u]
      /\ spoilt' = spoilt
  BY <1>1 DEF OpenArchived, StoreTypes
<1> HIDE DEF t
<1>4. FilesSound'
  BY <1>1, <1>2, <1>3 DEF FilesSound, ArchiveSound, Writing
<1>5. x \in Fetcher => work[x].read \subseteq Twt
  BY DEF WorkTypes, Task
<1>6. x \in Fetcher => FetchSound(work[x])'
  BY <1>1, <1>2, <1>3, <1>5 DEF FetchSound, ArchiveSound
<1> QED BY <1>1, <1>2, <1>3, <1>4, <1>6, OthersSound, ArchiveParts

LEMMA WriteSound ==
  ASSUME StoreTypes, WorkTypes, ArchiveSound, NEW x \in Archiver, WriteArchived(x)
  PROVE  ArchiveSound'
<1> DEFINE t == work[x].twt
<1>1. t \in Twt /\ work[x].at = "write" /\ file[t] # "none"
  BY DEF WriteArchived, ArchiveSound
<1>2. Skip(x, t)
  BY DEF WriteArchived
<1>3. /\ \A u \in Twt \ {t} : file'[u] = file[u]
      /\ file'[t] # "none" /\ (file'[t] = "whole" \/ t \in spoilt')
      /\ spoilt \subseteq spoilt'
  BY <1>1 DEF WriteArchived, StoreTypes
<1>4. \A y \in Archiver \ {x} : work'[y] = work[y]
  BY <1>2, SkipFacts
<1>5. FilesSound'
  <2> SUFFICES ASSUME NEW u \in Twt, u # t, file[u] = "part", Writing(u) PROVE Writing(u)'
    BY <1>3 DEF FilesSound, ArchiveSound
  <2>1. PICK y \in Archiver : work[y].at = "write" /\ work[y].twt = u
    BY DEF Writing
  <2> QED BY <1>4, <2>1 DEF Writing
<1> HIDE DEF t
<1> QED BY <1>1, <1>2, <1>3, <1>5, SkipSound, ArchiveParts

\* No step but the two of WriteFile touches a file.
LEMMA FilesKept ==
  ASSUME ArchiveSound, file' = file, spoilt \subseteq spoilt', NEW x \in Archiver,
         work[x].at # "write", \A y \in Archiver \ {x} : work'[y] = work[y]
  PROVE  FilesSound'
<1> SUFFICES ASSUME NEW u \in Twt, Writing(u) PROVE Writing(u)'
  BY DEF FilesSound, ArchiveSound
<1>1. PICK y \in Archiver : work[y].at = "write" /\ work[y].twt = u
  BY DEF Writing
<1> QED BY <1>1 DEF Writing

LEMMA HasSound ==
  ASSUME StoreTypes, WorkTypes, ArchiveSound, NEW x \in Archiver, NEW t \in Twt, Has(x, t)
  PROVE  ArchiveSound'
<1>1. file' = file /\ spoilt' = spoilt /\ work[x].at \in {"has", "each"}
  BY DEF Has
<1>2. CASE file[t] # "none"
  <2>1. Skip(x, t)
    BY <1>2 DEF Has
  <2>2. FilesSound'
    BY <1>1, <2>1, SkipFacts, FilesKept
  <2>3. HandsSound' /\ \A y \in Fetcher : FetchSound(work[y])'
    BY <1>1, <1>2, <2>1, SkipSound
  <2> QED BY <2>2, <2>3, ArchiveParts
<1>3. CASE file[t] = "none"
  <2>1. /\ work'[x].at = "open" /\ work'[x].twt = t /\ work'[x].feed = work[x].feed
        /\ work'[x].read = work[x].read /\ work'[x].keep = work[x].keep
        /\ work'[x].todo = work[x].todo
        /\ \A y \in Archiver \ {x} : work'[y] = work[y]
    BY <1>3 DEF Has, WorkTypes, Task
  <2>2. x \in Fetcher => FetchSound(work[x])'
    BY <1>1, <2>1 DEF FetchSound, ArchiveSound
  <2>3. FilesSound'
    BY <1>1, <2>1, FilesKept
  <2> QED BY <1>1, <2>1, <2>2, <2>3, OthersSound, ArchiveParts
<1> QED BY <1>2, <1>3

LEMMA ParsedSound ==
  ASSUME WorldTypes, StoreTypes, WorkTypes, ArchiveSound, NEW x \in Fetcher, NEW f \in Feed,
         Parsed(x, f)
  PROVE  ArchiveSound'
<1>1. PICK K \in SUBSET (feed[f] \ Old(feed[f])) :
         /\ work' = [work EXCEPT ![x] = [at |-> "each", feed |-> f, read |-> feed[f], keep |-> K,
                                        todo |-> Old(feed[f]), twt |-> NoTwt]]
         /\ spoilt' = spoilt \cup ((feed[f] \ Old(feed[f])) \ K)
  BY ParsedParts
<1>2. x \in Archiver /\ file' = file /\ work[x].at = "idle"
  BY DEF Parsed, Archiver
<1>3. /\ work'[x].at = "each" /\ work'[x].feed = f /\ work'[x].read = feed[f]
      /\ work'[x].keep = K /\ work'[x].todo = Old(feed[f])
      /\ \A y \in Archiver \ {x} : work'[y] = work[y]
  BY <1>1, <1>2 DEF WorkTypes
<1>4. FetchSound(work[x])'
  BY <1>1, <1>3 DEF FetchSound
<1>5. FilesSound'
  BY <1>1, <1>2, <1>3, FilesKept
<1> QED BY <1>1, <1>2, <1>3, <1>4, <1>5, OthersSound, ArchiveParts

\* Whoever has finished has nothing.
LEMMA RestSound ==
  ASSUME WorkTypes, ArchiveSound, NEW x \in Archiver, work[x].at = "each",
         work' = [work EXCEPT ![x] = AtRest], file' = file, spoilt' = spoilt
  PROVE  ArchiveSound'
<1>1. work'[x].at = "idle" /\ \A y \in Archiver \ {x} : work'[y] = work[y]
  BY DEF WorkTypes, AtRest
<1>2. FetchSound(work[x])'
  BY <1>1 DEF FetchSound
<1>3. FilesSound'
  BY <1>1, FilesKept
<1> QED BY <1>1, <1>2, <1>3, OthersSound, ArchiveParts

LEMMA JobSound ==
  ASSUME WorkTypes, ArchiveSound, NEW t \in Twt, JobLookup(t)
  PROVE  ArchiveSound'
<1>1. /\ Job \in Archiver /\ Job \notin Fetcher /\ work[Job].at = "each"
      /\ file' = file /\ spoilt' = spoilt
  BY TimelineAssumption DEF JobLookup, Archiver
<1>2. CASE Skip(Job, t)
  <2>1. FilesSound'
    BY <1>1, <1>2, SkipFacts, FilesKept
  <2> QED BY <1>1, <1>2, <2>1, SkipSound, ArchiveParts
<1>3. CASE work' = [work EXCEPT ![Job].at = "has", ![Job].twt = t]
  <2>1. /\ work'[Job].at = "has" /\ work'[Job].twt = t
        /\ \A y \in Archiver \ {Job} : work'[y] = work[y]
    BY <1>1, <1>3 DEF WorkTypes, Task
  <2>2. FilesSound'
    BY <1>1, <2>1, FilesKept
  <2> QED BY <1>1, <2>1, <2>2, OthersSound, ArchiveParts
<1> QED BY <1>2, <1>3 DEF JobLookup

LEMMA ReadsSound ==
  ASSUME WorkTypes, ArchiveSound, NEW f \in Feed, JobReads(f)
  PROVE  ArchiveSound'
<1>1. /\ Job \in Archiver /\ Job \notin Fetcher /\ work[Job].at = "idle"
      /\ file' = file /\ spoilt' = spoilt
  BY TimelineAssumption DEF JobReads, Archiver
<1>2. work'[Job].at = "each" /\ \A y \in Archiver \ {Job} : work'[y] = work[y]
  BY <1>1 DEF JobReads, WorkTypes, AtRest
<1>3. FilesSound'
  BY <1>1, <1>2, FilesKept
<1> QED BY <1>1, <1>2, <1>3, OthersSound, ArchiveParts

LEMMA RestartSound ==
  ASSUME WorkTypes, ArchiveSound, Restart
  PROVE  ArchiveSound'
<1>1. /\ file' = file /\ \A x \in Archiver : work'[x].at = "idle"
      /\ spoilt' = spoilt \cup {work[x].twt : x \in {y \in Archiver : work[y].at = "write"}}
  BY DEF Restart, AtRest
<1>2. \A t \in Twt : Writing(t) => t \in spoilt'
  BY <1>1 DEF Writing
<1>3. FilesSound'
  BY <1>1, <1>2 DEF FilesSound, ArchiveSound
<1>4. HandsSound'
  BY <1>1 DEF HandsSound
<1>5. \A x \in Fetcher : FetchSound(work[x])'
  BY <1>1 DEF FetchSound, Archiver
<1> QED BY <1>3, <1>4, <1>5, ArchiveParts

LEMMA ArchiveStep == TypeOK /\ ArchiveSound /\ [Next]_vars => ArchiveSound'
<1> SUFFICES ASSUME TypeOK, ArchiveSound, [Next]_vars PROVE ArchiveSound'
  OBVIOUS
<1> USE TypeParts
<1>1. CASE Archiving
  <2>1. ASSUME NEW x \in Archiver, StoreEntry(x) PROVE ArchiveSound'
    BY <2>1, RestSound DEF StoreEntry
  <2>2. ASSUME JobEnds PROVE ArchiveSound'
    BY <2>2, RestSound DEF JobEnds, Archiver
  <2> QED
    BY <1>1, <2>1, <2>2, OpenSound, WriteSound, HasSound, ParsedSound, ReadsSound, JobSound
       DEF Archiving
<1>2. CASE Restart
  BY <1>2, RestartSound
<1>3. CASE UNCHANGED <<file, work, spoilt>>
  BY <1>3 DEF ArchiveSound, Writing
<1> QED
  BY <1>1, <1>2, <1>3, Kinds, WorldLeaves, MutesLeave, VisitLeaves DEF vars

-----------------------------------------------------------------------------
(* The visitor                                                             *)

Lists == Feed \cup {"timeline", "search", "mentions"}

LEMMA PagesEnough ==
  ASSUME NEW S \in SUBSET Twt
  PROVE  /\ Cardinality(S) \in Nat /\ Pages(S) \in Nat
         /\ Pages(S) * PageSize >= Cardinality(S)
         /\ S # {} => Pages(S) > 0
<1>1. IsFiniteSet(S)
  BY Numbers, FS_Subset
<1>2. Cardinality(S) \in Nat /\ (S # {} => Cardinality(S) > 0)
  BY <1>1, FS_CardinalityType, FS_EmptySet
<1>3. ASSUME NEW n \in Nat, NEW k \in Nat, k > 0
      PROVE  LET p == (n + k - 1) \div k IN p \in Nat /\ p * k >= n /\ (n > 0 => p > 0)
  <2> DEFINE m == n + k - 1
  <2> DEFINE p == m \div k
  <2>1. m \in Nat
    BY <1>3
  <2>2. p \in Nat
    BY <1>3, <2>1
  <2>3. k * p > m - k
    BY <1>3, <2>1
  <2> HIDE DEF p
  <2>4. k * p = p * k
    BY <2>2, <1>3
  <2>5. n > 0 => p # 0
    BY <1>3, <2>3
  <2>6. p * k >= n
    BY <1>3, <2>2, <2>3, <2>4
  <2> QED BY <2>2, <2>5, <2>6 DEF p
<1> QED BY <1>2, <1>3, Numbers DEF Pages

Shown(q, page) ==
  {q[i] : i \in {j \in DOMAIN q : (page - 1) * PageSize < j /\ j <= page * PageSize}}

PageRead(pages) == IF visitor.page < pages THEN visitor.page + 1 ELSE pages

Counted(shown) ==
  [t \in Twt |-> IF t \in FilterTwts(shown) /\ visitor.count[t] < 2 THEN visitor.count[t] + 1
                 ELSE visitor.count[t]]

Stayed(twts) == {t \in visitor.stay \cap twts : FeedOf[t] \notin wish \cup dropped}

LEMMA PageFacts ==
  ASSUME VisitorTypes, NEW list \in Lists, NEW twts \in SUBSET Twt, ReadPage(list, twts)
  PROVE  /\ visitor' \in Visitors
         /\ visitor'.at = IF PageRead(Pages(twts)) < Pages(twts) THEN "paging" ELSE "paged"
         /\ visitor'.list = list /\ visitor'.page = PageRead(Pages(twts))
         /\ \E q \in NewestFirst(twts) : visitor'.count = Counted(Shown(q, PageRead(Pages(twts))))
         /\ visitor'.stay = Stayed(twts) /\ visitor'.wished = visitor.wished \cap (wish \ dropped)
         /\ visitor'.came = visitor.came /\ visitor'.went = visitor.went
         /\ visitor'.excuse = visitor.excuse
<1> DEFINE pages == Pages(twts)
           page == PageRead(pages)
           at == IF page < pages THEN "paging" ELSE "paged"
           wished == visitor.wished \cap (wish \ dropped)
<1>1. PICK q \in NewestFirst(twts) :
        visitor' = [visitor EXCEPT !.at = at, !.list = list, !.page = page,
                                   !.count = Counted(Shown(q, page)), !.stay = Stayed(twts),
                                   !.wished = wished]
  BY Zenon DEF ReadPage, Shown, PageRead, Counted, Stayed
<1>2. pages \in Nat
  BY PagesEnough
<1>3. page \in Nat
  BY <1>2 DEF PageRead, VisitorTypes, Visitors
<1>4. Counted(Shown(q, page)) \in [Twt -> 0 .. 2]
  <2> SUFFICES ASSUME NEW t \in Twt PROVE Counted(Shown(q, page))[t] \in 0 .. 2
    BY DEF Counted
  <2>1. visitor.count[t] \in 0 .. 2
    BY DEF VisitorTypes, Visitors
  <2> QED BY <2>1 DEF Counted
<1>5. Stayed(twts) \subseteq Twt /\ wished \subseteq Feed /\ at \in {"paging", "paged"}
  BY DEF Stayed, VisitorTypes, Visitors
<1> DEFINE count == Counted(Shown(q, page))
           stay == Stayed(twts)
<1>6. visitor' = [visitor EXCEPT !.at = at, !.list = list, !.page = page, !.count = count,
                                 !.stay = stay, !.wished = wished]
  BY <1>1
<1>7. /\ page = PageRead(Pages(twts)) /\ count = Counted(Shown(q, PageRead(Pages(twts))))
      /\ at = IF PageRead(Pages(twts)) < Pages(twts) THEN "paging" ELSE "paged"
      /\ stay = Stayed(twts) /\ wished = visitor.wished \cap (wish \ dropped)
  OBVIOUS
<1>8. page \in Nat /\ count \in [Twt -> 0 .. 2] /\ stay \subseteq Twt
  BY <1>3, <1>4, <1>5
<1> HIDE DEF page, at, wished, count, stay, pages
<1>9. visitor' \in Visitors
  BY <1>5, <1>6, <1>8 DEF VisitorTypes, Visitors, Lists
<1>10. /\ visitor'.at = at /\ visitor'.list = list /\ visitor'.page = page /\ visitor'.count = count
       /\ visitor'.stay = stay /\ visitor'.wished = wished
       /\ visitor'.came = visitor.came /\ visitor'.went = visitor.went
       /\ visitor'.excuse = visitor.excuse
  BY <1>6 DEF VisitorTypes, Visitors
<1> QED BY <1>7, <1>9, <1>10

LEMMA ListedTyped ==
  ASSUME StoreTypes, NEW list \in Lists
  PROVE  Listed(list) \subseteq Twt
BY DEF StoreTypes, Lists, Listed, GetAll

LEMMA Visits ==
  Visit => \/ \E list \in Lists : ReadPage(list, Listed(list))
           \/ \E t \in Twt : Arrive(t)
           \/ Lookup \/ AskArchive \/ GetArchived \/ Leave
<1>1. \A f \in Feed : Listed(f) = cache[f]
  BY TimelineAssumption DEF Listed
<1>2. /\ Listed("timeline") = GetAll /\ Listed("search") = GetAll \cap Tagged
      /\ Listed("mentions") = GetAll \cap Mentioning
  BY DEF Listed
<1>3. \A f \in Feed : ProfilePage(f) \/ ExternalPage(f) => f \in Lists /\ ReadPage(f, Listed(f))
  BY <1>1 DEF ProfilePage, ExternalPage, Lists
<1>4. TimelinePage \/ SearchPage \/ MentionsPage => \E list \in Lists : ReadPage(list, Listed(list))
  BY <1>2 DEF TimelinePage, SearchPage, MentionsPage, Lists
<1> QED BY <1>3, <1>4 DEF Visit

LEMMA AwayIs ==
  /\ Away \in Visitors
  /\ Away.at = "idle" /\ Away.page = 0 /\ ~Away.came /\ ~Away.went
  /\ \A t \in Twt : Away.count[t] = 0
BY DEF Away, Visitors

\* Whoever leaves is at no place that promises anything.
LEMMA AwaySound ==
  ASSUME visitor' = Away
  PROVE  VisitorTypes' /\ VisitSound'
<1>1. visitor'.at = "idle" /\ visitor' \in Visitors
  BY AwayIs
<1> QED BY <1>1 DEF VisitorTypes, VisitSound, PermalinkFound

\* The visitor goes on with the same twt.
LEMMA Onwards ==
  ASSUME VisitorTypes, NEW p \in {"has", "get", "missing", "error"},
         visitor' = [visitor EXCEPT !.at = p]
  PROVE  /\ VisitorTypes' /\ visitor'.at = p /\ visitor'.twt = visitor.twt
         /\ visitor'.excuse = visitor.excuse
BY DEF VisitorTypes, Visitors

LEMMA VisitHolds ==
  ASSUME TypeOK, VisitSound, Visit
  PROVE  VisitorTypes' /\ VisitSound'
<1> USE TypeParts
<1>0. file' = file /\ cache' = cache
  BY VisitLeaves
<1>1. ASSUME NEW list \in Lists, ReadPage(list, Listed(list)) PROVE VisitorTypes' /\ VisitSound'
  <2>1. visitor' \in Visitors /\ visitor'.at \in {"paging", "paged"}
    BY <1>1, ListedTyped, PageFacts
  <2> QED BY <2>1 DEF VisitorTypes, VisitSound, PermalinkFound
<1>2. ASSUME NEW t \in Twt, Arrive(t) PROVE VisitorTypes' /\ VisitSound'
  <2>1. /\ visitor' \in Visitors /\ visitor'.at = "lookup" /\ visitor'.twt = t
    BY <1>2, AwayIs DEF Arrive, Visitors
  <2>2. Findable(t)'
    BY <1>0, <1>2 DEF Arrive, Findable, InCache
  <2> QED BY <2>1, <2>2 DEF VisitorTypes, VisitSound, PermalinkFound
<1>3. CASE Lookup
  <2>1. CASE InCache(visitor.twt)
    BY <1>3, <2>1, AwaySound DEF Lookup
  <2>2. CASE ~InCache(visitor.twt)
    <3>1. visitor' = [visitor EXCEPT !.at = "has"]
      BY <1>3, <2>2 DEF Lookup
    <3>2. visitor'.at = "has" /\ visitor'.twt = visitor.twt /\ visitor'.excuse = visitor.excuse
      BY <3>1 DEF VisitorTypes, Visitors
    <3>3. visitor.twt \in Twt /\ (visitor.excuse \/ file[visitor.twt] = "whole")
      BY <1>3, <2>2 DEF Lookup, VisitSound, Findable
    <3>4. VisitorTypes'
      BY <3>1, Onwards
    <3> QED BY <1>0, <3>2, <3>3, <3>4 DEF VisitSound, PermalinkFound
  <2> QED BY <2>1, <2>2
<1>4. CASE AskArchive
  <2> DEFINE p == IF file[visitor.twt] = "none" THEN "missing" ELSE "get"
  <2>1. /\ VisitorTypes' /\ visitor'.at = p /\ visitor'.twt = visitor.twt
        /\ visitor'.excuse = visitor.excuse
    BY <1>4, Onwards DEF AskArchive
  <2>2. visitor.twt \in Twt /\ (visitor.excuse \/ file[visitor.twt] = "whole")
    BY <1>4 DEF AskArchive, VisitSound
  <2> QED BY <1>0, <2>1, <2>2 DEF VisitSound, PermalinkFound
<1>5. CASE GetArchived
  <2>1. CASE file[visitor.twt] = "whole"
    BY <1>5, <2>1, AwaySound DEF GetArchived
  <2>2. CASE file[visitor.twt] # "whole"
    <3>1. /\ VisitorTypes' /\ visitor'.at = "error" /\ visitor'.twt = visitor.twt
          /\ visitor'.excuse = visitor.excuse
      BY <1>5, <2>2, Onwards DEF GetArchived
    <3>2. visitor.excuse
      BY <1>5, <2>2 DEF GetArchived, VisitSound
    <3> QED BY <3>1, <3>2 DEF VisitSound, PermalinkFound
  <2> QED BY <2>1, <2>2
<1>6. CASE Leave
  BY <1>6, AwaySound DEF Leave
<1> QED BY <1>1, <1>2, <1>3, <1>4, <1>5, <1>6, Visits

LEMMA WatchedTyped ==
  ASSUME VisitorTypes, NEW x, NEW v, v = Watched(x)
  PROVE  /\ v \in Visitors
         /\ v.at = visitor.at /\ v.list = visitor.list /\ v.page = visitor.page
         /\ v.count = visitor.count /\ v.stay = visitor.stay /\ v.wished = visitor.wished
         /\ v.twt = visitor.twt
         /\ v.came <=> visitor.came \/ (visitor.at = "paging"
                                       /\ ~(work[x].keep \subseteq cache[work[x].feed]))
         /\ v.went <=> visitor.went \/ (visitor.at = "paging"
                                       /\ cache[work[x].feed] \ work[x].keep # {})
         /\ v.excuse <=> \/ visitor.excuse
                         \/ /\ visitor.twt \in cache[work[x].feed] \ work[x].keep
                            /\ \/ visitor.twt \notin work[x].read \/ visitor.twt \in spoilt
                               \/ Writing(visitor.twt)
<1> DEFINE old == cache[work[x].feed]
           came == visitor.came \/ (visitor.at = "paging" /\ ~(work[x].keep \subseteq old))
           went == visitor.went \/ (visitor.at = "paging" /\ old \ work[x].keep # {})
           excuse == \/ visitor.excuse
                     \/ /\ visitor.twt \in old \ work[x].keep
                        /\ \/ visitor.twt \notin work[x].read \/ visitor.twt \in spoilt
                           \/ \E y \in Archiver : work[y].at = "write" /\ work[y].twt = visitor.twt
<1>1. v = [visitor EXCEPT !.came = came, !.went = went, !.excuse = excuse]
  BY Zenon DEF Watched
<1>2. came \in BOOLEAN /\ went \in BOOLEAN /\ excuse \in BOOLEAN
  BY DEF VisitorTypes, Visitors
<1>3. /\ came <=> visitor.came \/ (visitor.at = "paging"
                                 /\ ~(work[x].keep \subseteq cache[work[x].feed]))
      /\ went <=> visitor.went \/ (visitor.at = "paging"
                                 /\ cache[work[x].feed] \ work[x].keep # {})
      /\ excuse <=> \/ visitor.excuse
                    \/ /\ visitor.twt \in cache[work[x].feed] \ work[x].keep
                       /\ \/ visitor.twt \notin work[x].read \/ visitor.twt \in spoilt
                          \/ Writing(visitor.twt)
  BY Zenon DEF Writing
<1> HIDE DEF came, went, excuse
<1>4. v \in Visitors
  BY <1>1, <1>2 DEF VisitorTypes, Visitors
<1>5. /\ v.at = visitor.at /\ v.list = visitor.list /\ v.page = visitor.page
      /\ v.count = visitor.count /\ v.stay = visitor.stay /\ v.wished = visitor.wished
      /\ v.twt = visitor.twt /\ v.excuse = excuse /\ v.came = came /\ v.went = went
  BY <1>1 DEF VisitorTypes, Visitors
<1> QED BY <1>3, <1>4, <1>5

\* An entry is replaced: the twts that go are in the archive, or excused.
LEMMA StoreHolds ==
  ASSUME TypeOK, ArchiveSound, VisitSound, NEW x \in Archiver, StoreEntry(x)
  PROVE  VisitorTypes' /\ VisitSound'
<1> USE TypeParts
<1>0. PICK t : t = visitor.twt
  OBVIOUS
<1> DEFINE gone == cache[work[x].feed] \ work[x].keep
<1>1. /\ visitor' \in Visitors
      /\ visitor'.at = visitor.at /\ visitor'.twt = t
      /\ visitor'.excuse <=> \/ visitor.excuse
                             \/ t \in gone /\ (t \notin work[x].read \/ t \in spoilt \/ Writing(t))
  BY <1>0, WatchedTyped DEF StoreEntry
<1>2. file' = file /\ x \in Fetcher /\ work[x].at = "each" /\ work[x].todo = {}
  BY DEF StoreEntry, Archiver
<1>3. ASSUME t \in Twt, visitor.at = "lookup", ~visitor'.excuse
      PROVE  Findable(t)'
  <2>1. Findable(t) /\ ~visitor.excuse
    BY <1>0, <1>1, <1>3 DEF VisitSound
  <2>2. CASE file[t] = "whole"
    BY <1>2, <2>2 DEF Findable
  <2>3. CASE file[t] # "whole" /\ t \in gone
    <3>1. t \in work[x].read /\ t \notin spoilt /\ ~Writing(t)
      BY <1>1, <1>3, <2>3
    <3>2. t \in work[x].keep \cup work[x].todo \cup spoilt \/ file[t] # "none"
      BY <1>2, <3>1 DEF ArchiveSound
    <3>3. file[t] # "none" /\ file[t] # "part"
      BY <1>2, <1>3, <2>3, <3>1, <3>2 DEF ArchiveSound
    <3> QED BY <1>3, <2>3, <3>3 DEF StoreTypes
  <2>4. CASE InCache(t) /\ t \notin gone
    <3>1. PICK f \in Feed : t \in cache[f]
      BY <2>4 DEF InCache
    <3>2. cache' = [cache EXCEPT ![work[x].feed] = work[x].keep]
      BY DEF StoreEntry
    <3>3. t \in cache'[f]
      BY <2>4, <3>1, <3>2 DEF StoreTypes
    <3> QED BY <3>1, <3>3 DEF Findable, InCache
  <2> QED BY <2>1, <2>2, <2>3, <2>4 DEF Findable
<1> HIDE DEF gone
<1>4. VisitorTypes'
  BY <1>1 DEF VisitorTypes
<1>5. /\ visitor.at \in {"lookup", "has", "get"} => t \in Twt
      /\ visitor.at \in {"has", "get"} => visitor.excuse \/ file[t] = "whole"
      /\ visitor.at \in {"missing", "error"} => visitor.excuse
  BY <1>0 DEF VisitSound, PermalinkFound
<1>6. visitor'.at = "lookup" => visitor'.excuse \/ Findable(t)'
  BY <1>1, <1>3, <1>5
<1> QED BY <1>1, <1>2, <1>4, <1>5, <1>6 DEF VisitSound, PermalinkFound, Findable, InCache

LEMMA OpenHolds ==
  ASSUME TypeOK, ArchiveSound, VisitSound, NEW x \in Archiver, OpenArchived(x)
  PROVE  /\ VisitorTypes' /\ VisitSound'
         /\ visitor'.at = visitor.at /\ visitor'.list = visitor.list /\ visitor'.page = visitor.page
         /\ visitor'.count = visitor.count /\ visitor'.stay = visitor.stay
         /\ visitor'.wished = visitor.wished
         /\ visitor'.came = visitor.came /\ visitor'.went = visitor.went
<1> USE TypeParts
<1> DEFINE t == work[x].twt
           excuse == visitor.excuse \/ (visitor.twt = t /\ file[t] # "none")
<1>1. visitor' = [visitor EXCEPT !.excuse = excuse] /\ cache' = cache
  BY Zenon DEF OpenArchived
<1>2. excuse \in BOOLEAN
  BY DEF VisitorTypes, Visitors
<1>3. (visitor.excuse => excuse) /\ (visitor.twt = t /\ file[t] # "none" => excuse)
  OBVIOUS
<1>4. t \in Twt /\ file' = [file EXCEPT ![t] = "part"]
  BY DEF OpenArchived, ArchiveSound
<1> HIDE DEF excuse, t
<1>5. VisitorTypes'
  BY <1>1, <1>2 DEF VisitorTypes, Visitors
<1>6. /\ visitor'.at = visitor.at /\ visitor'.list = visitor.list /\ visitor'.page = visitor.page
      /\ visitor'.count = visitor.count /\ visitor'.stay = visitor.stay
      /\ visitor'.wished = visitor.wished
      /\ visitor'.came = visitor.came /\ visitor'.went = visitor.went
      /\ visitor'.twt = visitor.twt /\ visitor'.excuse = excuse
  BY <1>1 DEF VisitorTypes, Visitors
<1>7. ASSUME visitor.twt \in Twt, ~excuse, file[visitor.twt] = "whole"
      PROVE  file'[visitor.twt] = "whole"
  BY <1>3, <1>4, <1>7 DEF StoreTypes
<1>8. VisitSound'
  BY <1>1, <1>3, <1>6, <1>7 DEF VisitSound, PermalinkFound, Findable, InCache
<1> QED BY <1>5, <1>6, <1>8

LEMMA WriteHolds ==
  ASSUME TypeOK, ArchiveSound, VisitSound, NEW x \in Archiver, WriteArchived(x)
  PROVE  VisitSound'
<1> USE TypeParts
<1>1. visitor' = visitor /\ cache' = cache /\ work[x].twt \in Twt
  BY DEF WriteArchived, ArchiveSound
<1>2. \A t \in Twt : file[t] = "whole" => file'[t] = "whole"
  BY <1>1 DEF WriteArchived, StoreTypes
<1> QED BY <1>1, <1>2 DEF VisitSound, PermalinkFound, Findable, InCache

LEMMA OthersLeaveVisitor ==
  Archiving => \/ UNCHANGED <<visitor, cache, file>>
               \/ \E x \in Archiver : OpenArchived(x) \/ WriteArchived(x) \/ StoreEntry(x)
BY DEF Archiving, Has, Parsed, JobReads, JobLookup, JobEnds, workRest

LEMMA VisitStep ==
  TypeOK /\ ArchiveSound /\ VisitSound /\ [Next]_vars => VisitorTypes' /\ VisitSound'
<1> SUFFICES ASSUME TypeOK, ArchiveSound, VisitSound, [Next]_vars
             PROVE  VisitorTypes' /\ VisitSound'
  OBVIOUS
<1> USE TypeParts
<1>1. CASE UNCHANGED <<visitor, cache, file>>
  BY <1>1 DEF VisitorTypes, VisitSound, PermalinkFound, Findable, InCache
<1>2. ASSUME NEW x \in Archiver, WriteArchived(x) PROVE VisitorTypes' /\ VisitSound'
  BY <1>2, WriteHolds DEF WriteArchived, VisitorTypes
<1>3. CASE Visit
  BY <1>3, VisitHolds
<1>4. CASE Restart
  BY <1>4, AwaySound DEF Restart
<1> QED
  BY <1>1, <1>2, <1>3, <1>4, StoreHolds, OpenHolds, OthersLeaveVisitor, Kinds, WorldLeaves,
     MutesLeave DEF vars

-----------------------------------------------------------------------------
(* Where a twt stands on a list                                            *)

\* An untied twt stands at one place in every order the sort may give.
LEMMA RankIs ==
  ASSUME NEW S \in SUBSET Twt, NEW q \in NewestFirst(S), NEW t \in S, ~Tied(t)
  PROVE  /\ DOMAIN q = 1 .. Cardinality(S)
         /\ Rank(t, S) \in DOMAIN q /\ q[Rank(t, S)] = t
         /\ \A i \in DOMAIN q : q[i] = t => i = Rank(t, S)
<1> DEFINE n == Cardinality(S)
           N == {u \in S : DateOf[u] > DateOf[t]}
<1>1. IsFiniteSet(S) /\ n \in Nat
  BY Numbers, FS_Subset, FS_CardinalityType
<1>2. /\ q \in [1 .. n -> S]
      /\ \A i, j \in 1 .. n : i # j => q[i] # q[j]
      /\ \A i, j \in 1 .. n : i < j => DateOf[q[i]] >= DateOf[q[j]]
  BY DEF NewestFirst
<1> HIDE DEF n
<1>3. q \in Injection(1 .. n, S)
  BY <1>2 DEF Injection, IsInjective
<1>4. Cardinality(1 .. n) = n
  BY <1>1, FS_Interval
<1>5. q \in Surjection(1 .. n, S)
  BY <1>1, <1>3, <1>4, FS_Injection DEF n
<1>6. PICK i \in 1 .. n : q[i] = t
  BY <1>5 DEF Surjection
<1>7. \A u \in S : DateOf[u] \in Nat /\ (u # t => DateOf[u] # DateOf[t])
  BY Numbers DEF Tied
<1> DEFINE f == [j \in 1 .. i - 1 |-> q[j]]
<1>8. ASSUME NEW j \in 1 .. i - 1 PROVE q[j] \in N
  <2>1. j \in 1 .. n /\ j < i /\ j # i
    BY <1>1, <1>6, <1>8
  <2> QED BY <1>2, <1>6, <1>7, <2>1
<1>9. ASSUME NEW u \in N PROVE \E j \in 1 .. i - 1 : q[j] = u
  <2>1. PICK j \in 1 .. n : q[j] = u
    BY <1>5, <1>9 DEF Surjection
  <2>2. ~(i <= j)
    BY <1>2, <1>6, <1>7, <1>9, <2>1
  <2> QED BY <1>1, <1>6, <2>1, <2>2
<1>10. f \in Bijection(1 .. i - 1, N)
  <2>1. \A j \in 1 .. i - 1 : j \in 1 .. n
    BY <1>1, <1>6
  <2>2. f \in [1 .. i - 1 -> N]
    BY <1>8
  <2>3. f \in Injection(1 .. i - 1, N)
    BY <1>2, <2>1, <2>2 DEF Injection, IsInjective
  <2>4. f \in Surjection(1 .. i - 1, N)
    BY <1>9, <2>2 DEF Surjection
  <2> QED BY <2>3, <2>4 DEF Bijection
<1>11. Cardinality(N) = i - 1
  <2>1. IsFiniteSet(1 .. i - 1) /\ Cardinality(1 .. i - 1) = i - 1
    BY <1>1, <1>6, FS_Interval
  <2> HIDE DEF N, f
  <2> QED BY <1>10, <2>1, FS_Bijection DEF ExistsBijection
<1>12. Rank(t, S) = i
  BY <1>6, <1>11 DEF Rank
<1>13. DOMAIN q = 1 .. n
  BY <1>2
<1> QED BY <1>2, <1>6, <1>12, <1>13 DEF n

LEMMA RankGrows ==
  ASSUME NEW t, NEW T \in SUBSET Twt, NEW S \in SUBSET T
  PROVE  Rank(t, S) \in Nat /\ Rank(t, S) > 0 /\ Rank(t, T) \in Nat /\ Rank(t, S) <= Rank(t, T)
<1> DEFINE N(U) == {u \in U : DateOf[u] > DateOf[t]}
<1>1. IsFiniteSet(N(T)) /\ IsFiniteSet(N(S)) /\ N(S) \in SUBSET N(T)
  BY Numbers, FS_Subset
<1>2. Cardinality(N(T)) \in Nat /\ Cardinality(N(S)) \in Nat /\ Cardinality(N(S)) <= Cardinality(N(T))
  BY <1>1, FS_Subset, FS_CardinalityType
<1> HIDE DEF N
<1>3. Rank(t, S) = Cardinality(N(S)) + 1 /\ Rank(t, T) = Cardinality(N(T)) + 1
  BY DEF Rank, N
<1> QED BY <1>2, <1>3

\* A page shows the twts whose places it has.
LEMMA ShownAt ==
  ASSUME NEW S \in SUBSET Twt, NEW q \in NewestFirst(S), NEW t \in S, ~Tied(t), NEW page
  PROVE  t \in Shown(q, page) <=> (page - 1) * PageSize < Rank(t, S) /\ Rank(t, S) <= page * PageSize
BY RankIs DEF Shown

-----------------------------------------------------------------------------
(* Reading pages                                                           *)

\* What holds of an untied twt between two pages.
Between(t, S) ==
  /\ visitor.count[t] = 0 => Rank(t, S) > visitor.page * PageSize
  /\ \/ visitor.came
     \/ /\ visitor.count[t] <= 1
        /\ visitor.count[t] = 1 => Rank(t, S) <= visitor.page * PageSize

LEMMA Products ==
  ASSUME NEW m \in Nat, NEW n \in Nat
  PROVE  /\ m * PageSize \in Nat
         /\ m + 1 - 1 = m /\ (m + 1) * PageSize = m * PageSize + PageSize
         /\ m <= n => m * PageSize <= n * PageSize
<1>1. \A k \in Nat : m * k \in Nat /\ (m + 1) * k = m * k + k /\ (m <= n => m * k <= n * k)
  BY Z3
<1> QED BY <1>1, Numbers

\* One more page keeps that, as long as nothing left the list.
LEMMA PageBetween ==
  ASSUME TypeOK, MarksSound, NEW list \in Lists, NEW S, S = Listed(list), ReadPage(list, S),
         NEW t \in Stayed(S), ~Tied(t), ~visitor.went,
         Between(t, S),
         visitor.came \/ visitor.page < Pages(S)
  PROVE  /\ Between(t, S)'
         /\ visitor'.at = "paged" =>
              visitor'.count[t] > 0 /\ (visitor.came \/ visitor'.count[t] <= 1)
<1> USE TypeParts
<1> DEFINE p == visitor.page
           pages == Pages(S)
           page == PageRead(pages)
           r == Rank(t, S)
           old == visitor.count[t]
           new == visitor'.count[t]
<1>1. S \in SUBSET Twt /\ t \in S /\ t \in Twt /\ t \in visitor.stay
  BY ListedTyped DEF Stayed
<1>2. /\ p \in Nat /\ pages \in Nat /\ page \in Nat /\ pages * PageSize >= Cardinality(S)
      /\ Cardinality(S) \in Nat
  BY <1>1, PagesEnough DEF PageRead, VisitorTypes, Visitors
<1>3. old \in 0 .. 2
  BY <1>1 DEF VisitorTypes, Visitors
<1>4. PICK q \in NewestFirst(S) : visitor'.count = Counted(Shown(q, page))
  BY <1>1, PageFacts
<1>5. /\ visitor'.page = page /\ visitor'.came = visitor.came
      /\ visitor'.at = IF page < pages THEN "paging" ELSE "paged"
  BY <1>1, PageFacts
<1>6. r \in Nat /\ r > 0 /\ r <= Cardinality(S)
  BY <1>1, <1>2, <1>4, RankIs, RankGrows
<1>7. t \in Shown(q, page) <=> (page - 1) * PageSize < r /\ r <= page * PageSize
  BY <1>1, <1>4, ShownAt
<1>8. t \in FilterTwts(Shown(q, page)) <=> t \in Shown(q, page)
  BY DEF FilterTwts, MarksSound, Stayed
<1>9. new = IF t \in Shown(q, page) /\ old < 2 THEN old + 1 ELSE old
  BY <1>1, <1>4, <1>8 DEF Counted
<1>10. /\ old = 0 => r > p * PageSize
       /\ visitor.came \/ (old <= 1 /\ (old = 1 => r <= p * PageSize))
  BY DEF Between
<1>11. p * PageSize \in Nat /\ page * PageSize \in Nat /\ pages * PageSize \in Nat
  BY <1>2, Products
<1>12. CASE p < pages
  <2>1. page = p + 1
    BY <1>12 DEF PageRead
  <2>2. (page - 1) * PageSize = p * PageSize /\ page * PageSize = p * PageSize + PageSize
    BY <1>2, <2>1, Products
  <2> HIDE DEF p, pages, page, r, old, new
  <2>3. t \in Shown(q, page) <=> p * PageSize < r /\ r <= page * PageSize
    BY <1>7, <2>2
  <2>4. new = 0 => r > page * PageSize
    BY <1>3, <1>6, <1>9, <1>10, <1>11, <2>3
  <2>5. visitor.came \/ (new <= 1 /\ (new = 1 => r <= page * PageSize))
    BY <1>3, <1>6, <1>9, <1>10, <1>11, <2>2, <2>3, Numbers
  <2>6. ~(page < pages) => new > 0
    <3>1. ~(page < pages) => page = pages
      BY <1>2, <1>12, <2>1
    <3> QED BY <1>2, <1>3, <1>6, <1>9, <1>11, <2>4, <3>1
  <2>7. Between(t, S)'
    <3>1. new = visitor'.count[t] /\ visitor'.page = page /\ visitor'.came = visitor.came
      BY <1>5 DEF new
    <3> QED BY <2>4, <2>5, <3>1 DEF Between, r
  <2> QED BY <1>5, <2>5, <2>6, <2>7 DEF new
<1>13. CASE ~(p < pages)
  <2>1. page = pages /\ pages <= p /\ visitor.came
    BY <1>2, <1>13 DEF PageRead
  <2>2. pages * PageSize <= p * PageSize
    BY <1>2, <2>1, Products
  <2> HIDE DEF p, pages, page, r, old, new
  <2>3. old # 0
    BY <1>2, <1>6, <1>10, <1>11, <2>2
  <2>4. new > 0 /\ new # 0
    BY <1>3, <1>9, <2>3
  <2>5. Between(t, S)'
    BY <1>5, <2>1, <2>4 DEF Between, new
  <2> QED BY <2>1, <2>4, <2>5 DEF new
<1> QED BY <1>12, <1>13

LEMMA ReadingIs ==
  ReadSound <=>
  /\ visitor.at = "idle" =>
       /\ visitor.page = 0 /\ ~visitor.came /\ ~visitor.went
       /\ \A t \in Twt : visitor.count[t] = 0
  /\ visitor.at = "paging" =>
       /\ visitor.list # "none"
       /\ visitor.came \/ visitor.went \/ visitor.page < Pages(Listed(visitor.list))
       /\ \A t \in visitor.stay :
            ~Tied(t) /\ ~visitor.went => Between(t, Listed(visitor.list))
  /\ \A t \in Twt : visitor.count[t] > 0 => FeedOf[t] \notin visitor.wished
BY DEF ReadSound, Between

\* Nobody has read a page, or all.
LEMMA NotReading ==
  ASSUME visitor'.at \notin {"idle", "paging", "paged"},
         \A t \in Twt : visitor'.count[t] > 0 => FeedOf[t] \notin visitor'.wished
  PROVE  ReadSound' /\ PagesTrue'
BY DEF ReadSound, PagesTrue

LEMMA AwayReads ==
  ASSUME visitor' = Away
  PROVE  ReadSound' /\ PagesTrue'
<1>1. /\ visitor'.at = "idle" /\ visitor'.page = 0 /\ ~visitor'.came /\ ~visitor'.went
      /\ \A t \in Twt : visitor'.count[t] = 0
  BY AwayIs
<1> QED BY <1>1 DEF ReadSound, PagesTrue

\* What a page shows is of no feed that has been muted all the while.
LEMMA PageWished ==
  ASSUME TypeOK, MarksSound, ReadSound, NEW list \in Lists, ReadPage(list, Listed(list)),
         NEW t \in Twt, visitor'.count[t] > 0
  PROVE  FeedOf[t] \notin visitor'.wished
<1> USE TypeParts
<1>1. Listed(list) \in SUBSET Twt
  BY ListedTyped
<1>2. PICK q \in NewestFirst(Listed(list)) :
        visitor'.count = Counted(Shown(q, PageRead(Pages(Listed(list)))))
  BY <1>1, PageFacts
<1>3. visitor'.wished = visitor.wished \cap (wish \ dropped)
  BY <1>1, PageFacts
<1>4. CASE visitor.count[t] > 0
  BY <1>3, <1>4 DEF ReadSound
<1>5. CASE ~(visitor.count[t] > 0)
  <2>1. visitor.count[t] = 0
    BY <1>5 DEF VisitorTypes, Visitors
  <2>2. t \in FilterTwts(Shown(q, PageRead(Pages(Listed(list)))))
    BY <1>2, <2>1 DEF Counted
  <2>3. FeedOf[t] \notin wish \ dropped
    BY <2>2 DEF FilterTwts, MarksSound
  <2> QED BY <1>3, <2>3
<1> QED BY <1>4, <1>5

LEMMA PageHolds ==
  ASSUME TypeOK, MarksSound, ReadSound, NEW list \in Lists, ReadPage(list, Listed(list))
  PROVE  ReadSound' /\ PagesTrue'
<1> USE TypeParts
<1>0. PICK S : S = Listed(list)
  OBVIOUS
<1>1. S \in SUBSET Twt /\ S # {} /\ ReadPage(list, S)
  <2>1. S \in SUBSET Twt /\ ReadPage(list, S)
    BY <1>0, ListedTyped
  <2> QED BY <2>1 DEF ReadPage
<1>2. /\ visitor'.at = IF PageRead(Pages(S)) < Pages(S) THEN "paging" ELSE "paged"
      /\ visitor'.list = list /\ visitor'.page = PageRead(Pages(S))
      /\ visitor'.stay = Stayed(S)
      /\ visitor'.came = visitor.came /\ visitor'.went = visitor.went
  BY <1>1, PageFacts
<1>3. Listed(visitor.list)' = S
  BY <1>0, <1>1, <1>2 DEF ReadPage, Listed, GetAll
<1>4. visitor.came \/ visitor.went \/ visitor.page < Pages(S)
  <2>1. CASE visitor.at = "idle"
    BY <1>1, <2>1, PagesEnough DEF ReadSound
  <2>2. CASE visitor.at = "paging" /\ visitor.list = list
    BY <1>0, <2>2 DEF ReadSound
  <2> QED BY <2>1, <2>2 DEF ReadPage
<1>5. ASSUME NEW t \in Stayed(S), ~Tied(t), ~visitor.went PROVE Between(t, S)
  <2>1. t \in Twt /\ t \in visitor.stay
    BY <1>1 DEF Stayed
  <2>2. CASE visitor.at = "idle"
    <3>1. visitor.page = 0 /\ visitor.count[t] = 0
      BY <2>1, <2>2 DEF ReadSound
    <3>2. Rank(t, S) \in Nat /\ Rank(t, S) > 0
      BY <1>1, RankGrows
    <3>3. 0 * PageSize = 0
      BY Numbers
    <3> QED BY <3>1, <3>2, <3>3 DEF Between
  <2>3. CASE visitor.at = "paging" /\ visitor.list = list
    BY <1>0, <1>5, <2>1, <2>3, ReadingIs
  <2> QED BY <2>2, <2>3 DEF ReadPage
<1>6. ASSUME NEW t \in Stayed(S), ~Tied(t), ~visitor.went
      PROVE  /\ Between(t, S)'
             /\ visitor'.at = "paged" =>
                  visitor'.count[t] > 0 /\ (visitor.came \/ visitor'.count[t] <= 1)
  BY <1>0, <1>1, <1>4, <1>5, <1>6, PageBetween
<1>7. \A t \in Twt : visitor'.count[t] > 0 => FeedOf[t] \notin visitor'.wished
  BY PageWished
<1>8. ReadSound'
  <2>1. visitor'.at # "idle" /\ visitor'.list # "none"
    BY <1>2, TimelineAssumption DEF Lists
  <2>2. visitor'.at = "paging" => visitor'.page < Pages(S)
    BY <1>2
  <2>3. \A t \in visitor'.stay : ~Tied(t) /\ ~visitor'.went => Between(t, S)'
    BY <1>2, <1>6
  <2>4. /\ visitor'.at = "paging" => visitor'.page < Pages(Listed(visitor.list)')
        /\ \A t \in visitor'.stay :
             ~Tied(t) /\ ~visitor'.went =>
               /\ visitor'.count[t] = 0 => Rank(t, Listed(visitor.list)') > visitor'.page * PageSize
               /\ \/ visitor'.came
                  \/ /\ visitor'.count[t] <= 1
                     /\ visitor'.count[t] = 1 =>
                          Rank(t, Listed(visitor.list)') <= visitor'.page * PageSize
    BY <1>3, <2>2, <2>3 DEF Between
  <2> QED BY <1>7, <2>1, <2>4 DEF ReadSound, Rank, Pages
<1>9. PagesTrue'
  <2> SUFFICES ASSUME visitor'.at = "paged", NEW t \in visitor'.stay
               PROVE  /\ visitor'.count[t] = 0 => visitor'.went \/ Tied(t)
                      /\ visitor'.count[t] > 1 => visitor'.came \/ visitor'.went \/ Tied(t)
    BY <1>7 DEF PagesTrue
  <2>1. t \in Stayed(S) /\ visitor'.count[t] \in 0 .. 2
    <3>1. visitor' \in Visitors
      BY <1>1, PageFacts
    <3> QED BY <1>2, <3>1 DEF Visitors
  <2> QED BY <1>2, <1>6, <2>1
<1> QED BY <1>8, <1>9

\* An entry is replaced between two pages.
LEMMA StoreReads ==
  ASSUME TypeOK, ReadSound, PagesTrue, NEW x \in Archiver, StoreEntry(x)
  PROVE  ReadSound' /\ PagesTrue'
<1> USE TypeParts
<1> DEFINE f == work[x].feed
           K == work[x].keep
<1>1. /\ visitor'.at = visitor.at /\ visitor'.list = visitor.list /\ visitor'.page = visitor.page
      /\ visitor'.count = visitor.count /\ visitor'.stay = visitor.stay
      /\ visitor'.wished = visitor.wished
      /\ visitor'.came <=> visitor.came \/ (visitor.at = "paging" /\ ~(K \subseteq cache[f]))
      /\ visitor'.went <=> visitor.went \/ (visitor.at = "paging" /\ cache[f] \ K # {})
  BY WatchedTyped DEF StoreEntry
<1>2. cache' = [cache EXCEPT ![f] = K]
  BY DEF StoreEntry
<1>3. \A g \in Feed : cache'[g] = IF g = f THEN K ELSE cache[g]
  BY <1>2 DEF StoreTypes
<1>4. PagesTrue'
  BY <1>1 DEF PagesTrue
<1>5. CASE visitor.at # "paging"
  <2>1. visitor'.at # "paging" /\ (visitor.came <=> visitor'.came) /\ (visitor.went <=> visitor'.went)
    BY <1>1, <1>5
  <2>2. visitor'.at = "idle" =>
          /\ visitor'.page = 0 /\ ~visitor'.came /\ ~visitor'.went
          /\ \A t \in Twt : visitor'.count[t] = 0
    BY <1>1, <2>1, Zenon DEF ReadSound
  <2>3. \A t \in Twt : visitor'.count[t] > 0 => FeedOf[t] \notin visitor'.wished
    BY <1>1 DEF ReadSound
  <2> QED BY <1>4, <2>1, <2>2, <2>3 DEF ReadSound
<1>6. CASE visitor.at = "paging"
  <2>1. PICK list : list = visitor.list
    OBVIOUS
  <2>2. PICK S : S = Listed(list)
    OBVIOUS
  <2>3. PICK T : T = Listed(list)'
    OBVIOUS
  <2>4. list \in Lists
    BY <1>6, <2>1 DEF ReadSound, Lists, VisitorTypes, Visitors
  <2>5. StoreTypes'
    <3>1. K \subseteq Twt
      BY DEF WorkTypes, Task
    <3> QED BY <1>2, <3>1 DEF StoreEntry, StoreTypes, workRest
  <2>6. S \in SUBSET Twt /\ T \in SUBSET Twt
    BY <2>2, <2>3, <2>4, <2>5, ListedTyped DEF Listed, GetAll, Lists, StoreTypes
  <2>7. ~visitor'.went => S \subseteq T
    <3> SUFFICES ASSUME ~visitor'.went PROVE S \subseteq T
      OBVIOUS
    <3>1. \A g \in Feed : cache[g] \subseteq cache'[g]
      BY <1>1, <1>3, <1>6
    <3> QED BY <2>2, <2>3, <2>4, <3>1 DEF Listed, GetAll, Lists
  <2>8. ~visitor'.went /\ ~visitor'.came => T = S
    <3> SUFFICES ASSUME ~visitor'.went, ~visitor'.came PROVE T = S
      OBVIOUS
    <3>1. K = cache[f]
      BY <1>1, <1>6
    <3>2. \A g \in Feed : cache[g] = cache'[g]
      BY <1>3, <3>1
    <3> QED BY <2>2, <2>3, <2>4, <3>2 DEF Listed, GetAll, Lists
  <2>9. /\ list # "none" /\ (visitor.came \/ visitor.went \/ visitor.page < Pages(S))
        /\ \A t \in visitor.stay : ~Tied(t) /\ ~visitor.went => Between(t, S)
    BY <1>6, <2>1, <2>2, ReadingIs
  <2>10. ASSUME NEW t \in visitor.stay, ~Tied(t), ~visitor'.went
         PROVE  /\ visitor.count[t] = 0 => Rank(t, T) > visitor.page * PageSize
                /\ \/ visitor'.came
                   \/ /\ visitor.count[t] <= 1
                      /\ visitor.count[t] = 1 => Rank(t, T) <= visitor.page * PageSize
    <3>1. Between(t, S)
      BY <1>1, <2>9, <2>10
    <3>2. Rank(t, S) \in Nat /\ Rank(t, T) \in Nat /\ Rank(t, S) <= Rank(t, T)
      BY <2>6, <2>7, <2>10, RankGrows
    <3>3. visitor.page * PageSize \in Nat
      BY Products DEF VisitorTypes, Visitors
    <3> QED BY <1>1, <2>8, <2>10, <3>1, <3>2, <3>3 DEF Between
  <2>11. visitor'.came \/ visitor'.went \/ visitor'.page < Pages(T)
    BY <1>1, <2>8, <2>9
  <2>12. Listed(visitor.list)' = T
    BY <1>1, <2>1, <2>3 DEF Listed, GetAll
  <2>13. /\ visitor'.came \/ visitor'.went \/ visitor'.page < Pages(Listed(visitor.list)')
         /\ \A t \in visitor'.stay :
              ~Tied(t) /\ ~visitor'.went =>
                /\ visitor'.count[t] = 0 => Rank(t, Listed(visitor.list)') > visitor'.page * PageSize
                /\ \/ visitor'.came
                   \/ /\ visitor'.count[t] <= 1
                      /\ visitor'.count[t] = 1 =>
                           Rank(t, Listed(visitor.list)') <= visitor'.page * PageSize
    <3>1. visitor'.stay = visitor.stay /\ visitor'.count = visitor.count
          /\ visitor'.page = visitor.page
      BY <1>1
    <3> QED BY <2>10, <2>11, <2>12, <3>1
  <2>14. visitor'.at = "paging" /\ visitor'.list # "none"
    BY <1>1, <1>6, <2>1, <2>9
  <2>15. \A t \in Twt : visitor'.count[t] > 0 => FeedOf[t] \notin visitor'.wished
    BY <1>1 DEF ReadSound
  <2> QED BY <1>4, <2>13, <2>14, <2>15 DEF ReadSound, Rank, Pages
<1> QED BY <1>4, <1>5, <1>6

LEMMA SameReads ==
  ASSUME ReadSound, PagesTrue, cache' = cache,
         visitor'.at = visitor.at, visitor'.list = visitor.list, visitor'.page = visitor.page,
         visitor'.count = visitor.count, visitor'.stay = visitor.stay,
         visitor'.wished = visitor.wished, visitor'.came = visitor.came,
         visitor'.went = visitor.went
  PROVE  ReadSound' /\ PagesTrue'
<1>1. Listed(visitor.list)' = Listed(visitor.list)
  BY DEF Listed, GetAll
<1>2. PagesTrue'
  BY DEF PagesTrue
<1>3. ReadSound'
  BY <1>1 DEF ReadSound, Rank, Pages
<1> QED BY <1>2, <1>3

LEMMA VisitReads ==
  ASSUME TypeOK, MarksSound, ReadSound, Visit
  PROVE  ReadSound' /\ PagesTrue'
<1> USE TypeParts
<1>1. ASSUME NEW t \in Twt, Arrive(t) PROVE ReadSound' /\ PagesTrue'
  <2>1. visitor'.at = "lookup" /\ visitor'.count = Away.count
    BY <1>1, AwayIs DEF Arrive, Visitors
  <2> QED BY <2>1, AwayIs, NotReading
<1>2. ASSUME NEW p \in {"has", "get", "missing", "error"}, visitor' = [visitor EXCEPT !.at = p]
      PROVE  ReadSound' /\ PagesTrue'
  <2>1. visitor'.at = p /\ visitor'.count = visitor.count /\ visitor'.wished = visitor.wished
    BY <1>2 DEF VisitorTypes, Visitors
  <2> QED BY <2>1, NotReading DEF ReadSound
<1>3. CASE Lookup
  BY <1>2, <1>3, AwayReads DEF Lookup
<1>4. CASE AskArchive
  BY <1>2, <1>4 DEF AskArchive
<1>5. CASE GetArchived
  BY <1>2, <1>5, AwayReads DEF GetArchived
<1>6. CASE Leave
  BY <1>6, AwayReads DEF Leave
<1> QED BY <1>1, <1>3, <1>4, <1>5, <1>6, PageHolds, Visits

LEMMA ReadStep ==
  TypeOK /\ MarksSound /\ ArchiveSound /\ VisitSound /\ ReadSound /\ PagesTrue /\ [Next]_vars
    => ReadSound' /\ PagesTrue'
<1> SUFFICES ASSUME TypeOK, MarksSound, ArchiveSound, VisitSound, ReadSound, PagesTrue,
                    [Next]_vars
             PROVE  ReadSound' /\ PagesTrue'
  OBVIOUS
<1>1. CASE UNCHANGED <<visitor, cache>>
  BY <1>1, SameReads
<1>2. ASSUME NEW x \in Archiver, WriteArchived(x) PROVE ReadSound' /\ PagesTrue'
  BY <1>1, <1>2 DEF WriteArchived
<1>3. ASSUME NEW x \in Archiver, OpenArchived(x) PROVE ReadSound' /\ PagesTrue'
  <2>1. cache' = cache
    BY <1>3 DEF OpenArchived
  <2> QED BY <1>3, <2>1, OpenHolds, SameReads
<1>4. CASE Restart
  BY <1>4, AwayReads DEF Restart
<1> QED
  BY <1>1, <1>2, <1>3, <1>4, StoreReads, VisitReads, OthersLeaveVisitor, Kinds, WorldLeaves,
     MutesLeave DEF vars

-----------------------------------------------------------------------------
(* Results                                                                 *)

LEMMA TimelineInit == Init => TimelineInv
<1> SUFFICES ASSUME Init PROVE TimelineInv
  OBVIOUS
<1> USE Numbers
<1>1. NoMute \in Record /\ Single(NoMute) /\ Hidden(NoMute) = {}
  BY DEF NoMute, Record, Single, Hidden
<1>2. WorldTypes /\ StoreTypes
  BY DEF Init, WorldTypes, StoreTypes
<1>3. WorkTypes
  BY DEF Init, WorkTypes, AtRest, Task
<1>4. Asleep \in Changing /\ Asleep.copy = NoMute
  BY <1>1 DEF Asleep, Changing
<1>5. MuteTypes
  BY <1>1, <1>4 DEF Init, MuteTypes
<1>6. VisitorTypes
  BY AwayIs DEF Init, VisitorTypes
<1>7. MarksSound
  BY <1>1, <1>4 DEF Init, MarksSound
<1>8. ArchiveSound
  BY DEF Init, ArchiveSound, AtRest, Archiver
<1>9. VisitSound
  BY AwayIs DEF Init, VisitSound, PermalinkFound
<1>10. ReadSound /\ PagesTrue
  BY AwayIs DEF Init, ReadSound, PagesTrue
<1> QED BY <1>2, <1>3, <1>5, <1>6, <1>7, <1>8, <1>9, <1>10, TypeParts DEF TimelineInv

\* The inductive invariant: marks, archive, visitor and pages.
THEOREM TimelineCorrect == Spec => []TimelineInv
<1>1. TimelineInv /\ [Next]_vars => TimelineInv'
  <2> SUFFICES ASSUME TypeOK, MarksSound, ArchiveSound, VisitSound, ReadSound, PagesTrue,
                      [Next]_vars
               PROVE  TimelineInv'
    BY DEF TimelineInv
  <2>1. WorldTypes' /\ StoreTypes' /\ WorkTypes'
    BY WorldTyped, ArchiveTyped
  <2>2. MuteTypes' /\ MarksSound'
    BY MarksStep
  <2>3. VisitorTypes' /\ VisitSound'
    BY VisitStep
  <2>4. ArchiveSound'
    BY ArchiveStep
  <2>5. ReadSound' /\ PagesTrue'
    BY ReadStep
  <2>6. TypeOK'
    BY <2>1, <2>2, <2>3, Zenon DEF TypeOK, WorldTypes, StoreTypes, Task, WorkTypes, Record,
       Changing, MuteTypes, Single, Visitors, VisitorTypes
  <2> QED BY <2>2, <2>3, <2>4, <2>5, <2>6 DEF TimelineInv
<1> QED BY <1>1, TimelineInit, PTL DEF Spec

\* Types of cache, archive, fetches, marks and visitors (cache.go,
\* archive.go, handlers.go).
THEOREM TimelineTyped == Spec => []TypeOK
<1>1. TimelineInv => TypeOK
  BY DEF TimelineInv
<1> QED BY <1>1, TimelineCorrect, PTL

\* Who reads all pages misses a twt only if others left the list, and sees one
\* twice only if others came or left, ties apart, and nothing of a muted feed
\* (handlers.go:801-858, models.go:387).
THEOREM PagesAreTrue == Spec => []PagesTrue
<1>1. TimelineInv => PagesTrue
  BY DEF TimelineInv
<1> QED BY <1>1, TimelineCorrect, PTL

\* A twt that could be found is found, while it moves from the cache to the
\* archive, but for the losses that are named (handlers.go:882-894,
\* cache.go:294-303).
THEOREM PermalinksFound == Spec => []PermalinkFound
<1>1. TimelineInv => PermalinkFound
  BY DEF TimelineInv, VisitSound
<1> QED BY <1>1, TimelineCorrect, PTL
=============================================================================
