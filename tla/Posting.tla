------------------------------ MODULE Posting ------------------------------
(***************************************************************************)
(* PostHandler for one user's feed: posting, editing and deleting the last *)
(* twt, and the webmentions a post sends.  A feed file is a sequence of    *)
(* lines.  Editing is deleting the last twt, if it is still the one whose  *)
(* hash the page had, and appending the new text; deleting is reading the  *)
(* offset of the last line and truncating the file there.  Reads, the      *)
(* truncation and the append are steps of their own, and requests of the   *)
(* user (two tabs, a double click) run at the same time.                   *)
(*                                                                         *)
(* Abstracted: all lines are taken to be of one length, so that an offset  *)
(* is a number of lines; a twt is its name; other feeds (postas) are in    *)
(* Accounts, the refresh of the cache is in FeedCache.                     *)
(***************************************************************************)
EXTENDS WebMention, SequencesExt

CONSTANTS
  Twt,         \* a subset of Mention: what may be posted
  OldTwts,     \* sequence: the feed before
  Mentions,    \* how many other pods a twt mentions
  Requests,
  NoTwt,       \* no hash, no text, or no twt in an empty feed
  Hole,        \* zeros of a line's length, and no end of a line
  Junk,        \* the text behind them, and the end of that line
  MaxRequests  \* bound: requests in all

ASSUME PostingAssumption ==
  /\ Twt \subseteq Mention /\ OldTwts \in Seq(Twt)
  /\ Mentions \in [Twt -> Nat] /\ MaxRequests \in Nat
  /\ NoTwt \notin Twt /\ Hole \notin Twt /\ Junk \notin Twt /\ Hole # Junk

VARIABLES
  file,      \* the lines of the feed
  req,       \* the requests
  known,     \* twts there are or were, whose hash a page may have
  left,      \* requests that may still come
  disturbed  \* history: requests that found the file changed under them

postingVars == <<webMentionVars, file, req, known, left, disturbed>>
fileVars == <<file, known, left, disturbed>>

LastTwt == IF file = << >> THEN NoTwt ELSE Last(file)

Idle == [at |-> "idle", op |-> "post", hash |-> NoTwt, text |-> NoTwt, offset |-> 0, toSend |-> 0]

PostingInit ==
  /\ WebMentionInit
  /\ file = OldTwts
  /\ req = [r \in Requests |-> Idle]
  /\ known = ToSet(OldTwts)
  /\ left = MaxRequests
  /\ disturbed = {}

NoTwts == {Hole, Junk}

Go(r, at) == req' = [req EXCEPT ![r].at = at]
End(r) == req' = [req EXCEPT ![r] = Idle]

\* Requests other than r that have looked at the file and not yet changed it.
Caught(r) == {o \in Requests \ {r} : req[o].at \in {"again", "truncate"}}

-----------------------------------------------------------------------------
\* The form has a hash when it edits, and may have no text.  The page sends
\* it with DELETE, too, whatever is in it; PATCH only deletes, and looks at
\* neither.
Submit(r) ==
  /\ req[r] = Idle /\ left > 0
  /\ left' = left - 1
  /\ disturbed' = disturbed \ {r}
  /\ \E op \in {"post", "delete", "patch"}, hash \in known \cup {NoTwt},
        text \in (Twt \ known) \cup {NoTwt} :
       /\ op = "patch" => hash = NoTwt /\ text = NoTwt
       /\ req' = [req EXCEPT ![r] = [at |-> IF op = "post" THEN "last" ELSE "first", op |-> op,
                    hash |-> hash, text |-> text, offset |-> 0, toSend |-> 0]]
  /\ known' = known \cup ({req'[r].text} \ {NoTwt})
  /\ UNCHANGED <<webMentionVars, file>>

\* GetLastTwt: a last line that is no twt ends the request, this one and
\* every other.
ReadLast(r) ==
  /\ req[r].at = "last"
  /\ IF LastTwt \in NoTwts THEN End(r)
     ELSE Go(r, IF req[r].hash # NoTwt /\ LastTwt = req[r].hash THEN "again" ELSE "text")
  /\ UNCHANGED <<webMentionVars, fileVars>>

\* Where the handler goes after DeleteLastTwt.
Deleted(q) ==
  CASE q.op = "post"   -> [q EXCEPT !.at = "text"]
    [] q.op = "delete" -> [q EXCEPT !.at = "last", !.op = "post"]
    [] q.op = "patch"  -> Idle

\* DeleteLastTwt reads the last line (again).  When that fails the handler
\* shows an error and goes on.
ReadOffset(r) ==
  /\ req[r].at \in {"first", "again"}
  /\ IF LastTwt \in NoTwts THEN req' = [req EXCEPT ![r] = Deleted(@)]
     ELSE req' = [req EXCEPT ![r].at = "truncate",
                             ![r].offset = IF file = << >> THEN 0 ELSE Len(file) - 1]
  /\ UNCHANGED <<webMentionVars, fileVars>>

\* Mutant: the whole feed is cut.
TruncateAll(r) ==
  /\ req[r].at = "truncate"
  /\ file' = << >>
  /\ disturbed' = disturbed \cup (IF file' # file THEN Caught(r) ELSE {})
  /\ req' = [req EXCEPT ![r] = Deleted(@)]
  /\ UNCHANGED <<webMentionVars, known, left>>

\* Cuts the file at the offset, or fills it up to there when it has become
\* shorter.
Truncate(r) ==
  LET n == req[r].offset IN
  /\ req[r].at = "truncate"
  /\ file' = IF n <= Len(file) THEN SubSeq(file, 1, n)
             ELSE file \o [i \in 1..(n - Len(file)) |-> Hole]
  /\ disturbed' = disturbed \cup (IF file' # file THEN Caught(r) ELSE {})
  /\ req' = [req EXCEPT ![r] = Deleted(@)]
  /\ UNCHANGED <<webMentionVars, known, left>>

\* Without a text the request ends, after an edit's twt has been deleted.
CheckText(r) ==
  /\ req[r].at = "text"
  /\ IF req[r].text = NoTwt THEN End(r) ELSE Go(r, "append")
  /\ UNCHANGED <<webMentionVars, fileVars>>

\* What is written behind a filled up end is one line with it.
AppendTwt(r) ==
  /\ req[r].at = "append"
  /\ file' = Append(file, IF LastTwt = Hole THEN Junk ELSE req[r].text)
  /\ disturbed' = disturbed \cup Caught(r)
  /\ req' = [req EXCEPT ![r].at = "notify", ![r].toSend = Mentions[req[r].text]]
  /\ UNCHANGED <<webMentionVars, known, left>>

\* Mutant: a notification is handed to a loop that still runs.
NotifyLoop(r) ==
  /\ req[r].at = "notify" /\ req[r].toSend > 0
  /\ loop["outbox"] # "spent"
  /\ SendNotification(req[r].text)
  /\ req' = [req EXCEPT ![r].toSend = @ - 1]
  /\ UNCHANGED fileVars

\* One notification for each pod mentioned; then the handler ends.
Notify(r) ==
  /\ req[r].at = "notify" /\ req[r].toSend > 0
  /\ SendNotification(req[r].text)
  /\ req' = [req EXCEPT ![r].toSend = @ - 1]
  /\ UNCHANGED fileVars

Redirect(r) ==
  /\ req[r].at = "notify" /\ req[r].toSend = 0
  /\ End(r)
  /\ UNCHANGED <<webMentionVars, fileVars>>

Handle(r) == \/ ReadLast(r) \/ ReadOffset(r) \/ Truncate(r)
             \/ CheckText(r) \/ AppendTwt(r) \/ Notify(r) \/ Redirect(r)

\* The program ends and is started again: the requests are gone.
Crash ==
  /\ \E b \in Box : Panic(b)
  /\ req' = [r \in Requests |-> Idle]
  /\ disturbed' = {}
  /\ UNCHANGED <<file, known, left>>

PostingNext ==
  \/ \E r \in Requests : Submit(r) \/ Handle(r)
  \/ (Loops \/ \E m \in Mention \ Twt : WebMentionEndpoint(m)) /\ UNCHANGED <<fileVars, req>>
  \/ Crash

\* Handlers and loops are goroutines, and a timer fires.
PostingFairness ==
  /\ \A r \in Requests : WF_postingVars(Handle(r))
  /\ \A b \in Box : WF_postingVars((Take(b) \/ Processed(b)) /\ UNCHANGED <<fileVars, req>>)

PostingSpec == PostingInit /\ [][PostingNext]_postingVars /\ PostingFairness

-----------------------------------------------------------------------------
\* Types, and capacities of the channels.
PostingTypeOK ==
  /\ WebMentionTypeOK
  /\ file \in Seq(Twt \cup NoTwts) /\ known \subseteq Twt
  /\ req \in [Requests -> [at : {"idle", "first", "last", "again", "truncate", "text",
                                 "append", "notify"},
                           op : {"post", "delete", "patch"},
                           hash : Twt \cup {NoTwt}, text : Twt \cup {NoTwt},
                           offset : 0..Len(OldTwts) + MaxRequests, toSend : Nat]]
  /\ left \in 0..MaxRequests /\ disturbed \subseteq Requests

\* A twt leaves the feed only as its last one, by a deletion, or by the edit
\* of a page that showed this twt and no other, and the file gets a hole,
\* behind which no twt can be read and the user cannot post, not at all, unless
\* another request wrote the file between the reading of the offset and the
\* truncation (twt.go:83, 93).
OnlyLastGoes ==
  [][\/ \E r \in disturbed : req[r].at = "truncate" /\ req'[r].at # "truncate"
     \/ /\ \A i \in DOMAIN file : file[i] \in ToSet(file') \cup NoTwts \/
             \E r \in Requests :
               /\ req[r].at = "truncate" /\ req'[r].at # "truncate"
               /\ i = Len(file) /\ (req[r].op # "post" \/ file[i] = req[r].hash)
        /\ Hole \in ToSet(file') => Hole \in ToSet(file)]_postingVars

\* The handler of a post ends unless the outbox is full: it does not wait
\* for other pods.
PostsEnd ==
  \A r \in Requests :
    req[r].at # "idle" ~> (req[r].at = "idle" \/ Len(queue["outbox"]) = Capacity)

\* A mention this pod has answered with "enqueued for processing"
\* (webmention.go:95) is processed: it is not, but for the first.
EnqueuedProcessed ==
  \A m \in Mention : m \in Queued("inbox") ~> (m \in handled["inbox"] \/ panics > 0)
-----------------------------------------------------------------------------
\* What the proofs need: the state a request has read, and what it may do yet.

\* Requests that may still write a line.
Pending == {r \in Requests : req[r].at \notin {"idle", "notify"}}

\* Lines there are or will be; a file is filled up to an offset at most.
Room(n) == n + Cardinality(Pending) + left <= Len(OldTwts) + MaxRequests

\* An edit looks at the page's twt, a truncation cuts the last line.
Fresh(q) ==
  /\ q.op = "post" /\ q.at \in {"again", "truncate"} => LastTwt = q.hash
  /\ q.at = "truncate" => q.offset = (IF file = << >> THEN 0 ELSE Len(file) - 1)

PostingInv ==
  /\ PostingTypeOK
  /\ queue \in [Box -> Seq(Mention)]
  /\ IsFiniteSet(Pending) /\ Room(Len(file))
  /\ \A r \in Requests :
       /\ req[r].at = "first" => req[r].op # "post"
       /\ req[r].at \in {"append", "notify"} => req[r].text # NoTwt
       /\ req[r].at = "truncate" => Room(req[r].offset)
       /\ r \in disturbed \/ Fresh(req[r])
=============================================================================
