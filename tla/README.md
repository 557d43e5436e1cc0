# A formal model of the twtxt pod

TLA+ modules, TLC configurations and TLAPS proofs for the pod server in
`src/internal` (with `src/types`). A pod serves its users' twtxt feeds, fetches the
feeds they follow, and keeps both in a cache; around that are uploads with
background conversion, accounts, sessions, messages and webmentions.

## Inventory

Everything below runs in one process. HTTP handlers run concurrently (one
goroutine per request), cron jobs run beside them, and no lock spans a
read-modify-write of the database or of a file. That is where the hard behaviour
is.

| component | state | operations | interacts with | hard behaviour | what makes it correct |
|---|---|---|---|---|---|
| background tasks: `dispatcher.go`, `worker.go`, `*_task.go` | task queue, worker pool of channels, task map, task state | `Dispatch`, the dispatching goroutine, one courier goroutine per task, workers, `Stop`, `Lookup` + `Result` | upload handlers, `Server.Shutdown`, the client that polls `/task/<id>` | channel hand-over in two hops, stop in the middle, unsynchronised reads of a task | no task lost or run twice, answers to polls are truthful, accepted tasks end |
| feed cache: `cache.go`, `archive.go`, `jobs.go`, `ParseFile` | entry per url (twts, Last-Modified), local timeline, cache file, archive | `FetchTwts`, `GetByPrefix`, `Store`/`LoadCache`, `UpdateFeeds`, `FixMissingTwts` | feed servers (the pod itself for local feeds), post handler, account deletion | conditional requests, redirects, stale answers, two writers per entry, crash and restart | a 304 is only believed when the entry is complete; everything written is found in the end |
| messages: `messages.go`, `messages_cache.go`, `messages_handler.go`, `services.go` | mbox file per user, count of unread messages | send, list, view (marks read), delete, POP3, SMTP | SMTP and POP3 services | files rewritten beside appends, counts kept apart from files | no message lost or doubled, counts agree with files |
| sessions: `session/*`, `session_store.go`, `bitcask_store.go` | sessions in memory and in the database, cookies | create, get, set, delete, expire | every handler, login and logout, `DeleteOldSessions` | requests in flight at logout, memory and database copies | logged out stays logged out |
| login throttle: `ttlcache.go`, `LoginHandler` | failures per user | increase, reset, sweep | handlers, SMTP | limit, lost increments, expiry | a locked account stays locked for the time promised |
| accounts and feeds: `models.go`, `follow_handlers.go`, `mute_handlers.go`, `manage_handlers.go`, `DeleteAllHandler`, `TransferFeed` | users, feeds, followers, ownership | register, create, detach, transfer, follow, unfollow, mute, delete | database, feed files, cache | several writes per operation, each may fail; lost updates of records read earlier | every feed with an owner who exists; followers agree with following |
| posting: `twt.go`, `PostHandler` | feed file, last twt | append, edit, delete last twt | feed cache | truncation computed from a read made earlier | no twt lost, an edit keeps its place |
| webmentions: `webmention/webmention.go` | inbox and outbox channels | send, receive, process | post handlers, other pods | timers, full channels | an accepted mention is processed |
| blogs: `blog.go`, `blogs_cache.go`, `blog_handlers.go` | two files per post, a cache of objects with their text buffers, the cache's file | publish, edit, list, load at the start | posting | one shared buffer per post, files written in two steps, a cache file that is never brought up to date | the last text saved is the one on disk, lists work, what is announced can be edited |
| uploads and avatars: `media_handlers.go`, `utils.go`, `errors.go` | temporary files, media in several formats, avatars as WebP and PNG | receive, dispatch, transcode, convert, download, serve with an ETag | background tasks, settings, fetches | encoder goroutines and a collector nobody waits for, two files under one name, dates of whole seconds | failures are told, formats agree, browsers show the present avatar |
| pages, API reads, muting: `handlers.go`, `api.go`, `conversation_handler.go`, `mute_handlers.go` | `User.Muted`; otherwise what the cache and the archive hold | timeline, profile, search and mentions by page, permalink, conversation, mute, unmute | feed cache, archive | lists sorted anew for each page while fetches replace entries; twts on their way from cache to archive | a reader of all pages misses nothing and sees nothing twice; a twt is found; muted feeds are not shown |
| feed sources, statistics, templates, router, options | - | - | - | I/O, formatting, configuration | - |
| command line client `cmd/twt`, `client/` | configuration file | API calls | API | - | - |

## Plan

1. `TaskService`, `Dispatcher`: the abstract service and the implementation; refinement proved. *Done.*
2. `FeedCache`: cache, jobs, posts, deletion, restarts; its safety invariant proved. *Done.*
3. `Mailbox`: mbox files, the unread counts, SMTP. *Modelled, checked and proved.*
4. `Sessions`: sessions in memory, in the database and as copies, login, logout, the throttle. *Modelled, checked and proved.*
5. `Accounts`: users, feeds, followers, the jobs `FixUserAccounts` and `FixFollowers`. *Modelled, checked and
   proved;* to come: what the loss of an
   update costs (registration twice, a deleted account that comes back), each as a
   refuted property.
6. `WebMention` (one-shot timers, full channels) and `Posting` (edit and delete the
   last twt at an offset read earlier), composed: a post sends the mentions. *Modelled,
   checked and proved;* to come: the dates of edited twts (`AppendTwt` promises to preserve them).
7. `Uploads`: what a dispatched task does with its encoders, and avatars. *Modelled, checked and proved.*
8. `Blogs`: posts, their files and their cache. *Modelled, checked and proved.*
9. `Timeline`: what readers see of cache and archive, and muting. *Modelled, checked and proved.*
10. Proofs: every invariant and every action property the passing runs check has a theorem; liveness stays with TLC. *Done.*

Abstract specifications worth stating beyond `TaskService`: a mailbox as a set of
messages (each delivered once, gone only when deleted), a session as a lease, an
account registry in which a name is taken once.

## Dispatcher (`TaskService`, `Dispatcher`, `DispatcherMC`, `DispatcherProofs`)

`Dispatcher` has one action per channel operation or unsynchronised access of the
code. A handler goes through `CheckActive` (the test of `active`), `Enqueue` (the
send on `taskQueue`, which blocks when it is full), `Register` (`taskMap`). `LoopTake`
is the dispatching goroutine's receive; the courier goroutine it starts takes a
channel from the pool (`CourierTake`) and hands the task over (`Deliver`), which
is a rendezvous with the worker, since task channels are unbuffered. A worker
announces itself (`Announce`), runs (`Succeed`, `Break`) and ends the task
(`Done`: the deferred `BaseTask.Done`). `Stop` is two steps: `StopWorkers` (clear
`active`, start the quit goroutines) and `StopLoop` (the rendezvous on `d.quit`);
`Quit` is a worker's rendezvous with its quit goroutine. A client's poll reads the
state first and error and data later (`PollState`, `PollRest`).

Abstracted: what a task does (it succeeds or fails), its id and its data other
than `mediaURI`. `FuncTask` (`DispatchFunc`, used by the tests only) returns an
error without recording it: it ends "complete", and the model keeps that.

`TaskService` is what the pod promises: a task is accepted or refused once, begun
at most once, and ends at most once. `ImplementsTaskService` maps the dispatcher's
state to it (`TaskStatus`).

| run | what it shows | bounds |
|---|---|---|
| `dispatcher` | types and capacities, a task in one place, a channel in one place, honest replies, refinement; every accepted task ends unless the pod is stopped; a stop ends every worker and the loop | 2 upload tasks and a function, 2 workers, queue of 1, one poller, a stop at any time. One task more than the queue holds and as many as workers plus one: handlers block, couriers compete, workers idle |

`Stop` promises less than its comment (`dispatcher.go:63`, "ends execution for all
workers and closes all channels") suggests: it leaves one quit goroutine per worker behind and
returns, and a worker that may choose between a task and quit begins the task. The
model does so too; `StopEndsWorkers` is what remains true, that all of them end.

`CHECK_DEADLOCK FALSE`: a pod that has been shut down does nothing more.
Fairness is weak, per goroutine and per hand-over: Go's scheduler is fair to
runnable goroutines and `select` chooses among ready cases at random; nothing is
assumed of handlers (clients need not come) or of `Stop` being called.

Proved (`DispatcherProofs`), for every set of tasks and workers and every queue
length, from `DispatcherAssumption` alone: `TypeOK`, `TaskInOnePlace`,
`ChannelInOnePlace`, `HonestReply`, and `Spec => ImplementsTaskService`. The
inductive invariant is `DispatchInv` = these three invariants with `WorkerBusy`
(a worker has a current task exactly while it runs or finishes one): without it
`Done` could end a task that is still in the queue. `ResultInv` adds what a
finished task's error and data say, which `HonestReply` needs. One lemma per
invariant goes through the actions; `ServiceStep` shows that each action maps to
one step of the service or to a stutter.

## Feed cache (`FeedCache`, `FeedCacheMC`, `FeedCacheProofs`)

A twt is a name with the second it was written in. A feed file is its set of twts
and the second of its last change, which is all that `Last-Modified` says.
`FetchTwts` is modelled per goroutine: `Ask` reads the entry's date, `AnswerDate`
is the server comparing it with the file's (`TwtxtHandler` takes `ModTime` first),
`AnswerBody` the reading of the file, `Parse` is `ParseFile` with the archiving of
old twts, `StoreEntry` the assignment under the lock, `NotModified` the 304 case,
with its unchecked dereference. The post handler's goroutine and the job's
goroutine for the same feed run these steps independently. `GetByPrefix` gathers
and stores under two separate locks, so both the handler (`PostGather`,
`PostRefresh`) and the job (`JobGather`, `JobRefresh`) take two steps.
`EncodeRace` is the encoding of the map without its lock while another goroutine
writes it, which the Go runtime answers by ending the program. `Restart` loads
the last cache file, or none when it was being written.

Abstracted: the text of twts and their hashes (names), the wording of requests,
time within a second, other request failures than one outcome (`FetchFails`),
avatars, metrics. `DeleteEntry` does the deletion from the cache and the refresh in
one step; the race between gathering and storing is already there with posts and
job. Local requests do not fail: the pod asks itself. Feed files only grow, apart
from deletion.

| run | what it shows | bounds |
|---|---|---|
| `feedcache` | `TypeOK` with the limit of entries, `DateCoversEntry` | one local feed, 2 posts, job; 3 seconds with a TTL of 1, limit of 1: twts get old, displaced and share seconds |
| `feedcache_live` | `CrashNeedsRace`, `Converges` | a local feed that may be deleted and a remote one that may move, one twt each, 2 seconds, TTL 0 (all twts stay in the cache). Without a restart: `feedcache` has the dates, and what a restart loses the proof covers |
| `feedcache_own_post` | *violated*: `OwnPostShown`, the comment at `handlers.go:780` | one feed, 2 posts, 2 seconds |

`DateCoversEntry` is what makes a 304 trustworthy: whatever was written in a second
*before* the date of an entry is in the entry, archived, or displaced by the
limit. Twts of the same second as the date are the gap that `OwnPostShown` falls
into.

Fairness: weak for each step of a goroutine, for cron's jobs (they are started
again for ever) and for the restart of a crashed pod. Servers elsewhere may fail
to answer but not every time (strong fairness of their answers). `Converges` is
conditional on feeds that have not moved and whose deletion has not begun, and on a pod that in the end stays up: no
fairness can keep `EncodeRace` or the dereference of a missing entry from happening
again and again.

Proved (`FeedCacheProofs`), for any feeds, twts, limit, TTL, number of seconds and
of restarts, from `FeedCacheAssumption` (among others: no two feeds move to the
same place, so that an entry belongs to one feed): `TypeOK` and `DateCoversEntry`.
The inductive invariant `CacheInv` carries the truth of a date from the answer to
the entry: when a body has been read after the date was taken it has every line
of an earlier second (`AnswersCovered`, position "parsing"); `ParseFile` splits it
into kept, archived and displaced twts ("archived"); the entry inherits that, and
so does the cache file (`EntriesCovered` of `cache` and of `saved.cache`), from which
a restart takes it back. `FilesDated` gives that a line written later bears a
second that no date taken earlier exceeds. `WorldStep` collects what a step does
to clock, files and archive, and `CoversMonotone` is the one place that argues why
a covered entry stays covered.

`CrashNeedsRace` rests on another invariant, `AwaitInv`: as long as no feed has moved and no deletion
has begun, an entry that a goroutine asked about stays (`EntriesAwaited`), since entries go only with a
deletion or with a restart, which ends the goroutine. It assumes also that "no entry" is not an entry
(`NoEntryAssumption`).

## Messages (`Mailbox`, `MailboxMC`, `MailboxProofs`)

One user's mbox. The file is a sequence of lines (a message and whether it is marked as read)
under an inode, and the names `<user>` and `<user>.new` stand for inodes: a
sender that has opened the file writes to what it opened, whatever the name
means by then. `Open`, `Write`, `Inc` are the sender (web form or SMTP), `List` and `Ask`
the page and what is picked on it, by position; `OpenBox`, `OpenNew`, `Copy`,
`CopyFails`, `CopyEnds`, `Swap`, `Dec` the rewriting that both viewing (mark as read) and
deleting do: copy line by line into `<user>.new`, which is opened for appending
and never truncated, then rename. `CopyFails` is a message whose date cannot be
parsed: the rewriting ends and leaves `<user>.new` behind. `Restart` may
come at any time and recounts the unread messages.

Two history variables name what goes wrong in a known way: `fouled` (two
rewritings met, or one found a `.new` left behind) and `misses` (the count is
taken off for messages that were not unread).

| property | what it says |
|---|---|
| `NothingDoubled` | no message twice in the box unless it is fouled |
| `BadgeCoversUnread` | the count is never below the number of unread messages but by the misses; deletions leave it too high |
| `OnlyChosenGo` | a message goes only because a request was sent from a page that showed it where it stood, or by a meeting of requests, or appended to a file already copied |
| `NothingComesBack` | a deleted message or a message marked as read does not come back unless the box is fouled |

Run `mailbox`: 2 letters and a mail with a bad date, 2 requests at a time and 2 in
all, one crash, 6 inodes; requests are symmetric. Two requests are what it takes for two
rewritings, or a rewriting and a sender, to meet; the crash supplies the `.new` left behind. Each
excuse in the properties was checked to be needed: without it TLC finds the loss.

Abstracted: appending is one step (the mbox library writes it so); a mail to several
recipients is one sender per recipient; the POP3 service changes nothing.

Proved (`MailboxProofs`), for any finite sets of messages and requests, any files and any number of requests and
crashes, from `MailboxAssumption`: `TypeOK`, `NothingDoubled`, `BadgeCoversUnread`, `OnlyChosenGo` and
`NothingComesBack`, so every property of the run. The inductive invariant is `MailInv`. `FilesSound` holds always: a message
that is in a file was written there by its sender, and nobody but rewriters writes to `<user>.new`; this is
why an appended message is never there already. The rest holds until the box is fouled. `RewriteSound` says that a rewrite
is alone, reads the mailbox and writes `<user>.new`, and `CopySound` what it has made of the lines before its position: the
messages it should keep, each once, at least as read, and in place if it has skipped none; `CopySkips` and
`CopyKeeps` are one more line, `CopyBehind` is a sender that appends meanwhile. `PageSound` has the positions a page
shows, for `OnlyChosenGo`: by `KeptInPlace` a rename after which nothing is gone moved nothing. `CountSound` has the count
with the requests that are about to take one off it: by `ReadMore` a view that marked a message left one
less to read. `MailboxChanges` lists what a step can do to the mailbox, and both action properties follow from it.

## Sessions and login throttle (`Sessions`, `SessionsMC`, `SessionsProofs`)

A session lives as an object shared by requests (the memory cache), as a record in the
database, and as the copy a request loaded when the cache had none. `Begin` is `GetOrCreate`;
`Set` and `Kept` are `SyncSession` of either store: the shared object is changed in place and
only sessions that are persistent go to the database. Login is
`CheckLocked`, `WrongPassword` and `Count` (`TTLCache.Inc` reads and writes apart),
`RightPassword`, `SetUsername`, `SetPersist`; logout is `LogoutDb`, then `LogoutCached`. Time has no clock: `Expire`,
`Uncache`, `FailuresOver` say that a duration has passed, and the janitors (`DeleteOld`,
`Sweep`) come after it.

| property | what it says |
|---|---|
| `OnlyRememberedPersist` | no session is in the database whose user did not ask to be remembered |
| `RememberedStaysIn` | who asked to be remembered stays in the database until logout or expiry, through the cache's TTL, restarts and requests that write back the copy they loaded |
| `LockDeserved` | the count of failures is never above the failures there were |
| `LogoutHolds` | after a logout nobody is logged in by that session except through a request that was already under way |

Run `sessions`: 1 user, 2 session ids, 2 requests at a time and 4 in all, one restart, a limit
of one failure; the two sessions are symmetric. Two sessions tell a logout of one from the
other, and share the user's lock. Every property is one of safety, and no fairness is assumed.

Abstracted: signatures of ids and cookies; `MemoryStore`, which no pod uses; the API's
throttle is a second instance of the same code.

Proved (`SessionsProofs`), for any users, sessions, requests and any limit of failures, from `SessionsAssumption`: `TypeOK`,
`OnlyRememberedPersist`, `RememberedStaysIn`, `LockDeserved` and `LogoutHolds`, so every property of the run. The
inductive invariant `SessionInv` adds three parts. `StoreSound`: every copy that may be stored to persist has a user, the shared
object, the copies of requests, and what a login goes on with. `LogoutSound`: a session being deleted has left the database
first, so that who finds it in the cache no longer finds it afterwards in either place, unless a request stored it since
(`revived`). `CountSound`: a failure that is being counted happened after the count was read.

## Accounts, feeds and followers (`Accounts`, `AccountsMC`, `AccountsProofs`)

A record is the feeds a user owns, the nicks followed with the names they stand for, and the
followers. Every handler loads its user's record when it comes (`Load`, `Arrive`), changes the copy, and
saves it whole (`SaveOwn`); following, unfollowing, archiving and transferring then do the same to a
second record. Registration and `CreateFeed` test the database, then the file, then write
the file, then save (`RegisterCheck`, `StatName`, `WriteFile`, `RegisterSave`, `FeedSave`); deletion
goes feed by feed (`DeleteFeed`, `DeleteFile`) and ends with `DeleteAccount`. `ManageArrive` and `ManageSave` are
the form of a feed, which saves the feed's record as it was when the request came. `FixUserAccounts` is
the job that runs at the start and every hour: it loads the admin's record, makes the special feed's file when there
is none (`FixFile`), saves its record anew over whatever is there (`FeedSave`), and saves the admin's record (`FeedSaveOwn`).
`FixFollowers` loads all records, adds the followers each lacks, and saves each whether it changed or not; what it does to one record
(`FixFollowersArrive`, `FixFollowersSave`) is one request of the model. It does not overlap `FixUserAccounts`: the start runs its jobs one after the other.
`Restart` cuts everything off.

Lost updates are real and common here: any two requests of one user, or of a user and a
follower, can undo each other. The history variable `hurt` holds the names whose record was
overwritten by a copy made before another request changed it, that two requests made at
once, or that a restart left half way, and those on which two deletions of one account met (a feed that
another deletion has already deleted, or has yet to delete: `Doomed`); `astray` the pairs that legal calls drive apart for good. The
properties say that these are the *only* ways:

| property | what it says |
|---|---|
| `NamesTaken` | a name has a file exactly when it is a user's or a feed's, and is never both |
| `FeedsOwned` | a feed has one owner unless archived, through creation, transfers (also to oneself) and deletions |
| `FollowersAgree` | followers and following agree; `astray` collects nicks used again, imports, second nicks, accounts made again, a follow and an unfollow that cross, followers the hourly job forgets |

Run `accounts`: two users and a free name, one of the users the admin and the free name a special feed's, 3 requests, 2 at a time, one restart (while a request is under way). Three requests are
creation, transfer and a second transfer or deletion; two at a time is what every lost update needs.
The limit on feeds (`MaxFeeds`) is not reached with three names.

Proved (`AccountsProofs`), for any names, requests, numbers of requests and restarts and any `MaxFeeds`, from
`AccountsAssumption` (the admin and the special feed have names): `TypeOK`, `NamesTaken`, `FeedsOwned` and `FollowersAgree`. Between two saves the last
three are broken by design, so that each invariant says of every name who is at work on it. `NamesInv`: `Held` is the property
with its exceptions named (a file without a record has a request that is `Making`, `Fixing` or `Emptying` the name, a user without a
file one that is `Closing` the account); `Made` says that one request at a time makes a name, and only one that is
nobody's; `GivenUp` that what is being deleted is there until its turn comes and that one request deletes it. `FeedsInv`: `Owned` says that
nobody shares a feed, and that a feed without owner was archived or has a request before the second of its two saves (`Starting`,
`Mending`, `Moving`), alone; `Dealt` that a feed of an account under deletion is on the list of what is still to delete for as long as it is
there, which makes the last step, the deletion of the account, orphan nothing. Most steps concern no name between two steps
(`Quiet`, `Calm`); each of the others has a lemma. `AccountsTyped`, `NamesAreTaken` and `FeedsAreOwned` follow. `FeedsInv` is
inductive given `NamesInv`: only that says that an account under deletion is not also a feed.

`FollowersDoAgree` rests on `FollowsInv`. `Paired` says of two names that a user who follows without being listed has a follow
that has saved its own record and is on its way to tell the other (`Telling`), and one who is listed without following an unfollow
or an archiving; `Saved` that what such a request has saved still stands in its own record; the rest that whoever creates a feed lists
itself before it follows, so that no other save can come between. The step that needs the other invariants is the archiving: it
drops the feed from its owner's record, and only `FeedsInv` says that a feed whose creation is half way has no owner to do that, only
`NamesInv` that the name is not a user's as well. What the invariant cannot say of a pair is what `hurt` and `astray` set aside.

The proofs reach beyond the run: with three requests TLC does not meet two deletions of one account of which the second comes
late in the first, with the account and its feed made again in between, so that the first deletes the new account and
leaves the new feed without owner. It takes five requests, and is among the meetings that `hurt` records (`DeleteArrive`,
`DeleteFeed`, `DeleteAccount`).

Not modelled: following feeds of other pods (they touch the own record only, as
`SettingsSaveOwn` does), the posts of the bots and their feeds, which have no owner.

## Posting and webmentions (`WebMention`, `Posting`, `PostingMC`, `WritingProofs`)

`WebMention` has the inbox and the outbox: `Send` is the send on a buffered channel, used by
another pod's request (`WebMentionEndpoint`) and by a post (`SendNotification`); each loop
ranges over the channel of a timer that fires once, takes a mention (`Take`), processes it
(`Processed`), or ends the program because a request failed and the log line asks the
missing response for its status (`Panic`).

`Posting` extends it with `PostHandler` on one user's feed, a sequence of lines. `Submit` takes
the form's method, hash and text; `ReadLast` is the handler's `GetLastTwt`, `ReadOffset` and
`Truncate` are `DeleteLastTwt`, `AppendTwt` the write, `Notify` one webmention. Offsets are
numbers of lines. A truncation beyond the end fills the file with zeros (`Hole`); what is
appended there is one line with them (`Junk`), and every read of such a last line fails.
`disturbed` (history) holds the requests that found the file changed between looking and truncating.

| property | what it says |
|---|---|
| `OnlyLastGoes` | a twt leaves the feed only as the last one, deleted or edited from a page that showed it, unless the file changed before the truncation; zeros get into it only by such a truncation |
| `PostsEnd` | a post ends unless the outbox is full: it does not wait for other pods |

Run `posting`: a feed of two twts, two requests with two new texts, one of which mentions
three pods, a mention by another pod, channels of one, one panic. Two old twts and a
`DELETE` that goes on to an edit shorten the file twice, which is what a hole takes; three
notifications and a channel of one fill the outbox for good. Fairness is weak, for handlers
that have begun and for the loops (a timer fires). Run `webmention` (*violated*:
`EnqueuedProcessed`, what `webmention.go:95` logs): two mentions by other pods.

Abstracted: all lines are of one length; other feeds the user posts to; the text, and whether a
fetched page names this pod; the dates of twts.

Proved (`WritingProofs`, which extends `Posting` and `Blogs`, what users write: hence names such as `PostingNext`), for any old
feed, texts, mentions, requests, capacity and bounds, from `PostingAssumption` and `WebMentionAssumption` (old twts are twts, and holes
are not): `PostingTypeOK` and `OnlyLastGoes`. The invariant `PostingInv` says
two things. `Fresh`: a request that found the file unchanged since it looked has the offset of what is still the last line, and an edit
goes on only while that line is the page's twt; every write counts all who have looked among those disturbed (`Caught`), so
that no write escapes it. `Room`: the lines of the file, the requests that may write one and those that may come never exceed the bound,
and neither does an offset with them: that keeps a file filled up to an old offset, and so `PostingTypeOK`, within the bound. Only two steps
write: `AppendTwt` adds a line, which is no hole, and `Truncate` at such an offset takes the last (`TruncateTakesLast`). `PostsEnd` needs fairness
and stays with TLC.

## Uploads and avatars (`Uploads`, `UploadsMC`, `UploadsProofs`)

`Receive` is `ReceiveImage` and its siblings: a temporary file, which stays when it is not what it should be.
`Dispatch` hands it over to `Dispatcher`'s tasks. `StartEncoders`, `Encode` and `RunCmd`, `Collect`, `CountError`, `NoteError`,
`CollectorEnds`, `Wait` and `CheckErrors` are `TranscodeVideo` and `TranscodeAudio`: one goroutine per format, a collector that
receives their errors on a channel without a buffer, counts and then notes each, and a task that waits for the encoders
and not for the collector. `nErrors` and `finalErr` are read as the collector has left them. The hand-over of the *next* error
orders all but the last count before the read, so the model has no more outcomes than the interleavings.
`Decode`, `OpenOutput`, `EncodeWebP`, `HeadOfPng`, `TailOfPng` are `ProcessImage` under one name: the WebP file is opened without truncation
and the PNG made of it as it is by then. `Revalidate` and `CopyPicture` are a browser with `AvatarHandler`: the date first, then the content.

| property | what it says |
|---|---|
| `FailuresTold` | a task says that all went well only if at most one encoder failed; one that fails says why, unless that was the one error not yet noted, and blames no timeout that did not happen |
| `EncodersEnd` | a task that has begun to transcode ends: no encoder waits for a collector that has left |
| `FormatsAgree` | WebP and PNG show one picture, whole, once nobody writes them, unless the last uploads met, failed or were cut off |
| `FreshUnlessTwice` | a browser that is told "not changed" has the present avatar, unless the file was written twice in one second |

Run `uploads`: 2 uploads, 2 encoders, 2 seconds, one crash. Media have names of their own and never meet an
avatar, so `place` splits the run into three cases: media, an avatar that is uploaded, the avatar of a feed elsewhere. Two encoders
are the least with which a failure can be missed and another told; two uploads the least that meet on one name. Fairness is weak, for the
goroutines of a task: an encoder that takes too long is killed (`RunCmd`). *One* missed failure is real: the property says how much is certain.

Abstracted: codecs and sizes; a picture is the upload that wrote it; the length of files (a smaller picture over a larger one leaves
bytes behind which decoders ignore). An image among the media is `ProcessImage` under a new name, which meets nobody.

Proved (`UploadsProofs`), for any uploads, any finite set of encoders and any number of seconds and crashes, from
`UploadsAssumption`: `TypeOK`, `FailuresTold`, `FormatsAgree` and `FreshUnlessTwice`. In the inductive invariant `UploadsInv`,
`TaskSound` counts: the errors the collector has taken over are those it has counted and the one in its hand, and
the error it notes is one of them. As encoders end only once their error is taken over, a task that reads "no error" has at
most the one in the hand. `PictureSound` says that an avatar that is not hurt has one writer, and what it has
written so far; `DateSound` that a browser's date is not later than the file's, nor this later than the clock.

## Blogs (`Blogs`, `BlogsMC`, `WritingProofs`)

A post has a metadata file, a text file, and an object with a text buffer. Publishing makes an object of its own (`WriteBlog`);
editing takes the one in the cache (`Get`), empties its buffer (`Reset`) and fills it (`WriteString`), without a lock. `Save` writes the
metadata, then the text, each truncated when opened (`OpenJson`, `WriteJson`, `OpenMd`, `WriteMd`), and may fail anywhere. A new post is then announced by
a twt (`Announce`) and put into the cache (`Add`). `Restart` loads the cache's file; only if that is empty it lists the files (`GetAllBlogPosts`) and writes
the cache's file, which nothing else ever does.

| property | what it says |
|---|---|
| `TextIsLast` | the text on disk is the last one saved, neither empty nor mixed, unless the last requests about the post met, failed or were cut off |
| `ListingHolds` | a list of posts fails only while a save writes metadata, or after saves of two objects of one post met there, or one failed or was cut off there; two edits of one object do no harm |
| `AnnouncedEditable` | what is announced is on disk and can be edited, unless the pod has been started since with an older cache file, or while lists failed |

Run `blogs`: 3 symmetric requests, 2 posts, one restart, any posts and any cache file before. Three requests are a publication, an
edit and another that meets it. Publishing a title twice in a day is the same post.

Abstracted: texts are the requests they came with; the announcement is one step (`Posting`); what a twt of a failed
announcement leaves behind.

Proved (`WritingProofs`), for any posts, requests and number of restarts, from `BlogsAssumption` and `TextAssumption` (names of
files' states are no texts): `TypeOK`, `TextIsLast`, `ListingHolds` and `AnnouncedEditable`. In the
inductive invariant `BlogsInv`, `ObjectsSound` says that no object serves two posts, so that requests about different posts
share no buffer; `TextSound` that who works alone on a post finds in buffer and file what it put there; `MetaSound` that
saves of one object write the same metadata, whatever their order; `DiskSound` that the files of a post come in order and stay.

## Pages, single twts and muting (`Timeline`, `TimelineMC`, `TimelineProofs`)

The writers are those of `FeedCache`, reduced to what readers can tell apart: an author (`Publish`, `TakeBack`), fetchers whose `Parsed` body is split into twts to keep and twts to
archive, archived one by one (`Has`, `OpenArchived`, `WriteArchived`) before `StoreEntry`, and `FixMissingTwts` (`JobReads`, `JobLookup`), which archives what it does not find in the
cache. Two of them may write one archive file. The readers: `ReadPage` lists and sorts anew for each page (`sort.Sort` is not stable and feeds
come in the order of a map: `NewestFirst` gives every order of twts with equal dates), cuts the page out and *then* leaves out muted feeds; timeline, profile, external feed,
search and mentions differ in the list. `Lookup`, `AskArchive`, `GetArchived` are the permalink and conversation handlers. `LoadUser`, `Mute`, `Unmute` change the user's record, loaded when
the request came and saved as a whole.

| property | what it says |
|---|---|
| `PagesTrue` | who has read all pages has been shown every twt that stayed on the list, once: missed only if others left it, doubled only if others came or left, or if it shares its second with another; nothing of a muted feed is shown, and nothing else hidden, unless the nick was used again or two requests to mute met |
| `PermalinkFound` | a twt that could be found when its visitor came is found, although it moves from the cache to the archive, unless a fetch that had read the feed without it overwrote the entry, its archiving failed or was cut off, the limit dropped it, or a second archiver was writing the same file |

Run `timeline`: 2 fetchers, 2 feeds, 3 twts of which two share a second, pages of one, 2 requests to mute with 2 nicks, one restart. Pages
depend on no archive and single twts on no mute, so `visit` splits the run into a reader of pages and a visitor for a twt. There is no limit of entries in this run
(`MaxItems` 0): `feedcache` has one. Archiving before storing is what `PermalinkFound` rests on: with the order reversed TLC finds the twt that is in neither.

Abstracted: a fetch is one with status 200; the answers to others change nothing a reader sees; rendering.

Proved (`TimelineProofs`), for any feeds, fetchers, nicks and requests, any finite set of twts with any dates, and any
size of pages, from `TimelineAssumption` (a feed is not called like one of the lists): `TypeOK`, `PagesTrue` and
`PermalinkFound`. The inductive invariant is `TimelineInv`. For the pages, `ReadSound` relates the number of pages read to the `Rank` of a
twt that shares its second with no other: its place in the list, which every way of sorting gives it. While nothing
leaves, ranks only grow, so that a twt not shown yet is behind the pages read; while nothing comes either they stay, so that one
shown is not shown again; and a rank is not more than the twts there are, so it is on some page (`Pages`). `MarksSound` keeps
what is hidden with what was wished. For single twts, `ArchiveSound` says that each twt a fetch has read is kept, still to be archived, or in a
file, and `VisitSound` that the visitor's twt is where it is looked for next, or later.

## What is left to TLC

Liveness (`AcceptedTasksEnd`, `StopEndsWorkers`, `Converges`, `PostsEnd`,
`EncodersEnd`) stays with TLC: fairness and `ENABLED` are beyond the prover.
The violated properties are, of course, not proved either.

Two behaviours are in the models and claimed by no property. A fetch that holds the body of a feed while its account is
deleted (`FeedCache`) stores it afterwards, and the entry stays for good: `Converges` leaves out feeds whose deletion has begun.
A task may be begun after `Stop` has returned (`Dispatcher`).

## Not modelled

Feed sources, statistics, templates, rendering, syndication, router, options, e-mail, passwords and tokens, and the command
line client are I/O, formatting or configuration: sequential code, or code whose state is that of a component above.
