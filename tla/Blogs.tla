------------------------------- MODULE Blogs -------------------------------
(***************************************************************************)
(* Blog posts: two files each, the metadata (.json) and the text (.md), a  *)
(* cache of BlogPost objects shared by all requests, and the cache's file, *)
(* which is only written when the pod starts without one.  A request       *)
(* publishes a post or edits one; the posts of one author, day and title   *)
(* are one post.                                                           *)
(*                                                                         *)
(* Abstracted: a text is the request it came with, a file's content the    *)
(* texts in it; the announcement is one step (Posting has those of         *)
(* AppendTwt, FeedCache those of the fetch that follows).                  *)
(***************************************************************************)
EXTENDS Naturals, Sequences

CONSTANTS
  Request,    \* publications and edits
  Post,       \* author, day and slug
  NoFile,     \* no such file, no such object
  Garbled,    \* texts written over one another
  MaxRestarts \* bound: ends of the program

ASSUME BlogsAssumption ==
  /\ Request \cap Post = {} /\ {NoFile, Garbled} \cap (Request \cup Post) = {}
  /\ NoFile # Garbled /\ MaxRestarts \in Nat

\* Neither stands for a text, and a request or post is not an empty file.
ASSUME TextAssumption ==
  {NoFile, Garbled} \cap Seq(Request \cup Post) = {} /\ << >> \notin Request \cup Post

\* A BlogPost object: made by a request that publishes, or loaded at the start.
Object == Request \cup Post
Empty == << >>

VARIABLES
  json,      \* metadata of each post: the object written, if whole
  md,        \* text of each post: the texts in the file
  cache,     \* BlogsCache: the object of each post
  cacheFile, \* the posts in the cache's file
  buf,       \* the buffer of each object
  at,        \* where each request is
  post,      \* the post it is about
  object,    \* the object it works with
  bytes,     \* what it is about to write
  announced, \* posts with a twt
  restarts,
  last,      \* history: the last text saved as a whole
  met,       \* history: posts whose last saves met, failed or were cut off
  mixed,     \* history: posts whose metadata were
  passed     \* history: posts not looked for at the start

files == <<json, md>>
caches == <<cache, cacheFile>>
request == <<at, post, object, bytes>>
history == <<last, met, mixed, passed>>
vars == <<files, caches, buf, request, announced, restarts, history>>

Put(f, x, y) == [f EXCEPT ![x] = y]

\* Positions of a request that changes an object or its files.
Work == {"reset", "fill", "json", "json2", "md", "md2"}

Working(p, r) == at[r] \in Work /\ post[r] = p

OnDisk == {p \in Post : md[p] # NoFile}

-----------------------------------------------------------------------------
(* Start                                                                   *)

\* One post whose metadata cannot be read ends the walk: all of them fail.
Unlisted(p) == md[p] # NoFile /\ json[p] \in {NoFile, Empty, Garbled}

GetAllBlogPosts == IF \E p \in Post : Unlisted(p) THEN {} ELSE OnDisk

\* Mutant: the cache is made anew only when its file cannot be read.
LoadOnly(file) == file

\* LoadBlogsCache, and UpdateBlogs when that is empty.
LoadBlogs(file) == IF file # {} THEN file ELSE GetAllBlogPosts

Loaded(posts) == [p \in Post |-> IF p \in posts THEN p ELSE NoFile]

Init ==
  /\ \E disk \in SUBSET Post :
       /\ md = [p \in Post |-> IF p \in disk THEN <<p>> ELSE NoFile]
       /\ json = Loaded(disk) /\ announced = disk
       /\ cacheFile \in SUBSET disk
       /\ cache = Loaded(IF cacheFile = {} THEN disk ELSE cacheFile)
       /\ passed = IF cacheFile = {} THEN {} ELSE disk \ cacheFile
  /\ buf = [o \in Object |-> Empty]
  /\ at = [r \in Request |-> "idle"] /\ post \in [Request -> Post]
  /\ object = [r \in Request |-> NoFile] /\ bytes = [r \in Request |-> Empty]
  /\ restarts = 0
  /\ last = [p \in Post |-> p] /\ met = {} /\ mixed = {}

-----------------------------------------------------------------------------
(* PublishBlogHandler                                                      *)

Arrive(r, pos) ==
  /\ at[r] = "idle" /\ at' = Put(at, r, pos)
  /\ met' = IF \E s \in Request : Working(post[r], s)
            THEN met \cup {post[r]} ELSE met \ {post[r]}

\* No text, no title, no such user, or a feed of somebody else's.
Refuse(r) ==
  /\ at[r] = "idle" /\ at' = Put(at, r, "failed")
  /\ UNCHANGED <<files, caches, buf, post, object, bytes, announced, restarts, history>>

\* WriteBlog or WriteBlogAs: an object of its own.
WriteBlog(r) ==
  /\ Arrive(r, "json")
  /\ object' = Put(object, r, r) /\ buf' = Put(buf, r, <<r>>)
  /\ UNCHANGED <<files, caches, post, bytes, announced, restarts, last, mixed, passed>>

\* An edit takes the cache's object, which others may work with.
Get(r) ==
  /\ cache[post[r]] # NoFile
  /\ Arrive(r, "reset")
  /\ object' = Put(object, r, cache[post[r]])
  /\ UNCHANGED <<files, caches, buf, post, bytes, announced, restarts, last, mixed, passed>>

\* Mutant: the buffer is not reset.
ResetNot(r) ==
  /\ at[r] = "reset" /\ at' = Put(at, r, "fill")
  /\ UNCHANGED <<files, caches, buf, post, object, bytes, announced, restarts, history>>

Reset(r) ==
  /\ at[r] = "reset" /\ at' = Put(at, r, "fill")
  /\ buf' = Put(buf, object[r], Empty)
  /\ UNCHANGED <<files, caches, post, object, bytes, announced, restarts, history>>

\* Buffers have no lock: two requests that fill one leave a mixture.
WriteString(r) ==
  /\ at[r] = "fill" /\ at' = Put(at, r, "json")
  /\ LET o == object[r]
         races == \E s \in Request \ {r} : object[s] = o /\ at[s] \in {"reset", "fill"}
         all == IF buf[o] = Garbled THEN Garbled ELSE buf[o] \o <<r>>
     IN  \E b \in {all} \cup (IF races THEN {Garbled} ELSE {}) : buf' = Put(buf, o, b)
  /\ UNCHANGED <<files, caches, post, object, bytes, announced, restarts, history>>

-----------------------------------------------------------------------------
(* Save: WriteFile of the metadata, then of the text; each truncates first *)

saveRest == <<caches, buf, post, object, announced, restarts, passed>>

\* Mutant: the text is saved first.
SaveTextFirst(r) ==
  /\ at[r] = "json" /\ at' = Put(at, r, "json2")
  /\ md' = Put(md, post[r], buf[object[r]])
  /\ UNCHANGED <<json, bytes, saveRest, last, met, mixed>>

OpenJson(r) ==
  /\ at[r] = "json" /\ at' = Put(at, r, "json2")
  /\ json' = Put(json, post[r], Empty)
  /\ LET p == post[r]
         others == {s \in Request \ {r} : Working(p, s) /\ at[s] = "json2"}
     IN  mixed' = IF others = {} THEN mixed \ {p}
                  ELSE IF \A s \in others : object[s] = object[r] THEN mixed
                  ELSE mixed \cup {p}
  /\ UNCHANGED <<md, bytes, saveRest, last, met>>

\* Mutant: the file is opened, and written for a new post only.
WriteJsonOfNew(r) ==
  /\ at[r] = "json2" /\ at' = Put(at, r, "md")
  /\ json' = IF object[r] = r THEN Put(json, post[r], r) ELSE json
  /\ UNCHANGED <<md, bytes, saveRest, last, met, mixed>>

\* What is written over something longer leaves its end behind; the metadata
\* of one object are always the same.
WriteJson(r) ==
  /\ at[r] = "json2" /\ at' = Put(at, r, "md")
  /\ \E j \in {object[r]} \cup
              (IF json[post[r]] \in {Empty, object[r]} THEN {} ELSE {Garbled}) :
       json' = Put(json, post[r], j)
  /\ UNCHANGED <<md, bytes, saveRest, last, met, mixed>>

OpenMd(r) ==
  /\ at[r] = "md" /\ at' = Put(at, r, "md2")
  /\ bytes' = Put(bytes, r, buf[object[r]])
  /\ md' = Put(md, post[r], Empty)
  /\ UNCHANGED <<json, saveRest, last, met, mixed>>

\* The bytes are those of the buffer's array, which another edit may fill
\* while they are written.
WriteMd(r) ==
  /\ at[r] = "md2"
  /\ at' = Put(at, r, IF object[r] = r THEN "announce" ELSE "ok")
  /\ \E b \in {bytes[r]} \cup
              (IF buf[object[r]] = bytes[r] /\ md[post[r]] = Empty THEN {} ELSE {Garbled}) :
       md' = Put(md, post[r], b)
  /\ last' = Put(last, post[r], r)
  /\ UNCHANGED <<json, bytes, saveRest, met, mixed>>

\* The disk is full, or the like.
SaveFails(r) ==
  /\ at[r] \in {"json", "json2", "md", "md2"} /\ at' = Put(at, r, "failed")
  /\ met' = met \cup {post[r]}
  /\ mixed' = IF at[r] = "json2" THEN mixed \cup {post[r]} ELSE mixed
  /\ UNCHANGED <<files, bytes, saveRest, last>>

Save(r) == OpenJson(r) \/ WriteJson(r) \/ OpenMd(r) \/ WriteMd(r) \/ SaveFails(r)

-----------------------------------------------------------------------------
(* Announcement, cache, restart                                            *)

\* Without a twt the handler ends, and the cache does not get the post.
Announce(r) ==
  /\ at[r] = "announce"
  /\ \/ at' = Put(at, r, "add") /\ announced' = announced \cup {post[r]}
     \/ at' = Put(at, r, "failed") /\ UNCHANGED announced
  /\ UNCHANGED <<files, caches, buf, post, object, bytes, restarts, history>>

Add(r) ==
  /\ at[r] = "add" /\ at' = Put(at, r, "ok")
  /\ cache' = Put(cache, post[r], object[r])
  /\ UNCHANGED <<files, cacheFile, buf, post, object, bytes, announced, restarts, history>>

Cut(p, positions) == \E r \in Request : post[r] = p /\ at[r] \in positions

\* The pod ends and starts: objects come from the cache's file, or from all
\* the files, and only then is the cache's file written, which may fail.
Restart ==
  /\ restarts < MaxRestarts /\ restarts' = restarts + 1
  /\ cache' = Loaded(LoadBlogs(cacheFile))
  /\ cacheFile' \in {cacheFile} \cup
        (IF cacheFile = {} THEN {GetAllBlogPosts} ELSE {})
  /\ passed' = IF cacheFile # {} THEN OnDisk \ cacheFile
               ELSE IF \E p \in Post : Unlisted(p) THEN OnDisk ELSE {}
  /\ met' = met \cup {p \in Post : Cut(p, Work)}
  /\ mixed' = mixed \cup {p \in Post : Cut(p, {"json2"})}
  /\ buf' = [o \in Object |-> Empty]
  /\ at' = [r \in Request |-> IF at[r] = "idle" THEN "idle" ELSE "gone"]
  /\ UNCHANGED <<files, post, object, bytes, announced, last>>

Next ==
  \/ \E r \in Request :
       \/ Refuse(r) \/ WriteBlog(r) \/ Get(r) \/ Reset(r) \/ WriteString(r)
       \/ Save(r) \/ Announce(r) \/ Add(r)
  \/ Restart

Spec == Init /\ [][Next]_vars

-----------------------------------------------------------------------------
(* Properties                                                              *)

Text == Seq(Object) \cup {Garbled}

\* Types; a post has metadata before it has a text, so that a listing never
\* finds a text without.
TypeOK ==
  /\ md \in [Post -> Text \cup {NoFile}]
  /\ json \in [Post -> Object \cup {NoFile, Empty, Garbled}]
  /\ cache \in [Post -> Object \cup {NoFile}] /\ cacheFile \subseteq Post
  /\ buf \in [Object -> Text]
  /\ at \in [Request -> Work \cup {"idle", "announce", "add", "ok", "failed", "gone"}]
  /\ post \in [Request -> Post] /\ object \in [Request -> Object \cup {NoFile}]
  /\ bytes \in [Request -> Text]
  /\ announced \subseteq Post /\ restarts \in 0 .. MaxRestarts
  /\ last \in [Post -> Object] /\ met \cup mixed \cup passed \subseteq Post
  /\ \A p \in Post : md[p] # NoFile => json[p] # NoFile

\* The text on disk is the last one saved, neither empty nor mixed with an
\* older one, although one buffer serves all edits of a post, unless the last
\* requests about it met or one failed or was cut off (blog_handlers.go:321).
TextIsLast ==
  \A p \in Post \ met :
    md[p] # NoFile /\ (\A r \in Request : ~Working(p, r)) => md[p] = <<last[p]>>

\* A list of posts fails, for all posts of the author and at the start for
\* those of everybody, only while a save writes metadata, or after saves of
\* two objects of one post met there, or one failed or was cut off there.  Two
\* edits of one object do no harm (blog.go:72-83, 313).
ListingHolds ==
  \A p \in Post : Unlisted(p) =>
    p \in mixed \/ \E r \in Request : post[r] = p /\ at[r] = "json2"

\* What has been announced is on disk, and can be edited, unless the pod was
\* started since with an older cache file or when the list of posts failed
\* (blogs_cache.go:96, server.go:647-657).
AnnouncedEditable ==
  \A p \in announced :
    /\ md[p] # NoFile
    /\ cache[p] = NoFile => p \in passed \/ \E r \in Request : post[r] = p /\ at[r] = "add"

-----------------------------------------------------------------------------
(* Why they hold: the inductive invariant, proved in WritingProofs          *)

\* The post an object is about.
About(o) == IF o \in Request THEN post[o] ELSE o

\* No object serves two posts.
ObjectsSound ==
  /\ \A p \in Post : cache[p] # NoFile => About(cache[p]) = p
  /\ \A r \in Request : at[r] \in Work \cup {"announce", "add"} =>
       object[r] \in Object /\ About(object[r]) = post[r]

\* Who works on a post alone since its last trouble finds in the buffer what
\* it put there.
TextSound ==
  \A r \in Request : at[r] \in Work /\ post[r] \notin met =>
    /\ \A s \in Request : Working(post[r], s) => s = r
    /\ at[r] = "fill" => buf[object[r]] = Empty
    /\ at[r] \in {"json", "json2", "md", "md2"} => buf[object[r]] = <<r>>
    /\ at[r] = "md2" => bytes[r] = <<r>> /\ md[post[r]] = Empty

SavesJson(p) == {r \in Request : post[r] = p /\ at[r] = "json2"}

\* Saves of one object at a time leave its metadata, or are about to.
MetaSound ==
  \A p \in Post \ mixed :
    /\ \A r, s \in SavesJson(p) : object[r] = object[s]
    /\ \A r \in SavesJson(p) : json[p] \in {Empty, object[r]}
    /\ SavesJson(p) = {} => json[p] \in Object \cup {NoFile}

\* Files come in order, and none goes.
DiskSound ==
  \A r \in Request :
    /\ at[r] \in {"json2", "md", "md2"} => json[post[r]] # NoFile
    /\ at[r] \in {"md2", "announce", "add"} => md[post[r]] # NoFile

BlogsInv ==
  /\ TypeOK
  /\ ObjectsSound /\ DiskSound
  /\ TextSound /\ TextIsLast
  /\ MetaSound
  /\ AnnouncedEditable
=============================================================================
