--------------------------- MODULE WritingProofs ---------------------------
(***************************************************************************)
(* Theorems about what users write: blog posts, for any requests, any      *)
(* posts and any number of restarts, and the twts of a feed, for any       *)
(* requests, texts, mentions and capacity of the channels.                 *)
(***************************************************************************)
EXTENDS Blogs, Posting, FiniteSetTheorems, SequenceTheorems, TLAPS

(* What texts are, and what is not one.                                    *)
LEMMA TextFacts ==
  /\ Empty \in Text /\ Garbled \in Text /\ NoFile \notin Text
  /\ \A o \in Object : <<o>> \in Text
  /\ \A t \in Text \ {Garbled}, o \in Object : t \o <<o>> \in Text
  /\ \A o \in Object : Empty \o <<o>> = <<o>>
  /\ Garbled # Empty
  <1>1. Empty \in Seq(Object)
    BY DEF Empty
  <1>2. \A o \in Object : <<o>> \in Seq(Object) /\ Empty \o <<o>> = <<o>>
    BY DEF Empty
  <1>3. \A t \in Seq(Object), o \in Object : t \o <<o>> \in Seq(Object)
    OBVIOUS
  <1> QED BY <1>1, <1>2, <1>3, BlogsAssumption, TextAssumption DEF Text, Object

(* An object is neither an empty file nor a missing one.                   *)
LEMMA ObjectFacts ==
  /\ \A o \in Object : o # NoFile /\ o # Empty /\ o # Garbled
  /\ \A r \in Request : r \in Object
  /\ \A p \in Post : p \in Object /\ p \notin Request
  BY BlogsAssumption, TextAssumption DEF Object, Empty

(* The steps of a request, by what they do to its position.                *)
Steps(r) ==
  \/ Refuse(r) \/ WriteBlog(r) \/ Get(r) \/ Reset(r) \/ WriteString(r)
  \/ Save(r) \/ Announce(r) \/ Add(r)

Positions == Work \cup {"idle", "announce", "add", "ok", "failed", "gone"}

(* No request moves another.                                               *)
LEMMA OthersStay ==
  ASSUME TypeOK, NEW r \in Request, Steps(r)
  PROVE  /\ at' \in [Request -> Positions] /\ post' = post
         /\ \A s \in Request \ {r} : at'[s] = at[s] /\ object'[s] = object[s] /\ bytes'[s] = bytes[s]
         /\ \A p \in Post \ {post[r]} : md'[p] = md[p] /\ json'[p] = json[p] /\ last'[p] = last[p]
         /\ \A p \in Post \ {post[r]} : /\ p \in met <=> p \in met'
                                        /\ p \in mixed <=> p \in mixed'
  <1> USE DEF TypeOK, Put, Positions, Work
  <1>1. CASE Refuse(r) \/ WriteBlog(r) \/ Get(r) \/ Reset(r)
    BY <1>1 DEF Refuse, WriteBlog, Get, Reset, Arrive, files, history
  <1>2. CASE WriteString(r) \/ Announce(r) \/ Add(r)
    BY <1>2 DEF WriteString, Announce, Add, files, history
  <1>3. CASE OpenJson(r)
    BY <1>3 DEF OpenJson, saveRest
  <1>4. CASE WriteJson(r) \/ OpenMd(r)
    BY <1>4 DEF WriteJson, OpenMd, saveRest
  <1>5. CASE WriteMd(r)
    BY <1>5 DEF WriteMd, saveRest
  <1>6. CASE SaveFails(r)
    BY <1>6 DEF SaveFails, files, saveRest
  <1> QED BY <1>1, <1>2, <1>3, <1>4, <1>5, <1>6 DEF Steps, Save

-----------------------------------------------------------------------------
(* Types.                                                                  *)

(* A request works with an object, and files come in order.                *)
LEMMA StepTypes ==
  ASSUME TypeOK, ObjectsSound, DiskSound, NEW r \in Request, Steps(r)
  PROVE  TypeOK'
  <1> USE TextFacts, ObjectFacts DEF TypeOK, Put
  <1>0. at' \in [Request -> Positions] /\ post' = post
    BY OthersStay
  <1> USE <1>0 DEF Positions
  <1>1. CASE Refuse(r)
    BY <1>1 DEF Refuse, files, caches, history
  <1>2. CASE WriteBlog(r)
    BY <1>2 DEF WriteBlog, Arrive, files, caches
  <1>3. CASE Get(r)
    BY <1>3 DEF Get, Arrive, files, caches
  <1>4. CASE Reset(r)
    BY <1>4 DEF Reset, files, caches, history
  <1>5. CASE WriteString(r)
    <2>1. object[r] \in Object
      BY <1>5 DEF ObjectsSound, WriteString, Work
    <2>2. PICK b : /\ buf' = Put(buf, object[r], b)
                   /\ \/ b = Garbled
                      \/ buf[object[r]] # Garbled /\ b = buf[object[r]] \o <<r>>
      BY <1>5, Zenon DEF WriteString
    <2>3. buf[object[r]] \in Text /\ r \in Object
      BY <2>1
    <2>4. b \in Text
      <3>1. CASE b = Garbled
        BY <3>1
      <3>2. CASE b # Garbled
        <4>1. buf[object[r]] \in Text \ {Garbled} /\ b = buf[object[r]] \o <<r>>
          BY <2>2, <2>3, <3>2
        <4> QED BY <2>3, <4>1, TextFacts
      <3> QED BY <3>1, <3>2
    <2>5. buf' \in [Object -> Text]
      BY <2>1, <2>2, <2>4
    <2> QED BY <1>5, <2>5 DEF WriteString, files, caches, history
  <1>6. CASE OpenJson(r)
    <2>1. mixed' \subseteq Post
      BY <1>6 DEF OpenJson
    <2>2. json' = Put(json, post[r], Empty)
      BY <1>6 DEF OpenJson
    <2>3. /\ json' \in [Post -> Object \cup {NoFile, Empty, Garbled}]
          /\ \A p \in Post : md[p] # NoFile => json'[p] # NoFile
      BY <2>2
    <2> QED BY <1>6, <2>1, <2>3 DEF OpenJson, saveRest, caches
  <1>7. CASE WriteJson(r)
    <2>1. object[r] \in Object
      BY <1>7 DEF ObjectsSound, WriteJson, Work
    <2>2. PICK j \in {object[r], Garbled} : json' = Put(json, post[r], j)
      BY <1>7 DEF WriteJson
    <2>3. /\ json' \in [Post -> Object \cup {NoFile, Empty, Garbled}]
          /\ \A p \in Post : md[p] # NoFile => json'[p] # NoFile
      BY <2>1, <2>2, BlogsAssumption
    <2> QED BY <1>7, <2>3 DEF WriteJson, saveRest, caches
  <1>8. CASE OpenMd(r)
    <2>1. object[r] \in Object /\ json[post[r]] # NoFile
      BY <1>8 DEF ObjectsSound, DiskSound, OpenMd, Work
    <2>2. bytes' \in [Request -> Text] /\ md' \in [Post -> Text \cup {NoFile}]
      BY <1>8, <2>1 DEF OpenMd
    <2>3. \A p \in Post : md'[p] # NoFile => json[p] # NoFile
      BY <1>8, <2>1 DEF OpenMd
    <2> QED BY <1>8, <2>2, <2>3 DEF OpenMd, saveRest, caches
  <1>9. CASE WriteMd(r)
    <2>1. json[post[r]] # NoFile
      BY <1>9 DEF DiskSound, WriteMd
    <2>2. PICK b \in {bytes[r], Garbled} : md' = Put(md, post[r], b)
      BY <1>9 DEF WriteMd
    <2>3. md' \in [Post -> Text \cup {NoFile}] /\ \A p \in Post : md'[p] # NoFile => json[p] # NoFile
      BY <2>1, <2>2
    <2> QED BY <1>9, <2>3 DEF WriteMd, saveRest, caches
  <1>10. CASE SaveFails(r)
    BY <1>10 DEF SaveFails, files, saveRest, caches
  <1>11. CASE Announce(r)
    BY <1>11 DEF Announce, files, caches, history
  <1>12. CASE Add(r)
    <2>1. object[r] \in Object
      BY <1>12 DEF ObjectsSound, Add
    <2> QED BY <1>12, <2>1 DEF Add, files, history
  <1> QED BY <1>1, <1>2, <1>3, <1>4, <1>5, <1>6, <1>7, <1>8, <1>9, <1>10, <1>11, <1>12
          DEF Steps, Save

(* What is loaded at the start are posts.                                  *)
LEMMA LoadedPosts ==
  ASSUME TypeOK
  PROVE  /\ LoadBlogs(cacheFile) \subseteq Post /\ GetAllBlogPosts \subseteq Post
         /\ OnDisk \subseteq Post
         /\ \A S \in SUBSET Post : Loaded(S) \in [Post -> Object \cup {NoFile}]
  BY ObjectFacts DEF TypeOK, LoadBlogs, GetAllBlogPosts, OnDisk, Loaded

(* A restart keeps the types.                                              *)
LEMMA RestartTypes ==
  ASSUME TypeOK, Restart
  PROVE  TypeOK'
  <1>1. cache' \in [Post -> Object \cup {NoFile}] /\ cacheFile' \subseteq Post /\ passed' \subseteq Post
    BY LoadedPosts DEF TypeOK, Restart
  <1>2. buf' \in [Object -> Text] /\ at' \in [Request -> Positions]
    BY TextFacts DEF Restart, Positions
  <1>3. met' \subseteq Post /\ mixed' \subseteq Post /\ restarts' \in 0 .. MaxRestarts
    BY BlogsAssumption DEF TypeOK, Restart
  <1> QED BY <1>1, <1>2, <1>3 DEF TypeOK, Restart, files, Positions

-----------------------------------------------------------------------------
(* Objects and files.                                                      *)

(* No object serves two posts.                                             *)
LEMMA ObjectsStep ==
  ASSUME TypeOK, ObjectsSound, NEW r \in Request, Steps(r)
  PROVE  ObjectsSound'
  <1> USE ObjectFacts
  <1>0. /\ post' = post
        /\ \A s \in Request \ {r} : at'[s] = at[s] /\ object'[s] = object[s]
    BY OthersStay
  <1>1. CASE WriteBlog(r)
    <2>1. object'[r] = r /\ cache' = cache
      BY <1>1 DEF WriteBlog, TypeOK, Put, caches
    <2> QED BY <1>0, <2>1 DEF ObjectsSound, About
  <1>2. CASE Get(r)
    <2>1. object'[r] = cache[post[r]] /\ cache' = cache /\ cache[post[r]] # NoFile
      BY <1>2 DEF Get, TypeOK, Put, caches
    <2>2. object'[r] \in Object /\ About(object'[r]) = post[r]
      BY <2>1 DEF ObjectsSound, TypeOK
    <2> QED BY <1>0, <2>1, <2>2 DEF ObjectsSound, About
  <1>3. CASE Add(r)
    <2>1. /\ object' = object /\ at'[r] = "ok" /\ at[r] = "add"
          /\ cache' = [cache EXCEPT ![post[r]] = object[r]]
      BY <1>3 DEF Add, TypeOK, Put
    <2>2. cache \in [Post -> Object \cup {NoFile}]
      BY DEF TypeOK
    <2> QED BY <1>0, <2>1, <2>2 DEF ObjectsSound, About, Work
  <1>4. CASE ~(WriteBlog(r) \/ Get(r) \/ Add(r))
    <2>1. /\ object' = object /\ cache' = cache
          /\ at'[r] \in Work \cup {"announce", "add"} => at[r] \in Work \cup {"announce", "add"}
      BY <1>4 DEF Steps, Save, Refuse, Reset, WriteString, OpenJson, WriteJson, OpenMd, WriteMd,
                  SaveFails, Announce, TypeOK, Put, Work, saveRest, caches
    <2> QED BY <1>0, <2>1 DEF ObjectsSound, About
  <1> QED BY <1>1, <1>2, <1>3, <1>4

(* Files come in order, and none goes.                                     *)
LEMMA DiskStep ==
  ASSUME TypeOK, ObjectsSound, DiskSound, NEW r \in Request, Steps(r)
  PROVE  /\ DiskSound'
         /\ \A p \in Post : md[p] # NoFile => md'[p] # NoFile
  <1> USE ObjectFacts, TextFacts
  <1>0. /\ post' = post /\ post[r] \in Post
        /\ \A s \in Request \ {r} : at'[s] = at[s]
    BY OthersStay DEF TypeOK
  <1>1. \A p \in Post : json[p] # NoFile => json'[p] # NoFile
    <2>1. CASE OpenJson(r)
      BY <2>1 DEF OpenJson, TypeOK, Put
    <2>2. CASE WriteJson(r)
      <3>1. object[r] \in Object
        BY <2>2 DEF ObjectsSound, WriteJson, Work
      <3> QED BY <2>2, <3>1, BlogsAssumption DEF WriteJson, TypeOK, Put
    <2>3. CASE ~OpenJson(r) /\ ~WriteJson(r)
      <3>1. json' = json
        BY <2>3 DEF Steps, Save, Refuse, WriteBlog, Get, Reset, WriteString, OpenMd, WriteMd,
                    SaveFails, Announce, Add, saveRest, files
      <3> QED BY <3>1
    <2> QED BY <2>1, <2>2, <2>3
  <1>2. \A p \in Post : md[p] # NoFile => md'[p] # NoFile
    <2>1. CASE OpenMd(r)
      BY <2>1 DEF OpenMd, TypeOK, Put
    <2>2. CASE WriteMd(r)
      BY <2>2, BlogsAssumption DEF WriteMd, TypeOK, Put
    <2>3. CASE ~OpenMd(r) /\ ~WriteMd(r)
      <3>1. md' = md
        BY <2>3 DEF Steps, Save, Refuse, WriteBlog, Get, Reset, WriteString, OpenJson, WriteJson,
                    SaveFails, Announce, Add, saveRest, files
      <3> QED BY <3>1
    <2> QED BY <2>1, <2>2, <2>3
  <1>3. /\ at'[r] \in {"json2", "md", "md2"} => json'[post[r]] # NoFile
        /\ at'[r] \in {"md2", "announce", "add"} => md'[post[r]] # NoFile
    <2>1. CASE OpenJson(r)
      BY <2>1 DEF OpenJson, TypeOK, Put
    <2>2. CASE OpenMd(r)
      BY <2>2, <1>0, <1>1 DEF OpenMd, DiskSound, TypeOK, Put
    <2>3. CASE WriteJson(r)
      BY <2>3, <1>0, <1>1 DEF WriteJson, DiskSound, TypeOK, Put
    <2>4. CASE WriteMd(r)
      BY <2>4, <1>0, <1>2 DEF WriteMd, DiskSound, TypeOK, Put
    <2>5. CASE Announce(r)
      BY <2>5, <1>0, <1>2 DEF Announce, DiskSound, TypeOK, Put
    <2>6. CASE ~(OpenJson(r) \/ OpenMd(r) \/ WriteJson(r) \/ WriteMd(r) \/ Announce(r))
      <3>1. at'[r] \in {"json", "fill", "reset", "ok", "failed"}
        BY <2>6 DEF Steps, Save, Refuse, WriteBlog, Get, Reset, WriteString, SaveFails, Add, Arrive,
                    TypeOK, Put
      <3> QED BY <3>1
    <2> QED BY <2>1, <2>2, <2>3, <2>4, <2>5, <2>6
  <1>4. DiskSound'
    BY <1>0, <1>1, <1>2, <1>3 DEF DiskSound, TypeOK
  <1> QED BY <1>2, <1>4

-----------------------------------------------------------------------------
(* Texts.                                                                  *)

(* The part of TextSound that is about one request.                        *)
OwnText(r) ==
  /\ \A s \in Request : Working(post[r], s) => s = r
  /\ at[r] = "fill" => buf[object[r]] = Empty
  /\ at[r] \in {"json", "json2", "md", "md2"} => buf[object[r]] = <<r>>
  /\ at[r] = "md2" => bytes[r] = <<r>> /\ md[post[r]] = Empty

(* What is said of the text of one post.                                   *)
Settled(p) ==
  md[p] # NoFile /\ (\A r \in Request : ~Working(p, r)) => md[p] = <<last[p]>>

(* A request that is alone with its post stays so, whatever requests about *)
(* other posts do.                                                         *)
LEMMA OthersText ==
  ASSUME TypeOK, ObjectsSound, TextSound, NEW r \in Request, Steps(r),
         NEW s \in Request \ {r}, at'[s] \in Work, post[s] \notin met'
  PROVE  OwnText(s)'
  <1>0. /\ post' = post /\ post[s] \in Post /\ post[r] \in Post
        /\ \A q \in Request \ {r} : at'[q] = at[q] /\ object'[q] = object[q] /\ bytes'[q] = bytes[q]
        /\ \A p \in Post \ {post[r]} : md'[p] = md[p]
        /\ \A p \in Post \ {post[r]} : p \in met <=> p \in met'
    BY OthersStay DEF TypeOK
  <1>1. at[s] \in Work
    BY <1>0
  <1>2. CASE post[s] = post[r]
    <2>1. CASE at[r] = "idle"
      <3>1. CASE Refuse(r)
        <4>1. /\ UNCHANGED <<met, buf, object, bytes, md>> /\ at'[r] = "failed"
          BY <3>1 DEF Refuse, files, history, TypeOK, Put
        <4> QED BY <1>0, <1>1, <1>2, <4>1 DEF OwnText, TextSound, Working, Work
      <3>2. CASE WriteBlog(r) \/ Get(r)
        <4>1. Arrive(r, "json") \/ Arrive(r, "reset")
          BY <3>2 DEF WriteBlog, Get
        <4>2. Working(post[r], s)
          BY <1>1, <1>2 DEF Working
        <4>3. post[r] \in met'
          BY <4>1, <4>2 DEF Arrive
        <4> QED BY <1>2, <4>3
      <3> QED BY <2>1, <3>1, <3>2 DEF Steps, Save, Reset, WriteString, OpenJson, WriteJson, OpenMd,
                                      WriteMd, SaveFails, Announce, Add
    <2>2. CASE at[r] \in Work
      <3>1. post[r] \notin met
        <4>1. met \subseteq met'
          BY <2>2 DEF Steps, Save, Refuse, WriteBlog, Get, Arrive, Reset, WriteString, OpenJson,
                      WriteJson, OpenMd, WriteMd, SaveFails, Announce, Add, Work, saveRest, history
        <4> QED BY <1>2, <4>1
      <3>2. Working(post[s], r)
        BY <1>2, <2>2 DEF Working
      <3> QED BY <1>1, <1>2, <3>1, <3>2 DEF TextSound
    <2>3. CASE at[r] \in {"announce", "add"}
      <3>1. /\ UNCHANGED <<met, buf, object, bytes, md>> /\ at'[r] \notin Work
        BY <2>3 DEF Steps, Save, Refuse, WriteBlog, Get, Arrive, Reset, WriteString, OpenJson,
                    WriteJson, OpenMd, WriteMd, SaveFails, Announce, Add, Work, files, history,
                    TypeOK, Put
      <3> QED BY <1>0, <1>1, <1>2, <3>1 DEF OwnText, TextSound, Working
    <2> QED BY <2>1, <2>2, <2>3 DEF Steps, Save, Refuse, WriteBlog, Get, Arrive, Reset,
               WriteString, OpenJson, WriteJson, OpenMd, WriteMd, SaveFails, Announce, Add, Work
  <1>3. CASE post[s] # post[r]
    <2>1. /\ object[s] \in Object /\ About(object[s]) = post[s]
      BY <1>1 DEF ObjectsSound
    <2>2. buf'[object[s]] = buf[object[s]]
      <3>1. CASE Reset(r) \/ WriteString(r)
        <4>1. object[r] \in Object /\ About(object[r]) = post[r]
          BY <3>1 DEF ObjectsSound, Reset, WriteString, Work
        <4>2. object[r] # object[s]
          BY <1>3, <2>1, <4>1
        <4> QED BY <2>1, <3>1, <4>2 DEF Reset, WriteString, TypeOK, Put
      <3>2. CASE WriteBlog(r)
        <4>1. r # object[s]
          BY <1>3, <2>1 DEF About
        <4> QED BY <2>1, <3>2, <4>1 DEF WriteBlog, TypeOK, Put
      <3>3. CASE ~(Reset(r) \/ WriteString(r) \/ WriteBlog(r))
        <4>1. buf' = buf
          BY <3>3 DEF Steps, Save, Refuse, Get, OpenJson, WriteJson, OpenMd, WriteMd, SaveFails,
                      Announce, Add, saveRest
        <4> QED BY <4>1
      <3> QED BY <3>1, <3>2, <3>3
    <2>3. \A q \in Request : Working(post[s], q)' => Working(post[s], q)
      BY <1>0, <1>3 DEF Working
    <2>4. OwnText(s)
      BY <1>0, <1>1, <1>3 DEF OwnText, TextSound
    <2> QED BY <1>0, <1>3, <2>2, <2>3, <2>4 DEF OwnText
  <1> QED BY <1>2, <1>3

(* A request that is alone fills the buffer, takes its bytes and writes    *)
(* them as it should.                                                      *)
LEMMA OwnTextStep ==
  ASSUME TypeOK, ObjectsSound, TextSound, NEW r \in Request, Steps(r),
         at'[r] \in Work, post[r] \notin met'
  PROVE  OwnText(r)'
  <1> USE TextFacts, ObjectFacts
  <1>0. /\ post' = post /\ post[r] \in Post
        /\ \A q \in Request \ {r} : at'[q] = at[q] /\ object'[q] = object[q]
    BY OthersStay DEF TypeOK
  <1>1. \A s \in Request \ {r} : Working(post[r], s)' <=> Working(post[r], s)
    BY <1>0 DEF Working
  <1>2. CASE WriteBlog(r)
    <2>1. /\ at'[r] = "json" /\ object'[r] = r /\ buf'[r] = <<r>>
          /\ ~\E s \in Request : Working(post[r], s)
      BY <1>2 DEF WriteBlog, Arrive, TypeOK, Put
    <2> QED BY <1>0, <1>1, <2>1 DEF OwnText
  <1>3. CASE Get(r)
    <2>1. /\ at'[r] = "reset"
          /\ ~\E s \in Request : Working(post[r], s)
      BY <1>3 DEF Get, Arrive, TypeOK, Put
    <2> QED BY <1>0, <1>1, <2>1 DEF OwnText
  <1>4. CASE at[r] \in Work
    <2>1. post[r] \notin met
      <3>1. met \subseteq met'
        BY <1>4 DEF Steps, Save, Refuse, WriteBlog, Get, Arrive, Reset, WriteString, OpenJson,
                    WriteJson, OpenMd, WriteMd, SaveFails, Announce, Add, Work, saveRest, history
      <3> QED BY <3>1
    <2>2. OwnText(r) /\ object[r] \in Object /\ About(object[r]) = post[r]
      BY <1>4, <2>1 DEF OwnText, TextSound, ObjectsSound
    <2>3. \A s \in Request : Working(post[r], s)' => s = r
      BY <1>1, <2>2 DEF OwnText
    <2>4. CASE Reset(r)
      <3>1. at'[r] = "fill" /\ object' = object /\ buf'[object[r]] = Empty
        BY <2>2, <2>4 DEF Reset, TypeOK, Put
      <3> QED BY <1>0, <2>3, <3>1 DEF OwnText
    <2>5. CASE WriteString(r)
      <3>1. buf[object[r]] = Empty /\ at'[r] = "json" /\ object' = object
        BY <2>2, <2>5 DEF OwnText, WriteString, TypeOK, Put
      <3>2. ~\E s \in Request \ {r} : object[s] = object[r] /\ at[s] \in {"reset", "fill"}
        <4> SUFFICES ASSUME NEW s \in Request \ {r}, object[s] = object[r], at[s] \in {"reset", "fill"}
                     PROVE  FALSE
          OBVIOUS
        <4>1. at[s] \in Work /\ About(object[s]) = post[s]
          BY DEF Work, ObjectsSound
        <4> QED BY <2>2, <4>1 DEF OwnText, Working
      <3>3. buf' = Put(buf, object[r], Empty \o <<r>>)
        BY <2>5, <3>1, <3>2 DEF WriteString
      <3>4. buf'[object[r]] = <<r>>
        BY <2>2, <3>3 DEF TypeOK, Put
      <3> QED BY <1>0, <2>3, <3>1, <3>4 DEF OwnText
    <2>6. CASE OpenJson(r) \/ WriteJson(r)
      <3>1. /\ at[r] \in {"json", "json2"} /\ at'[r] \in {"json2", "md"}
            /\ UNCHANGED <<object, buf>>
        BY <2>6 DEF OpenJson, WriteJson, saveRest, TypeOK, Put
      <3> QED BY <1>0, <2>2, <2>3, <3>1 DEF OwnText
    <2>7. CASE OpenMd(r)
      <3>1. /\ at[r] = "md" /\ at'[r] = "md2" /\ UNCHANGED <<object, buf>>
            /\ bytes'[r] = buf[object[r]] /\ md'[post[r]] = Empty
        BY <2>7 DEF OpenMd, saveRest, TypeOK, Put
      <3> QED BY <1>0, <2>2, <2>3, <3>1 DEF OwnText
    <2>8. CASE WriteMd(r) \/ SaveFails(r)
      <3>1. at'[r] \notin Work
        BY <2>8 DEF WriteMd, SaveFails, TypeOK, Put, Work
      <3> QED BY <3>1
    <2> QED BY <1>4, <2>4, <2>5, <2>6, <2>7, <2>8
            DEF Steps, Save, Refuse, WriteBlog, Get, Arrive, Announce, Add, Work
  <1>5. CASE at[r] \notin Work /\ ~WriteBlog(r) /\ ~Get(r)
    <2>1. at'[r] \notin Work
      BY <1>5 DEF Steps, Save, Refuse, Reset, WriteString, OpenJson, WriteJson, OpenMd, WriteMd,
                  SaveFails, Announce, Add, Work, TypeOK, Put
    <2> QED BY <2>1
  <1> QED BY <1>2, <1>3, <1>4, <1>5

(* Once nobody works on a post its text is the one saved last.             *)
LEMMA SettledStep ==
  ASSUME TypeOK, ObjectsSound, TextSound, TextIsLast, NEW r \in Request, Steps(r),
         NEW p \in Post \ met'
  PROVE  Settled(p)'
  <1>0. /\ post' = post
        /\ \A q \in Request \ {r} : at'[q] = at[q]
        /\ \A q \in Post \ {post[r]} : md'[q] = md[q] /\ last'[q] = last[q]
        /\ \A q \in Post \ {post[r]} : q \in met <=> q \in met'
    BY OthersStay
  <1>1. CASE p # post[r]
    <2>1. \A q \in Request : Working(p, q)' <=> Working(p, q)
      BY <1>0, <1>1 DEF Working
    <2> QED BY <1>0, <1>1, <2>1 DEF Settled, TextIsLast
  <1>2. CASE p = post[r] /\ at'[r] \in Work
    <2>1. Working(p, r)'
      BY <1>0, <1>2 DEF Working
    <2> QED BY <2>1 DEF Settled
  <1>3. CASE p = post[r] /\ at'[r] \notin Work
    <2>1. CASE WriteMd(r)
      <3>1. /\ at[r] = "md2" /\ met' = met
            /\ \E b \in {bytes[r]} \cup
                 (IF buf[object[r]] = bytes[r] /\ md[post[r]] = Empty THEN {} ELSE {Garbled}) :
                   md' = Put(md, post[r], b)
            /\ last'[p] = r
        BY <1>3, <2>1 DEF WriteMd, TypeOK, Put
      <3>2. bytes[r] = <<r>> /\ buf[object[r]] = <<r>> /\ md[post[r]] = Empty
        BY <1>3, <3>1 DEF TextSound, Work
      <3>3. md' = Put(md, post[r], <<r>>)
        BY <3>1, <3>2
      <3>4. md'[p] = <<r>>
        BY <1>3, <3>3 DEF TypeOK, Put
      <3> QED BY <3>1, <3>4 DEF Settled
    <2>2. CASE SaveFails(r)
      <3>1. p \in met'
        BY <1>3, <2>2 DEF SaveFails
      <3> QED BY <3>1
    <2>3. CASE ~WriteMd(r) /\ ~SaveFails(r)
      <3>1. at[r] \notin Work /\ UNCHANGED <<md, last, met>>
        BY <1>3, <2>3 DEF Steps, Save, Refuse, WriteBlog, Get, Arrive, Reset, WriteString, OpenJson,
                   WriteJson, OpenMd, Announce, Add, Work, files, history, TypeOK, Put
      <3>2. \A q \in Request : Working(p, q)' <=> Working(p, q)
        BY <1>0, <1>3, <3>1 DEF Working
      <3> QED BY <3>1, <3>2 DEF Settled, TextIsLast
    <2> QED BY <2>1, <2>2, <2>3
  <1> QED BY <1>1, <1>2, <1>3

(* Every step of a request keeps the texts.                                *)
LEMMA TextStep ==
  ASSUME TypeOK, ObjectsSound, TextSound, TextIsLast, NEW r \in Request, Steps(r)
  PROVE  TextSound' /\ TextIsLast'
  <1>1. post' = post
    BY OthersStay
  <1>2. ASSUME NEW s \in Request, at'[s] \in Work, post'[s] \notin met' PROVE OwnText(s)'
    BY <1>1, <1>2, OthersText, OwnTextStep
  <1>3. \A p \in Post \ met' : Settled(p)'
    BY SettledStep
  <1> QED BY <1>2, <1>3 DEF TextSound, OwnText, TextIsLast, Settled

-----------------------------------------------------------------------------
(* Metadata.                                                               *)

(* Saves of one object write the same metadata, whoever comes first.       *)
LEMMA MetaStep ==
  ASSUME TypeOK, ObjectsSound, MetaSound, NEW r \in Request, Steps(r)
  PROVE  MetaSound'
  <1> USE ObjectFacts
  <1>0. /\ post' = post /\ post[r] \in Post
        /\ \A q \in Request \ {r} : at'[q] = at[q] /\ object'[q] = object[q]
        /\ \A q \in Post \ {post[r]} : json'[q] = json[q]
        /\ \A q \in Post \ {post[r]} : q \in mixed <=> q \in mixed'
    BY OthersStay DEF TypeOK
  <1> DEFINE Whole(p) ==
               /\ \A q, s \in SavesJson(p) : object[q] = object[s]
               /\ \A q \in SavesJson(p) : json[p] \in {Empty, object[q]}
               /\ SavesJson(p) = {} => json[p] \in Object \cup {NoFile}
  <1>1. ASSUME NEW p \in Post \ mixed', p # post[r] PROVE Whole(p)'
    <2>1. SavesJson(p)' = SavesJson(p) /\ r \notin SavesJson(p)
      BY <1>0, <1>1 DEF SavesJson
    <2>2. \A q \in SavesJson(p) : object'[q] = object[q]
      BY <1>0, <2>1 DEF SavesJson
    <2>3. Whole(p) /\ json'[p] = json[p]
      BY <1>0, <1>1 DEF MetaSound
    <2> QED BY <2>1, <2>2, <2>3
  <1>2. ASSUME NEW p \in Post \ mixed', p = post[r] PROVE Whole(p)'
    <2>1. CASE OpenJson(r)
      <3>1. /\ at[r] = "json" /\ at'[r] = "json2" /\ object' = object /\ json'[p] = Empty
        BY <1>2, <2>1 DEF OpenJson, saveRest, TypeOK, Put
      <3>2. SavesJson(p)' = SavesJson(p) \cup {r}
        BY <1>0, <1>2, <3>1 DEF SavesJson
      <3> DEFINE others == {s \in Request \ {r} : Working(p, s) /\ at[s] = "json2"}
      <3>3. SavesJson(p) = others
        BY <3>1 DEF SavesJson, Working, Work
      <3>4. others = {} \/ \A s \in others : object[s] = object[r]
        <4>1. mixed' = IF others = {} THEN mixed \ {p}
                       ELSE IF \A s \in others : object[s] = object[r] THEN mixed
                       ELSE mixed \cup {p}
          BY <1>2, <2>1 DEF OpenJson
        <4> QED BY <1>2, <4>1
      <3> HIDE DEF others
      <3> QED BY <3>1, <3>2, <3>3, <3>4
    <2>2. CASE WriteJson(r)
      <3>1. /\ at[r] = "json2" /\ at'[r] = "md" /\ object' = object /\ mixed' = mixed
            /\ \E j \in {object[r]} \cup
                 (IF json[p] \in {Empty, object[r]} THEN {} ELSE {Garbled}) : json' = Put(json, p, j)
        BY <1>2, <2>2 DEF WriteJson, saveRest, TypeOK, Put
      <3>2. r \in SavesJson(p) /\ SavesJson(p)' = SavesJson(p) \ {r} /\ Whole(p)
        BY <1>0, <1>2, <3>1 DEF SavesJson, MetaSound
      <3>3. json' = Put(json, p, object[r])
        BY <3>1, <3>2
      <3>4. json'[p] = object[r] /\ object[r] \in Object
        BY <3>1, <3>3 DEF TypeOK, Put, ObjectsSound, Work
      <3> QED BY <3>1, <3>2, <3>4
    <2>3. CASE SaveFails(r)
      <3>1. at[r] # "json2" /\ mixed' = mixed
        BY <1>2, <2>3 DEF SaveFails
      <3>2. UNCHANGED <<object, json>> /\ at'[r] = "failed"
        BY <2>3 DEF SaveFails, saveRest, files, TypeOK, Put
      <3>3. SavesJson(p)' = SavesJson(p)
        BY <1>0, <3>1, <3>2 DEF SavesJson
      <3> QED BY <1>2, <3>1, <3>2, <3>3 DEF MetaSound
    <2>4. CASE ~(OpenJson(r) \/ WriteJson(r) \/ SaveFails(r))
      <3>1. UNCHANGED <<json, mixed>> /\ at[r] # "json2" /\ at'[r] # "json2"
        BY <2>4 DEF Steps, Save, Refuse, WriteBlog, Get, Arrive, Reset, WriteString, OpenMd,
                    WriteMd, Announce, Add, files, history, saveRest, TypeOK, Put
      <3>2. SavesJson(p)' = SavesJson(p) /\ r \notin SavesJson(p)
        BY <1>0, <3>1 DEF SavesJson
      <3>3. \A q \in SavesJson(p) : object'[q] = object[q]
        BY <1>0, <3>2 DEF SavesJson
      <3>4. Whole(p)
        BY <1>2, <3>1 DEF MetaSound
      <3> QED BY <3>1, <3>2, <3>3, <3>4
    <2> QED BY <2>1, <2>2, <2>3, <2>4
  <1> QED BY <1>1, <1>2 DEF MetaSound

-----------------------------------------------------------------------------
(* Announcements.                                                          *)

(* A request that has announced its post puts it into the cache next.      *)
LEMMA AnnounceStep ==
  ASSUME TypeOK, ObjectsSound, DiskSound, AnnouncedEditable, NEW r \in Request, Steps(r)
  PROVE  AnnouncedEditable'
  <1> USE ObjectFacts
  <1>0. /\ post' = post /\ post[r] \in Post /\ announced \subseteq Post
        /\ \A q \in Request \ {r} : at'[q] = at[q]
        /\ \A p \in Post : md[p] # NoFile => md'[p] # NoFile
    BY OthersStay, DiskStep DEF TypeOK
  <1>1. passed' = passed
    BY DEF Steps, Save, Refuse, WriteBlog, Get, Arrive, Reset, WriteString, OpenJson, WriteJson,
           OpenMd, WriteMd, SaveFails, Announce, Add, saveRest, history
  <1>2. CASE Announce(r) /\ at'[r] = "add"
    <2>1. /\ announced' = announced \cup {post[r]} /\ at[r] = "announce" /\ cache' = cache
      BY <1>2 DEF Announce, TypeOK, Put, caches
    <2>2. md[post[r]] # NoFile
      BY <2>1 DEF DiskSound
    <2>3. ASSUME NEW p \in announced, cache[p] = NoFile
          PROVE  p \in passed \/ \E s \in Request : post[s] = p /\ at'[s] = "add"
      BY <1>0, <1>2, <2>1, <2>3 DEF AnnouncedEditable
    <2> QED BY <1>0, <1>1, <1>2, <2>1, <2>2, <2>3 DEF AnnouncedEditable
  <1>3. CASE Add(r)
    <2>1. /\ announced' = announced /\ at[r] = "add"
          /\ cache' = [cache EXCEPT ![post[r]] = object[r]]
      BY <1>3 DEF Add, Put
    <2>2. object[r] # NoFile
      BY <2>1 DEF ObjectsSound
    <2>3. cache'[post[r]] # NoFile /\ \A p \in Post \ {post[r]} : cache'[p] = cache[p]
      BY <2>1, <2>2 DEF TypeOK
    <2>4. ASSUME NEW p \in announced, cache'[p] = NoFile
          PROVE  p \in passed \/ \E s \in Request : post[s] = p /\ at'[s] = "add"
      BY <1>0, <2>3, <2>4 DEF AnnouncedEditable
    <2> QED BY <1>0, <1>1, <2>1, <2>4 DEF AnnouncedEditable
  <1>4. CASE ~Add(r) /\ ~(Announce(r) /\ at'[r] = "add")
    <2>1. /\ announced' = announced /\ cache' = cache
          /\ at[r] # "add"
      BY <1>4 DEF Steps, Save, Refuse, WriteBlog, Get, Arrive, Reset, WriteString, OpenJson,
                  WriteJson, OpenMd, WriteMd, SaveFails, Announce, Add, saveRest, caches, TypeOK, Put
    <2>2. ASSUME NEW p \in announced, cache[p] = NoFile
          PROVE  p \in passed \/ \E s \in Request : post[s] = p /\ at'[s] = "add"
      BY <1>0, <2>1, <2>2 DEF AnnouncedEditable
    <2> QED BY <1>0, <1>1, <2>1, <2>2 DEF AnnouncedEditable
  <1> QED BY <1>2, <1>3, <1>4

-----------------------------------------------------------------------------
(* Restart.                                                                *)

(* A restart loads objects of their own posts; what it does not load has   *)
(* been passed over; and it marks what it cuts off.                        *)
LEMMA RestartSound ==
  ASSUME BlogsInv, Restart
  PROVE  BlogsInv'
  <1> USE ObjectFacts
  <1>0. /\ UNCHANGED <<json, md, post, object, bytes, announced, last>> /\ announced \subseteq Post
        /\ cache' = Loaded(LoadBlogs(cacheFile))
        /\ \A r \in Request : at'[r] \in {"idle", "gone"}
        /\ met' = met \cup {p \in Post : Cut(p, Work)}
        /\ mixed' = mixed \cup {p \in Post : Cut(p, {"json2"})}
        /\ post \in [Request -> Post]
    BY DEF Restart, files, BlogsInv, TypeOK
  <1>1. TypeOK'
    BY RestartTypes DEF BlogsInv
  <1>2. ObjectsSound'
    BY <1>0 DEF ObjectsSound, About, Loaded, Work
  <1>3. DiskSound'
    BY <1>0 DEF DiskSound
  <1>4. TextSound'
    BY <1>0 DEF TextSound, Work
  <1>5. TextIsLast'
    <2>1. ASSUME NEW p \in Post \ met', NEW r \in Request PROVE ~Working(p, r)
      BY <1>0 DEF Cut, Working
    <2> QED BY <1>0, <2>1 DEF TextIsLast, BlogsInv
  <1>6. MetaSound'
    <2>1. ASSUME NEW p \in Post \ mixed' PROVE SavesJson(p) = {} /\ SavesJson(p)' = {}
      BY <1>0 DEF Cut, SavesJson
    <2> QED BY <1>0, <2>1 DEF MetaSound, BlogsInv
  <1>7. AnnouncedEditable'
    <2> SUFFICES ASSUME NEW p \in announced, cache'[p] = NoFile PROVE md[p] # NoFile /\ p \in passed'
      BY <1>0 DEF AnnouncedEditable, BlogsInv
    <2>1. md[p] # NoFile /\ p \in OnDisk
      BY <1>0 DEF AnnouncedEditable, BlogsInv, OnDisk
    <2>2. p \notin LoadBlogs(cacheFile)
      BY <1>0 DEF Loaded
    <2> QED BY <2>1, <2>2 DEF LoadBlogs, GetAllBlogPosts, Restart
  <1> QED BY <1>1, <1>2, <1>3, <1>4, <1>5, <1>6, <1>7 DEF BlogsInv

-----------------------------------------------------------------------------
(* The theorems.                                                           *)

(* At the first start files are whole, and nobody works.                   *)
LEMMA BlogsInvInit == Init => BlogsInv
  <1> SUFFICES ASSUME Init PROVE BlogsInv
    OBVIOUS
  <1> USE ObjectFacts, TextFacts
  <1>0. PICK disk \in SUBSET Post :
          /\ md = [p \in Post |-> IF p \in disk THEN <<p>> ELSE NoFile]
          /\ json = Loaded(disk) /\ announced = disk
          /\ cacheFile \in SUBSET disk
          /\ cache = Loaded(IF cacheFile = {} THEN disk ELSE cacheFile)
          /\ passed = IF cacheFile = {} THEN {} ELSE disk \ cacheFile
    BY DEF Init
  <1>1. TypeOK
    <2>1. md \in [Post -> Text \cup {NoFile}]
      BY <1>0
    <2>2. /\ json \in [Post -> Object \cup {NoFile, Empty, Garbled}]
          /\ cache \in [Post -> Object \cup {NoFile}]
          /\ \A p \in Post : md[p] # NoFile => json[p] # NoFile
      BY <1>0 DEF Loaded
    <2>3. buf \in [Object -> Text] /\ bytes \in [Request -> Text]
      BY DEF Init
    <2> QED BY <1>0, <2>1, <2>2, <2>3, BlogsAssumption DEF Init, TypeOK
  <1>2. ObjectsSound /\ DiskSound /\ TextSound
    BY <1>0 DEF Init, ObjectsSound, DiskSound, TextSound, Loaded, About, Work
  <1>3. TextIsLast
    BY <1>0 DEF Init, TextIsLast
  <1>4. MetaSound
    BY <1>0 DEF Init, MetaSound, SavesJson, Loaded
  <1>5. AnnouncedEditable
    BY <1>0 DEF AnnouncedEditable, Loaded
  <1> QED BY <1>1, <1>2, <1>3, <1>4, <1>5 DEF BlogsInv

(* The inductive invariant: objects belong to one post, a buffer to who    *)
(* works alone, metadata to one object at a time.                          *)
THEOREM BlogsCorrect == Spec => []BlogsInv
  <1>1. BlogsInv /\ [Next]_vars => BlogsInv'
    <2> SUFFICES ASSUME BlogsInv, [Next]_vars PROVE BlogsInv'
      OBVIOUS
    <2>1. ASSUME NEW r \in Request, Steps(r) PROVE BlogsInv'
      <3>1. TypeOK /\ ObjectsSound /\ DiskSound /\ TextSound /\ TextIsLast /\ MetaSound
            /\ AnnouncedEditable
        BY DEF BlogsInv
      <3> QED BY <2>1, <3>1, StepTypes, ObjectsStep, DiskStep, TextStep, MetaStep, AnnounceStep
              DEF BlogsInv
    <2>2. CASE Restart
      BY <2>2, RestartSound
    <2>3. CASE UNCHANGED vars
      BY <2>3 DEF vars, files, caches, request, history, BlogsInv, TypeOK, ObjectsSound, About,
             DiskSound, TextSound, TextIsLast, Working, MetaSound, SavesJson, AnnouncedEditable
    <2> QED BY <2>1, <2>2, <2>3 DEF Next, Steps
  <1> QED BY BlogsInvInit, <1>1, PTL DEF Spec

(* Every file and buffer holds what it may, and a listing never finds a    *)
(* text without metadata.                                                  *)
THEOREM BlogsTyped == Spec => []TypeOK
  <1>1. BlogsInv => TypeOK
    BY DEF BlogsInv
  <1> QED BY BlogsCorrect, <1>1, PTL

(* The text on disk is the one saved last, although all edits of a post    *)
(* share a buffer.                                                         *)
THEOREM TextsLast == Spec => []TextIsLast
  <1>1. BlogsInv => TextIsLast
    BY DEF BlogsInv
  <1> QED BY BlogsCorrect, <1>1, PTL

(* A list of posts only fails during a save, or after saves that met.      *)
THEOREM ListingsHold == Spec => []ListingHolds
  <1>1. BlogsInv => ListingHolds
    <2> SUFFICES ASSUME BlogsInv, NEW p \in Post \ mixed, Unlisted(p)
                 PROVE  SavesJson(p) # {}
      BY DEF ListingHolds, SavesJson
    <2>1. json[p] \in {Empty, Garbled}
      BY DEF Unlisted, BlogsInv, TypeOK
    <2>2. json[p] \notin Object \cup {NoFile}
      BY <2>1, ObjectFacts, TextFacts
    <2> QED BY <2>2 DEF BlogsInv, MetaSound
  <1> QED BY BlogsCorrect, <1>1, PTL

(* What has been announced is on disk, and can be edited but for the ways  *)
(* of starting that pass it over.                                          *)
THEOREM AnnouncementsEditable == Spec => []AnnouncedEditable
  <1>1. BlogsInv => AnnouncedEditable
    BY DEF BlogsInv
  <1> QED BY BlogsCorrect, <1>1, PTL

-----------------------------------------------------------------------------
(***************************************************************************)
(* Twts: posting, editing, deleting, and what a post sends.                *)
(***************************************************************************)

(* The channels hold mentions.                                             *)
Mailed == WebMentionTypeOK /\ queue \in [Box -> Seq(Mention)]

(* Each step of the channels and their loops keeps them.                   *)
LEMMA MailStarts == WebMentionInit => Mailed
<1> SUFFICES ASSUME WebMentionInit PROVE Mailed
  OBVIOUS
<1>1. queue \in [Box -> Seq(Mention)]
  BY DEF WebMentionInit
<1> QED
  BY <1>1, WebMentionAssumption DEF Mailed, WebMentionInit, WebMentionTypeOK, Queued

LEMMA SendMails ==
  ASSUME Mailed, NEW b \in Box, NEW m \in Mention, Send(b, m)
  PROVE  Mailed'
<1>1. queue' \in [Box -> Seq(Mention)]
  BY DEF Send, Mailed
<1> QED
  BY <1>1, WebMentionAssumption DEF Send, Mailed, WebMentionTypeOK, Queued

LEMMA TakeMails ==
  ASSUME Mailed, NEW b \in Box, Take(b)
  PROVE  Mailed'
<1>1. queue[b] \in Seq(Mention) /\ queue[b] # << >>
  BY DEF Mailed, Take
<1>2. /\ Head(queue[b]) \in Mention /\ Tail(queue[b]) \in Seq(Mention)
      /\ Len(Tail(queue[b])) <= Len(queue[b])
      /\ \A i \in DOMAIN Tail(queue[b]) : Tail(queue[b])[i] \in Mention
  BY <1>1, HeadTailProperties
<1>3. queue' \in [Box -> Seq(Mention)]
  BY <1>2 DEF Take, Mailed
<1>4. \A c \in Box : Len(queue'[c]) <= Capacity
  BY <1>1, <1>2, WebMentionAssumption DEF Take, Mailed, WebMentionTypeOK
<1>5. \A c \in Box : Queued(c)' \subseteq Mention
  BY <1>3 DEF Queued
<1> QED
  BY <1>2, <1>3, <1>4, <1>5, WebMentionAssumption DEF Take, Mailed, WebMentionTypeOK

LEMMA LoopsMail ==
  ASSUME Mailed, NEW b \in Box, Processed(b) \/ Panic(b)
  PROVE  Mailed'
<1>1. CASE Processed(b)
  BY <1>1, WebMentionAssumption DEF Processed, Mailed, WebMentionTypeOK, Queued
<1>2. CASE Panic(b)
  <2>1. queue' \in [Box -> Seq(Mention)] /\ \A c \in Box : queue'[c] = << >>
    BY <1>2 DEF Panic
  <2> QED
    BY <1>2, <2>1, WebMentionAssumption DEF Panic, Mailed, WebMentionTypeOK, Queued
<1> QED BY <1>1, <1>2

-----------------------------------------------------------------------------
(* What requests and the feed are.                                         *)
Places == {"idle", "first", "last", "again", "truncate", "text", "append", "notify"}
Form == [at : Places, op : {"post", "delete", "patch"},
         hash : Twt \cup {NoTwt}, text : Twt \cup {NoTwt},
         offset : 0..Len(OldTwts) + MaxRequests, toSend : Nat]

Feed == file \in Seq(Twt \cup NoTwts) /\ known \subseteq Twt
        /\ left \in 0..MaxRequests /\ disturbed \subseteq Requests

LEMMA TypesAre ==
  PostingTypeOK <=> WebMentionTypeOK /\ Feed /\ req \in [Requests -> Form]
  BY DEF PostingTypeOK, Feed, Form, Places

LEMMA FeedIs ==
  MaxRequests \in Nat /\ Len(OldTwts) \in Nat /\ Idle \in Form
  BY PostingAssumption DEF Idle, Form, Places

(* A step of a request takes no room.                                      *)
LEMMA RoomStays ==
  ASSUME PostingInv, NEW r \in Requests, NEW q \in Form,
         req' = [req EXCEPT ![r] = q], left' = left,
         r \in Pending \/ q.at \in {"idle", "notify"}
  PROVE  /\ IsFiniteSet(Pending') /\ \A n \in Nat : Room(n) => Room(n)'
         /\ r \in Pending /\ q.at = "notify" => \A n \in Nat : Room(n) => Room(n + 1)'
<1>1. req \in [Requests -> Form] /\ IsFiniteSet(Pending) /\ left \in Nat
  BY TypesAre, FeedIs DEF PostingInv, Feed
<1>2. Pending' \subseteq Pending /\ (q.at = "notify" => Pending' \subseteq Pending \ {r})
  BY <1>1 DEF Pending
<1>3. /\ IsFiniteSet(Pending') /\ Cardinality(Pending') \in Nat
      /\ Cardinality(Pending) \in Nat /\ Cardinality(Pending') <= Cardinality(Pending)
  BY <1>1, <1>2, FS_Subset, FS_CardinalityType
<1>4. \A n \in Nat : Room(n) => Room(n)'
  BY <1>1, <1>3, FeedIs DEF Room
<1>5. ASSUME r \in Pending, q.at = "notify"
      PROVE  \A n \in Nat : Room(n) => Room(n + 1)'
  <2>1. Cardinality(Pending \ {r}) = Cardinality(Pending) - 1 /\ IsFiniteSet(Pending \ {r})
    BY <1>1, <1>5, FS_RemoveElement
  <2>2. Cardinality(Pending') <= Cardinality(Pending) - 1
    BY <1>2, <1>5, <2>1, FS_Subset
  <2> QED
    BY <1>1, <1>3, <2>2, FeedIs DEF Room
<1> QED BY <1>3, <1>4, <1>5

(* What the others know stays as it is, or they are counted as disturbed.  *)
LEMMA OneMoves ==
  ASSUME PostingInv, NEW r \in Requests, NEW q \in Form,
         req' = [req EXCEPT ![r] = q],
         Mailed', Feed', IsFiniteSet(Pending'), \A n \in Nat : Room(n) => Room(n)',
         Room(Len(file))',
         \/ file' = file /\ disturbed \ {r} \subseteq disturbed'
         \/ disturbed \cup Caught(r) \subseteq disturbed',
         q.at = "first" => q.op # "post", q.at \in {"append", "notify"} => q.text # NoTwt,
         q.at = "truncate" => Room(q.offset)', r \in disturbed' \/ Fresh(q)'
  PROVE  PostingInv'
<1>1. req \in [Requests -> Form] /\ req' \in [Requests -> Form]
  BY TypesAre DEF PostingInv
<1>2. PostingTypeOK'
  BY <1>1, TypesAre DEF Mailed, Feed, PostingTypeOK, Form, Places
<1>3. ASSUME NEW s \in Requests \ {r}
      PROVE  s \in disturbed' \/ Fresh(req[s])'
  <2>1. req'[s] = req[s]
    BY <1>1
  <2>2. s \in disturbed \/ Fresh(req[s])
    BY DEF PostingInv
  <2>3. CASE req[s].at \notin {"again", "truncate"}
    BY <2>1, <2>3 DEF Fresh
  <2>4. CASE file' = file /\ disturbed \ {r} \subseteq disturbed'
    BY <2>1, <2>2, <2>4 DEF Fresh, LastTwt
  <2>5. CASE disturbed \cup Caught(r) \subseteq disturbed' /\ req[s].at \in {"again", "truncate"}
    BY <2>5 DEF Caught
  <2> QED BY <2>3, <2>4, <2>5
<1>4. ASSUME NEW s \in Requests \ {r}
      PROVE  /\ req'[s].at = "first" => req'[s].op # "post"
             /\ req'[s].at \in {"append", "notify"} => req'[s].text # NoTwt
             /\ req'[s].at = "truncate" => Room(req[s].offset)'
  <2>1. req'[s] = req[s] /\ req[s] \in Form /\ req[s].offset \in Nat
    BY <1>1 DEF Form
  <2> QED BY <2>1 DEF PostingInv
<1>5. req'[r] = q
  BY <1>1
<1>6. queue' \in [Box -> Seq(Mention)]
  BY DEF Mailed
<1>7. \A s \in Requests :
        /\ req'[s].at = "first" => req'[s].op # "post"
        /\ req'[s].at \in {"append", "notify"} => req'[s].text # NoTwt
        /\ req'[s].at = "truncate" => Room(req[s].offset)'
        /\ s \in disturbed' \/ Fresh(req[s])'
  BY <1>3, <1>4, <1>5
<1> QED BY <1>2, <1>6, <1>7 DEF PostingInv

(* What the steps of the handler have in common.                           *)
LEMMA MailStays == Mailed /\ UNCHANGED webMentionVars => Mailed'
  BY DEF webMentionVars, Mailed, WebMentionTypeOK, Queued

LEMMA InvIs ==
  ASSUME PostingInv
  PROVE  Mailed /\ Feed /\ req \in [Requests -> Form] /\ Len(file) \in Nat /\ Room(Len(file))
<1>1. Feed => Len(file) \in Nat
  BY DEF Feed
<1> QED BY <1>1, TypesAre DEF PostingInv, Mailed

(* A step of the handler that writes nothing.                              *)
LEMMA Reads ==
  ASSUME PostingInv, NEW r \in Requests, NEW q \in Form,
         req' = [req EXCEPT ![r] = q], UNCHANGED <<webMentionVars, fileVars>>,
         r \in Pending \/ q.at \in {"idle", "notify"},
         q.at = "first" => q.op # "post", q.at \in {"append", "notify"} => q.text # NoTwt,
         q.at = "truncate" => Room(q.offset), r \in disturbed \/ Fresh(q)
  PROVE  PostingInv'
<1>1. Mailed /\ Feed /\ Len(file) \in Nat /\ Room(Len(file))
  BY InvIs
<1>2. file' = file /\ known' = known /\ left' = left /\ disturbed' = disturbed
  BY DEF fileVars
<1>3. Mailed' /\ Feed'
  BY <1>1, <1>2, MailStays DEF Feed
<1>4. IsFiniteSet(Pending') /\ \A n \in Nat : Room(n) => Room(n)'
  BY <1>2, RoomStays
<1>5. Room(Len(file))' /\ (q.at = "truncate" => Room(q.offset)')
  <2>1. q.offset \in Nat
    BY DEF Form
  <2>2. \A n \in Nat : n = Len(file) => Room(Len(file))'
    BY <1>1, <1>2, <1>4 DEF Room
  <2> QED BY <1>1, <1>4, <2>1, <2>2
<1>6. r \in disturbed' \/ Fresh(q)'
  BY <1>2 DEF Fresh, LastTwt
<1> QED BY <1>2, <1>3, <1>4, <1>5, <1>6, OneMoves

LEMMA ReadLastReads ==
  ASSUME PostingInv, NEW r \in Requests, ReadLast(r)
  PROVE  PostingInv'
<1>1. req \in [Requests -> Form] /\ req[r] \in Form /\ req[r].at = "last"
  BY InvIs DEF ReadLast
<1>2. r \in Pending
  BY <1>1 DEF Pending
<1>3. PICK q \in Form : /\ req' = [req EXCEPT ![r] = q]
                        /\ \/ q = Idle
                           \/ q = [req[r] EXCEPT !.at = "text"]
                           \/ q = [req[r] EXCEPT !.at = "again"] /\ LastTwt = req[r].hash
  BY <1>1, FeedIs DEF ReadLast, Go, End, Form, Places
<1>4. /\ q.at \in {"idle", "text", "again"}
      /\ q.at = "again" => LastTwt = q.hash
  BY <1>1, <1>3 DEF Idle, Form
<1>5. Fresh(q)
  BY <1>4 DEF Fresh
<1>6. UNCHANGED <<webMentionVars, fileVars>>
  BY DEF ReadLast
<1> QED BY <1>2, <1>3, <1>4, <1>5, <1>6, Reads

LEMMA CheckTextReads ==
  ASSUME PostingInv, NEW r \in Requests, CheckText(r)
  PROVE  PostingInv'
<1>1. req \in [Requests -> Form] /\ req[r] \in Form /\ req[r].at = "text"
  BY InvIs DEF CheckText
<1>2. r \in Pending
  BY <1>1 DEF Pending
<1>3. PICK q \in Form : /\ req' = [req EXCEPT ![r] = q]
                        /\ \/ q = Idle
                           \/ q = [req[r] EXCEPT !.at = "append"] /\ req[r].text # NoTwt
  BY <1>1, FeedIs DEF CheckText, Go, End, Form, Places
<1>4. q.at \in {"idle", "append"} /\ (q.at = "append" => q.text # NoTwt)
  BY <1>1, <1>3 DEF Idle, Form
<1>5. Fresh(q)
  BY <1>4 DEF Fresh
<1>6. UNCHANGED <<webMentionVars, fileVars>>
  BY DEF CheckText
<1> QED BY <1>2, <1>3, <1>4, <1>5, <1>6, Reads

LEMMA RedirectReads ==
  ASSUME PostingInv, NEW r \in Requests, Redirect(r)
  PROVE  PostingInv'
<1>1. Idle \in Form /\ Idle.at = "idle" /\ req' = [req EXCEPT ![r] = Idle]
  BY FeedIs DEF Redirect, End, Idle
<1>2. Fresh(Idle) /\ UNCHANGED <<webMentionVars, fileVars>>
  BY <1>1 DEF Fresh, Redirect
<1> QED BY <1>1, <1>2, Reads

(* Where a request goes after the truncation, or without one.              *)
LEMMA DeletedIs ==
  ASSUME NEW q \in Form
  PROVE  /\ Deleted(q) \in Form /\ Deleted(q).at \in {"text", "last", "idle"}
         /\ Deleted(q).offset \in Nat
<1>1. CASE q.op = "post"
  BY <1>1 DEF Deleted, Form, Places
<1>2. CASE q.op = "delete"
  <2>1. Deleted(q) = [q EXCEPT !.at = "last", !.op = "post"]
    BY <1>2 DEF Deleted
  <2>2. [q EXCEPT !.at = "last", !.op = "post"] \in Form
    BY DEF Form, Places
  <2>3. [q EXCEPT !.at = "last", !.op = "post"].at = "last"
    BY DEF Form
  <2>4. \A p \in Form : p.offset \in Nat
    BY FeedIs DEF Form
  <2> QED BY <2>1, <2>2, <2>3, <2>4
<1>3. CASE q.op = "patch"
  <2>1. Deleted(q) = Idle
    BY <1>3 DEF Deleted
  <2> QED BY <2>1, FeedIs DEF Idle
<1> QED BY <1>1, <1>2, <1>3 DEF Form

LEMMA ReadOffsetReads ==
  ASSUME PostingInv, NEW r \in Requests, ReadOffset(r)
  PROVE  PostingInv'
<1>1. /\ req \in [Requests -> Form] /\ req[r] \in Form /\ req[r].at \in {"first", "again"}
      /\ UNCHANGED <<webMentionVars, fileVars>>
      /\ Feed /\ Len(file) \in Nat /\ Room(Len(file))
  BY InvIs DEF ReadOffset
<1>2. r \in Pending
  BY <1>1 DEF Pending
<1>3. CASE req' = [req EXCEPT ![r] = Deleted(req[r])]
  <2>1. PICK q \in Form : q = Deleted(req[r]) /\ q.at \in {"text", "last", "idle"}
    BY <1>1, DeletedIs
  <2>2. Fresh(q)
    BY <2>1 DEF Fresh
  <2> QED BY <1>1, <1>2, <1>3, <2>1, <2>2, Reads
<1>4. CASE req' = [req EXCEPT ![r].at = "truncate",
                              ![r].offset = IF file = << >> THEN 0 ELSE Len(file) - 1]
  <2>1. PICK n \in Nat : n = (IF file = << >> THEN 0 ELSE Len(file) - 1) /\ n <= Len(file)
    <3>1. file # << >> => Len(file) > 0
      <4>1. file \in Seq(Twt \cup NoTwts)
        BY <1>1 DEF Feed
      <4>2. Len(file) = 0 => file = << >>
        BY <4>1, EmptySeq
      <4> QED BY <1>1, <4>2
    <3>2. CASE file = << >>
      BY <1>1, <3>2
    <3>3. CASE file # << >>
      <4>1. Len(file) - 1 \in Nat /\ Len(file) - 1 <= Len(file)
        BY <1>1, <3>1, <3>3
      <4> QED BY <1>1, <3>3, <4>1
    <3> QED BY <3>2, <3>3
  <2>2. Room(n) /\ n \in 0..Len(OldTwts) + MaxRequests
    <3>1. Cardinality(Pending) \in Nat
      BY FS_CardinalityType DEF PostingInv
    <3> QED BY <1>1, <2>1, <3>1, FeedIs DEF Room, Feed
  <2>3. PICK q \in Form : q = [req[r] EXCEPT !.at = "truncate", !.offset = n]
    BY <1>1, <2>2 DEF Form, Places
  <2>4. req' = [req EXCEPT ![r] = q]
    BY <1>1, <1>4, <2>1, <2>3
  <2>5. q.at = "truncate" /\ q.offset = n /\ q.op = req[r].op /\ q.hash = req[r].hash
    BY <1>1, <2>3 DEF Form
  <2>6. req[r].op = "post" => req[r].at = "again"
    BY <1>1 DEF PostingInv
  <2>7. r \in disturbed \/ Fresh(q)
    <3>1. r \in disturbed \/ Fresh(req[r])
      BY DEF PostingInv
    <3> QED BY <2>1, <2>5, <2>6, <3>1 DEF Fresh
  <2> QED BY <1>1, <1>2, <2>2, <2>4, <2>5, <2>7, Reads
<1> QED BY <1>1, <1>3, <1>4 DEF ReadOffset
(* What a truncation leaves: the first n lines.                            *)
LEMMA CutIs ==
  ASSUME NEW S, NEW f \in Seq(S), NEW n \in Nat, n <= Len(f)
  PROVE  /\ SubSeq(f, 1, n) \in Seq(S) /\ Len(SubSeq(f, 1, n)) = n
         /\ \A i \in 1..n : SubSeq(f, 1, n)[i] = f[i]
<1>1. SubSeq(f, 1, n) \in Seq(S)
  OBVIOUS
<1>2. Len(SubSeq(f, 1, n)) = n
  OBVIOUS
<1>3. \A i \in 1..n : SubSeq(f, 1, n)[i] = f[i]
  OBVIOUS
<1> QED BY <1>1, <1>2, <1>3

(* Or the lines filled up to n.                                            *)
LEMMA FilledIs ==
  ASSUME NEW S, NEW f \in Seq(S), NEW h \in S, NEW n \in Nat, n > Len(f)
  PROVE  /\ f \o [i \in 1..(n - Len(f)) |-> h] \in Seq(S)
         /\ Len(f \o [i \in 1..(n - Len(f)) |-> h]) = n
<1>1. Len(f) \in Nat
  BY LenProperties
<1>2. PICK k \in Nat : k = n - Len(f)
  BY <1>1
<1>3. PICK holes : holes = [i \in 1..k |-> h]
  OBVIOUS
<1>4. holes \in Seq(S) /\ Len(holes) = k
  BY <1>2, <1>3, IsASeq
<1>5. f \o holes \in Seq(S) /\ Len(f \o holes) = Len(f) + Len(holes)
  BY <1>4, ConcatProperties
<1>6. holes = [i \in 1..(n - Len(f)) |-> h] /\ Len(f) + Len(holes) = n
  BY <1>1, <1>2, <1>3, <1>4
<1> QED BY <1>5, <1>6, Zenon

LEMMA TruncateCuts ==
  ASSUME PostingInv, NEW r \in Requests, Truncate(r)
  PROVE  PostingInv'
<1>1. /\ req \in [Requests -> Form] /\ req[r] \in Form /\ req[r].at = "truncate" /\ Feed /\ Mailed
      /\ req[r].offset \in Nat /\ Room(req[r].offset)
      /\ UNCHANGED <<webMentionVars, known, left>>
  <2>1. req[r] \in Form /\ req[r].at = "truncate" => req[r].offset \in Nat /\ Room(req[r].offset)
    BY DEF Form, PostingInv
  <2> QED BY <2>1, InvIs DEF Truncate
<1>2. r \in Pending
  BY <1>1 DEF Pending
<1>3. PICK q \in Form : q = Deleted(req[r]) /\ q.at \in {"text", "last", "idle"}
  BY <1>1, DeletedIs
<1>4. req' = [req EXCEPT ![r] = q]
  BY <1>3 DEF Truncate
<1>5. file' \in Seq(Twt \cup NoTwts) /\ Len(file') = req[r].offset
  <2>1. file' = IF req[r].offset <= Len(file) THEN SubSeq(file, 1, req[r].offset)
                ELSE file \o [i \in 1..(req[r].offset - Len(file)) |-> Hole]
    BY DEF Truncate
  <2>2. PICK n \in Nat : n = req[r].offset
    BY <1>1
  <2>3. Len(file) \in Nat /\ file \in Seq(Twt \cup NoTwts) /\ Hole \in Twt \cup NoTwts
    BY <1>1, InvIs DEF Feed, NoTwts
  <2>4. CASE n <= Len(file)
    BY <2>1, <2>2, <2>3, <2>4, CutIs
  <2>5. CASE n > Len(file)
    <3>1. file' = file \o [i \in 1..(n - Len(file)) |-> Hole]
      BY <2>1, <2>2, <2>3, <2>5
    <3>2. file' \in Seq(Twt \cup NoTwts) /\ Len(file') = n
      BY <2>3, <2>5, <3>1, FilledIs
    <3> QED BY <2>2, <3>2
  <2> QED BY <2>3, <2>4, <2>5
<1>6. /\ disturbed' \subseteq Requests
      /\ \/ file' = file /\ disturbed \ {r} \subseteq disturbed'
         \/ disturbed \cup Caught(r) \subseteq disturbed'
  BY <1>1 DEF Truncate, Caught, Feed
<1>7. Mailed' /\ Feed'
  BY <1>1, <1>5, <1>6, MailStays DEF Feed
<1>8. IsFiniteSet(Pending') /\ \A n \in Nat : Room(n) => Room(n)'
  BY <1>1, <1>2, <1>4, RoomStays
<1>9. Room(Len(file))'
  <2>1. \A n \in Nat : Room(n)' /\ n = Len(file') => Room(Len(file))'
    BY DEF Room
  <2> QED BY <1>1, <1>5, <1>8, <2>1
<1>10. Fresh(q)'
  BY <1>3 DEF Fresh
<1> QED BY <1>3, <1>4, <1>6, <1>7, <1>8, <1>9, <1>10, OneMoves

LEMMA AppendTwtAppends ==
  ASSUME PostingInv, NEW r \in Requests, AppendTwt(r)
  PROVE  /\ PostingInv'
         /\ Len(file') = Len(file) + 1 /\ \A i \in 1..Len(file) : file'[i] = file[i]
         /\ file'[Len(file) + 1] # Hole
<1>1. /\ req \in [Requests -> Form] /\ req[r] \in Form /\ req[r].at = "append" /\ Feed /\ Mailed
      /\ req[r].text \in Twt /\ Len(file) \in Nat /\ Room(Len(file))
      /\ UNCHANGED <<webMentionVars, known, left>>
  <2>1. req[r] \in Form /\ req[r].at = "append" => req[r].text \in Twt
    BY DEF Form, PostingInv
  <2> QED BY <2>1, InvIs DEF AppendTwt
<1>2. r \in Pending
  BY <1>1 DEF Pending
<1>3. PICK q \in Form : q = [req[r] EXCEPT !.at = "notify", !.toSend = Mentions[req[r].text]]
  BY <1>1, PostingAssumption DEF Form, Places
<1>4. req' = [req EXCEPT ![r] = q] /\ q.at = "notify" /\ q.text # NoTwt
  <2>1. q.at = "notify" /\ q.text = req[r].text
    BY <1>1, <1>3 DEF Form
  <2>2. req' = [req EXCEPT ![r] = q]
    BY <1>1, <1>3 DEF AppendTwt
  <2> QED BY <1>1, <2>1, <2>2, PostingAssumption
<1>5. PICK line \in Twt \cup NoTwts : file' = Append(file, line) /\ line # Hole
  BY <1>1, PostingAssumption DEF AppendTwt, NoTwts
<1>6. /\ file' \in Seq(Twt \cup NoTwts) /\ Len(file') = Len(file) + 1
      /\ \A i \in 1..Len(file) : file'[i] = file[i]
      /\ file'[Len(file) + 1] # Hole
  BY <1>1, <1>5, AppendProperties DEF Feed
<1>7. disturbed' \subseteq Requests /\ disturbed \cup Caught(r) \subseteq disturbed'
  BY <1>1 DEF AppendTwt, Caught, Feed
<1>8. Mailed' /\ Feed'
  BY <1>1, <1>6, <1>7, MailStays DEF Feed
<1>9. /\ IsFiniteSet(Pending') /\ \A n \in Nat : Room(n) => Room(n)'
      /\ \A n \in Nat : Room(n) => Room(n + 1)'
  BY <1>1, <1>2, <1>4, RoomStays
<1>10. Room(Len(file))'
  <2>1. \A n \in Nat : Room(n + 1)' /\ n + 1 = Len(file') => Room(Len(file))'
    BY DEF Room
  <2> QED BY <1>1, <1>6, <1>9, <2>1
<1>11. Fresh(q)'
  BY <1>4 DEF Fresh
<1>12. PostingInv'
  BY <1>4, <1>7, <1>8, <1>9, <1>10, <1>11, OneMoves
<1> QED BY <1>6, <1>12

LEMMA NotifySends ==
  ASSUME PostingInv,
         NEW r \in Requests, Notify(r)
  PROVE  PostingInv'
<1>1. /\ req \in [Requests -> Form] /\ req[r] \in Form /\ req[r].at = "notify" /\ req[r].toSend > 0
      /\ Feed /\ Mailed /\ req[r].text \in Twt /\ UNCHANGED fileVars
      /\ Len(file) \in Nat /\ Room(Len(file))
  <2>1. req[r] \in Form /\ req[r].at = "notify" => req[r].text \in Twt
    BY DEF Form, PostingInv
  <2> QED BY <2>1, InvIs DEF Notify
<1>2. Mailed'
  <2>1. Send("outbox", req[r].text) /\ req[r].text \in Mention /\ "outbox" \in Box
    BY <1>1, PostingAssumption DEF Notify, SendNotification, Box
  <2> QED BY <1>1, <2>1, SendMails
<1>3. PICK q \in Form : q = [req[r] EXCEPT !.toSend = req[r].toSend - 1]
  <2>1. PICK n \in Nat : n = req[r].toSend - 1
    BY <1>1 DEF Form
  <2>2. [req[r] EXCEPT !.toSend = n] \in Form
    BY <1>1 DEF Form
  <2> QED BY <2>1, <2>2
<1>4. req' = [req EXCEPT ![r] = q] /\ q.at = "notify" /\ q.text # NoTwt
  <2>1. q.at = "notify" /\ q.text = req[r].text
    BY <1>1, <1>3 DEF Form
  <2>2. req' = [req EXCEPT ![r] = q]
    BY <1>1, <1>3 DEF Notify
  <2> QED BY <1>1, <2>1, <2>2, PostingAssumption
<1>5. file' = file /\ known' = known /\ left' = left /\ disturbed' = disturbed
  BY <1>1 DEF fileVars
<1>6. Feed'
  BY <1>1, <1>5 DEF Feed
<1>7. IsFiniteSet(Pending') /\ \A n \in Nat : Room(n) => Room(n)'
  BY <1>4, <1>5, RoomStays
<1>8. Room(Len(file))'
  <2>1. \A n \in Nat : Room(n)' /\ n = Len(file') => Room(Len(file))'
    BY DEF Room
  <2> QED BY <1>1, <1>5, <1>7, <2>1
<1>9. Fresh(q)'
  BY <1>4 DEF Fresh
<1> QED BY <1>2, <1>4, <1>5, <1>6, <1>7, <1>8, <1>9, OneMoves
LEMMA ArriveStarts ==
  ASSUME PostingInv, NEW r \in Requests, Submit(r)
  PROVE  PostingInv'
<1>1. /\ req \in [Requests -> Form] /\ req[r] = Idle /\ left > 0 /\ left' = left - 1
      /\ disturbed' = disturbed \ {r} /\ UNCHANGED <<webMentionVars, file>>
      /\ known' = known \cup ({req'[r].text} \ {NoTwt})
      /\ Feed /\ Mailed /\ Len(file) \in Nat /\ Room(Len(file))
  BY InvIs DEF Submit
<1>2. PICK op \in {"post", "delete", "patch"}, hash \in known \cup {NoTwt},
           text \in (Twt \ known) \cup {NoTwt} :
        req' = [req EXCEPT ![r] = [at |-> IF op = "post" THEN "last" ELSE "first", op |-> op,
                  hash |-> hash, text |-> text, offset |-> 0, toSend |-> 0]]
  BY DEF Submit
<1>3. PICK q \in Form :
        /\ req' = [req EXCEPT ![r] = q]
        /\ q.at = "last" \/ (q.at = "first" /\ q.op # "post")
  <2> DEFINE new == [at |-> IF op = "post" THEN "last" ELSE "first", op |-> op,
                     hash |-> hash, text |-> text, offset |-> 0, toSend |-> 0]
  <2>1. hash \in Twt \cup {NoTwt} /\ text \in Twt \cup {NoTwt}
    BY <1>1 DEF Feed
  <2>2. 0 \in 0..Len(OldTwts) + MaxRequests
    BY FeedIs
  <2>3. new \in Form /\ (new.at = "last" \/ (new.at = "first" /\ new.op # "post"))
    BY <2>1, <2>2 DEF Form, Places
  <2> HIDE DEF new
  <2>4. req' = [req EXCEPT ![r] = new]
    BY <1>2 DEF new
  <2> QED BY <2>3, <2>4
<1>4. /\ Pending' = Pending \cup {r} /\ r \notin Pending
  <2>1. req[r].at = "idle" /\ req'[r] = q /\ \A s \in Requests \ {r} : req'[s] = req[s]
    BY <1>1, <1>3 DEF Idle
  <2> QED BY <1>3, <2>1 DEF Pending
<1>5. /\ IsFiniteSet(Pending') /\ Cardinality(Pending') = Cardinality(Pending) + 1
      /\ Cardinality(Pending) \in Nat
  <2>1. IsFiniteSet(Pending)
    BY DEF PostingInv
  <2> QED BY <1>4, <2>1, FS_AddElement, FS_CardinalityType
<1>6. \A n \in Nat : Room(n) => Room(n)'
  BY <1>1, <1>5, FeedIs DEF Room, Feed
<1>7. Room(Len(file))'
  <2>1. \A n \in Nat : Room(n)' /\ n = Len(file') => Room(Len(file))'
    BY DEF Room
  <2> QED BY <1>1, <1>6, <2>1
<1>8. Mailed' /\ Feed'
  <2>1. req'[r].text \in Twt \cup {NoTwt}
    BY <1>1, <1>3 DEF Form
  <2>2. left' \in 0..MaxRequests
    BY <1>1, FeedIs DEF Feed
  <2> QED BY <1>1, <2>1, <2>2, MailStays DEF Feed
<1>9. Fresh(q)'
  BY <1>3 DEF Fresh
<1> QED BY <1>1, <1>3, <1>5, <1>6, <1>7, <1>8, <1>9, OneMoves

(* Steps that touch neither the feed nor a request.                        *)
LEMMA MailedInv ==
  ASSUME PostingInv, Mailed', req' = req, UNCHANGED fileVars
  PROVE  PostingInv'
<1>1. file' = file /\ known' = known /\ left' = left /\ disturbed' = disturbed
  BY DEF fileVars
<1>2. PostingTypeOK'
  BY <1>1 DEF PostingInv, PostingTypeOK, Mailed
<1>3. Pending' = Pending /\ (Room(Len(file)) => Room(Len(file))')
  BY <1>1 DEF Pending, Room
<1>4. IsFiniteSet(Pending)' /\ Room(Len(file))'
  BY <1>3 DEF PostingInv
<1>5. ASSUME NEW r \in Requests
      PROVE  /\ req'[r].at = "first" => req'[r].op # "post"
             /\ req'[r].at \in {"append", "notify"} => req'[r].text # NoTwt
             /\ req'[r].at = "truncate" => Room(req[r].offset)'
             /\ r \in disturbed' \/ Fresh(req[r])'
  <2>1. /\ req[r].at = "first" => req[r].op # "post"
        /\ req[r].at \in {"append", "notify"} => req[r].text # NoTwt
        /\ req[r].at = "truncate" => Room(req[r].offset)
        /\ r \in disturbed \/ Fresh(req[r])
    BY DEF PostingInv
  <2>2. Fresh(req[r]) => Fresh(req[r])'
    BY <1>1 DEF Fresh, LastTwt
  <2>3. Room(req[r].offset) => Room(req[r].offset)'
    BY <1>1, <1>3 DEF Room
  <2> QED BY <1>1, <2>1, <2>2, <2>3
<1> QED BY <1>2, <1>4, <1>5 DEF PostingInv, Mailed

(* Steps of the loops and of other pods, which touch no feed.              *)
LEMMA LoopsStay ==
  ASSUME PostingInv,
         (Loops \/ \E m \in Mention \ Twt : WebMentionEndpoint(m))
         /\ UNCHANGED <<fileVars, req>>
  PROVE  PostingInv'
<1>1. Mailed /\ req' = req /\ UNCHANGED fileVars
  BY InvIs
<1>2. Mailed'
  <2>1. CASE Loops
    BY <1>1, <2>1, TakeMails, LoopsMail DEF Loops
  <2>2. ASSUME NEW m \in Mention \ Twt, WebMentionEndpoint(m)
        PROVE  Mailed'
    <3>1. Send("inbox", m) /\ "inbox" \in Box
      BY <2>2 DEF WebMentionEndpoint, Box
    <3> QED BY <1>1, <3>1, SendMails
  <2> QED BY <2>1, <2>2
<1> QED BY <1>1, <1>2, MailedInv


LEMMA CrashStops ==
  ASSUME PostingInv, Crash
  PROVE  PostingInv'
<1>1. /\ file' = file /\ known' = known /\ left' = left /\ disturbed' = {}
      /\ req' = [r \in Requests |-> Idle]
      /\ Feed /\ Mailed /\ Len(file) \in Nat /\ Room(Len(file))
  BY InvIs DEF Crash
<1>2. Mailed'
  <2>1. PICK b \in Box : Panic(b)
    BY DEF Crash
  <2> QED BY <1>1, <2>1, LoopsMail
<1>3. PostingTypeOK'
  <2>1. req' \in [Requests -> Form] /\ Feed'
    BY <1>1, FeedIs DEF Feed
  <2> QED BY <1>2, <2>1 DEF Mailed, Feed, PostingTypeOK, Form, Places
<1>4. Pending' = {} /\ \A r \in Requests : req'[r].at = "idle"
  BY <1>1 DEF Pending, Idle
<1>5. IsFiniteSet(Pending)' /\ Room(Len(file))'
  <2>1. IsFiniteSet(Pending') /\ Cardinality(Pending') = 0
    BY <1>4, FS_EmptySet
  <2>2. Cardinality(Pending) \in Nat
    BY FS_CardinalityType DEF PostingInv
  <2> QED BY <1>1, <2>1, <2>2, FeedIs DEF Room, Feed
<1>6. \A r \in Requests : Fresh(req[r])'
  BY <1>4 DEF Fresh
<1> QED BY <1>2, <1>3, <1>4, <1>5, <1>6 DEF PostingInv, Mailed
(* The invariant holds at the start and is kept by every step.             *)
LEMMA PostingStarts ==
  ASSUME PostingInit
  PROVE  PostingInv
<1>1. Mailed
  BY MailStarts DEF PostingInit
<1>2. /\ file = OldTwts /\ left = MaxRequests /\ disturbed = {}
      /\ req = [r \in Requests |-> Idle] /\ known = ToSet(OldTwts)
  BY DEF PostingInit
<1>3. Feed
  <2>1. OldTwts \in Seq(Twt) /\ MaxRequests \in Nat
    BY PostingAssumption
  <2>2. OldTwts \in Seq(Twt \cup NoTwts) /\ ToSet(OldTwts) \subseteq Twt
    BY <2>1 DEF ToSet
  <2> QED BY <1>2, <2>1, <2>2 DEF Feed
<1>4. PostingTypeOK
  <2>1. req \in [Requests -> Form]
    BY <1>2, FeedIs
  <2> QED BY <1>1, <1>3, <2>1, TypesAre DEF Mailed
<1>5. Pending = {} /\ \A r \in Requests : req[r].at = "idle"
  BY <1>2 DEF Pending, Idle
<1>6. IsFiniteSet(Pending) /\ Room(Len(file))
  <2>1. IsFiniteSet(Pending) /\ Cardinality(Pending) = 0
    BY <1>5, FS_EmptySet
  <2> QED BY <1>2, <2>1, FeedIs DEF Room
<1>7. \A r \in Requests : Fresh(req[r])
  BY <1>5 DEF Fresh
<1> QED BY <1>1, <1>4, <1>5, <1>6, <1>7 DEF PostingInv, Mailed

LEMMA PostingStays ==
  ASSUME PostingInv, [PostingNext]_postingVars
  PROVE  PostingInv'
<1>1. CASE \E r \in Requests : Submit(r) \/ Handle(r)
  BY <1>1, ArriveStarts, ReadLastReads, ReadOffsetReads, TruncateCuts, CheckTextReads,
     AppendTwtAppends, NotifySends, RedirectReads
     DEF Handle
<1>2. CASE (Loops \/ \E m \in Mention \ Twt : WebMentionEndpoint(m))
           /\ UNCHANGED <<fileVars, req>>
  BY <1>2, LoopsStay
<1>3. CASE Crash
  BY <1>3, CrashStops
<1>4. CASE UNCHANGED postingVars
  <2>1. UNCHANGED <<webMentionVars, fileVars>> /\ req' = req
    BY <1>4 DEF postingVars, fileVars
  <2> QED BY <2>1, InvIs, MailStays, MailedInv
<1> QED BY <1>1, <1>2, <1>3, <1>4 DEF PostingNext

(* PostHandler (handlers.go:678-798): a request that found the file        *)
(* unchanged since it looked knows the last twt and where it begins, and   *)
(* there is room in the bound for every line a request may yet write.      *)
THEOREM PostingCorrect == PostingSpec => []PostingInv
<1>1. PostingInit => PostingInv
  BY PostingStarts
<1>2. PostingInv /\ [PostingNext]_postingVars => PostingInv'
  BY PostingStays
<1> QED BY <1>1, <1>2, PTL DEF PostingSpec

(* Types of the feed, its requests and the channels (handlers.go:678-798,  *)
(* webmention.go:16-101): no request sends a twt it does not have, and the *)
(* channels keep to their capacity.                                        *)
THEOREM PostingTyped == PostingSpec => []PostingTypeOK
<1>1. PostingInv => PostingTypeOK
  BY DEF PostingInv
<1> QED BY <1>1, PostingCorrect, PTL

-----------------------------------------------------------------------------
(* What a step does to the lines of the feed.                              *)
LastGoes ==
  \/ \E r \in disturbed : req[r].at = "truncate" /\ req'[r].at # "truncate"
  \/ /\ \A i \in DOMAIN file : file[i] \in ToSet(file') \cup NoTwts \/
          \E r \in Requests :
            /\ req[r].at = "truncate" /\ req'[r].at # "truncate"
            /\ i = Len(file) /\ (req[r].op # "post" \/ file[i] = req[r].hash)
     /\ Hole \in ToSet(file') => Hole \in ToSet(file)

(* Only two steps write the file: one adds a line, one takes the last.     *)
LEMMA FileStays == file' = file => LastGoes
<1>1. \A i \in DOMAIN file : file[i] \in ToSet(file)
  BY DEF ToSet
<1> QED BY <1>1 DEF LastGoes

LEMMA AppendKeeps ==
  ASSUME PostingInv, NEW r \in Requests, AppendTwt(r)
  PROVE  LastGoes
<1>1. file \in Seq(Twt \cup NoTwts) /\ file' \in Seq(Twt \cup NoTwts)
  BY InvIs, AppendTwtAppends, TypesAre DEF Feed, PostingInv, PostingTypeOK
<1>2. /\ Len(file') = Len(file) + 1 /\ \A i \in 1..Len(file) : file'[i] = file[i]
      /\ file'[Len(file) + 1] # Hole
  BY AppendTwtAppends
<1>3. Len(file) \in Nat /\ DOMAIN file = 1..Len(file) /\ DOMAIN file' = 1..Len(file) + 1
  BY <1>1, <1>2
<1>4. \A i \in DOMAIN file : file'[i] = file[i] /\ i \in DOMAIN file'
  BY <1>2, <1>3
<1>5. \A i \in DOMAIN file' : i \in DOMAIN file \/ i = Len(file) + 1
  BY <1>3
<1> QED BY <1>2, <1>4, <1>5 DEF ToSet, LastGoes

LEMMA TruncateTakesLast ==
  ASSUME PostingInv, NEW r \in Requests, Truncate(r)
  PROVE  LastGoes
<1>1. /\ req \in [Requests -> Form] /\ req[r] \in Form /\ req[r].at = "truncate"
      /\ req' = [req EXCEPT ![r] = Deleted(req[r])]
  BY InvIs DEF Truncate
<1>2. req'[r].at # "truncate"
  BY <1>1, DeletedIs
<1>3. CASE r \in disturbed
  BY <1>1, <1>2, <1>3 DEF LastGoes
<1>4. CASE r \notin disturbed
  <2>1. Fresh(req[r])
    BY <1>4 DEF PostingInv
  <2>2. file \in Seq(Twt \cup NoTwts) /\ Len(file) \in Nat
    BY InvIs DEF Feed
  <2>3. req[r].offset = (IF file = << >> THEN 0 ELSE Len(file) - 1)
    BY <1>1, <2>1 DEF Fresh
  <2>4. CASE file = << >>
    <3>1. Len(file) = 0 /\ req[r].offset = 0
      BY <2>3, <2>4
    <3>2. file' = SubSeq(file, 1, 0)
      BY <3>1 DEF Truncate
    <3>3. file' = file
      BY <2>4, <3>2
    <3> QED BY <3>3, FileStays
  <2>5. CASE file # << >>
    <3>1. Len(file) # 0
      BY <2>2, <2>5, EmptySeq
    <3>2. PICK n \in Nat : n = req[r].offset /\ n + 1 = Len(file) /\ n <= Len(file)
      <4>1. req[r].offset \in Nat /\ req[r].offset + 1 = Len(file)
            /\ req[r].offset <= Len(file)
        BY <2>2, <2>3, <2>5, <3>1
      <4> QED BY <4>1
    <3>3. file' = SubSeq(file, 1, n)
      BY <3>2 DEF Truncate
    <3>4. DOMAIN file = 1..n + 1 /\ DOMAIN file' = 1..n /\ \A i \in 1..n : file'[i] = file[i]
      <4>1. file' \in Seq(Twt \cup NoTwts) /\ Len(file') = n /\ \A i \in 1..n : file'[i] = file[i]
        BY <2>2, <3>2, <3>3, CutIs
      <4> QED BY <2>2, <3>2, <4>1
    <3>5. \A i \in DOMAIN file : i \in DOMAIN file' \/ i = Len(file)
      BY <3>2, <3>4
    <3>6. req[r].op # "post" \/ file[Len(file)] = req[r].hash
      BY <1>1, <2>1, <2>5 DEF Fresh, LastTwt, Last
    <3>7. \A i \in DOMAIN file' : i \in DOMAIN file
      BY <3>2, <3>4
    <3> QED BY <1>1, <1>2, <3>4, <3>5, <3>6, <3>7 DEF ToSet, LastGoes
  <2> QED BY <2>4, <2>5
<1> QED BY <1>3, <1>4

(* DeleteLastTwt (twt.go:73-94) as PostHandler calls it: a twt leaves the  *)
(* feed only as its last one, deleted, or edited from a page that showed   *)
(* it, and no truncation makes a hole, for any feed, texts and number of   *)
(* requests, unless the file was written between the reading of the offset *)
(* and the truncation.                                                     *)
THEOREM OnlyLastTwtGoes == PostingSpec => OnlyLastGoes
<1>1. PostingInv /\ [PostingNext]_postingVars => [LastGoes]_postingVars
  <2> SUFFICES ASSUME PostingInv, PostingNext PROVE LastGoes
    OBVIOUS
  <2>1. ASSUME NEW r \in Requests, Submit(r) \/ Handle(r)
        PROVE  LastGoes
    <3>1. Truncate(r) \/ AppendTwt(r) \/ file' = file
      BY <2>1 DEF Submit, Handle, ReadLast, ReadOffset, CheckText, Notify,
                  Redirect, fileVars
    <3> QED BY <3>1, TruncateTakesLast, AppendKeeps, FileStays
  <2>2. CASE (Loops \/ \E m \in Mention \ Twt : WebMentionEndpoint(m))
             /\ UNCHANGED <<fileVars, req>>
    BY <2>2, FileStays DEF fileVars
  <2>3. CASE Crash
    BY <2>3, FileStays DEF Crash
  <2> QED BY <2>1, <2>2, <2>3 DEF PostingNext
<1> QED BY <1>1, PostingCorrect, PTL DEF PostingSpec, OnlyLastGoes, LastGoes
=======================================================================
