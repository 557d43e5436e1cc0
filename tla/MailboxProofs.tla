---------------------------- MODULE MailboxProofs ----------------------------
(***************************************************************************)
(* Proofs about Mailbox: however views, deletions, senders and crashes     *)
(* meet, no message is doubled, none goes that was not chosen, none comes  *)
(* back and the badge misses none, unless two rewritings met.              *)
(***************************************************************************)
EXTENDS Mailbox, FiniteSetTheorems, SequenceTheorems, TLAPS

LEMMA Numbers ==
  /\ IsFiniteSet(Message) /\ IsFiniteSet(Request) /\ NoFile \notin File
  /\ MaxRequests \in Nat /\ MaxRestarts \in Nat
BY MailboxAssumption

-----------------------------------------------------------------------------
(* Lines                                                                   *)

LEMMA AppendFacts ==
  ASSUME NEW lines \in Seq(Line), NEW line \in Line
  PROVE  LET longer == Append(lines, line) IN
         /\ longer \in Seq(Line) /\ Len(longer) = Len(lines) + 1
         /\ DOMAIN longer = 1 .. Len(lines) + 1
         /\ \A i \in DOMAIN lines : i \in DOMAIN longer /\ longer[i] = lines[i]
         /\ longer[Len(lines) + 1] = line
BY AppendProperties

LEMMA LinesAre ==
  ASSUME NEW lines \in Seq(Line)
  PROVE  /\ Len(lines) \in Nat /\ DOMAIN lines = 1 .. Len(lines)
         /\ \A i \in DOMAIN lines : lines[i] \in Line /\ lines[i].msg \in Message
                                    /\ lines[i].read \in BOOLEAN
<1>1. Len(lines) \in Nat /\ DOMAIN lines = 1 .. Len(lines)
  BY LenProperties
<1>2. \A i \in DOMAIN lines : lines[i] \in Line
  BY <1>1, ElementOfSeq
<1> QED BY <1>1, <1>2 DEF Line

LEMMA HeldAppend ==
  ASSUME NEW lines \in Seq(Line), NEW line \in Line
  PROVE  Held(Append(lines, line)) = Held(lines) \cup {line.msg}
BY AppendFacts, LinesAre DEF Held

LEMMA DistinctAppend ==
  ASSUME NEW lines \in Seq(Line), NEW line \in Line, Distinct(lines), line.msg \notin Held(lines)
  PROVE  Distinct(Append(lines, line))
<1> DEFINE n == Len(lines)
           longer == Append(lines, line)
<1>1. /\ DOMAIN longer = 1 .. n + 1 /\ n \in Nat /\ DOMAIN lines = 1 .. n
      /\ \A i \in 1 .. n : longer[i] = lines[i]
      /\ longer[n + 1] = line
  BY AppendFacts, LinesAre
<1> HIDE DEF n, longer
<1>2. \A i \in 1 .. n : lines[i].msg # line.msg
  BY <1>1 DEF Held
<1>3. Distinct(longer)
  <2> SUFFICES ASSUME NEW i \in 1 .. n + 1, NEW j \in 1 .. n + 1, longer[i].msg = longer[j].msg
               PROVE  i = j
    BY <1>1 DEF Distinct
  <2>1. CASE i \in 1 .. n /\ j \in 1 .. n
    BY <1>1, <2>1 DEF Distinct
  <2>2. CASE i = n + 1 \/ j = n + 1
    BY <1>1, <1>2, <2>2
  <2> QED BY <1>1, <2>1, <2>2
<1> QED BY <1>3 DEF longer

LEMMA UnreadIs ==
  ASSUME NEW lines \in Seq(Line)
  PROVE  Unread(lines) \in Nat /\ IsFiniteSet({i \in DOMAIN lines : ~lines[i].read})
<1>1. IsFiniteSet(1 .. Len(lines))
  BY LinesAre, FS_Interval
<1>2. IsFiniteSet({i \in DOMAIN lines : ~lines[i].read})
  BY <1>1, LinesAre, FS_Subset
<1> QED BY <1>2, FS_CardinalityType DEF Unread

LEMMA UnreadAppend ==
  ASSUME NEW lines \in Seq(Line), NEW line \in Line
  PROVE  Unread(Append(lines, line)) = Unread(lines) + (IF line.read THEN 0 ELSE 1)
<1> DEFINE n == Len(lines)
           longer == Append(lines, line)
           U(s) == {i \in DOMAIN s : ~s[i].read}
<1>1. /\ DOMAIN longer = 1 .. n + 1 /\ n \in Nat /\ DOMAIN lines = 1 .. n
      /\ \A i \in 1 .. n : longer[i] = lines[i]
      /\ longer[n + 1] = line
  BY AppendFacts, LinesAre
<1>2. IsFiniteSet(U(lines)) /\ Cardinality(U(lines)) \in Nat
  BY UnreadIs DEF Unread
<1> HIDE DEF n, longer
<1>3. n + 1 \notin U(lines)
  BY <1>1
<1>4. U(longer) = IF line.read THEN U(lines) ELSE U(lines) \cup {n + 1}
  BY <1>1
<1> HIDE DEF U
<1>5. Cardinality(U(longer)) = Cardinality(U(lines)) + (IF line.read THEN 0 ELSE 1)
  <2>1. Cardinality(U(lines) \cup {n + 1}) = Cardinality(U(lines)) + 1
    BY <1>2, <1>3, FS_AddElement
  <2> QED BY <1>2, <1>4, <2>1
<1> QED BY <1>5 DEF Unread, U, longer

\* As many messages as lines: none is there twice.
LEMMA DistinctCounts ==
  ASSUME NEW lines \in Seq(Line), Distinct(lines)
  PROVE  Cardinality(Held(lines)) = Len(lines)
<1> DEFINE n == Len(lines)
           f == [i \in 1 .. n |-> lines[i].msg]
<1>1. n \in Nat /\ DOMAIN lines = 1 .. n
  BY LinesAre
<1>2. f \in Bijection(1 .. n, Held(lines))
  <2>1. f \in [1 .. n -> Held(lines)]
    BY <1>1 DEF Held
  <2>2. f \in Injection(1 .. n, Held(lines))
    BY <1>1, <2>1 DEF Distinct, Injection, IsInjective
  <2>3. f \in Surjection(1 .. n, Held(lines))
    BY <1>1, <2>1 DEF Held, Surjection
  <2> QED BY <2>2, <2>3 DEF Bijection
<1>3. IsFiniteSet(1 .. n) /\ Cardinality(1 .. n) = n
  BY <1>1, FS_Interval
<1> HIDE DEF f
<1> QED BY <1>2, <1>3, FS_Bijection DEF ExistsBijection

LEMMA EmptyLines ==
  /\ << >> \in Seq(Line) /\ Held(<< >>) = {} /\ Distinct(<< >>) /\ Unread(<< >>) = 0
  /\ Len(<< >>) = 0 /\ DOMAIN << >> = {}
BY FS_EmptySet, EmptySeq DEF Held, Distinct, Unread

-----------------------------------------------------------------------------
(* One line of a rewrite                                                   *)

LEMMA ContinueBefore ==
  ASSUME NEW q, NEW p, q.pos \in Nat, p.pos = q.pos + 1
  PROVE  Before(p) = Before(q) \cup {p.pos} /\ p.pos \notin Before(q)
BY DEF Before

\* What is copied is unread unless it was picked, or had been read.
Marked(q, i, line) == [line EXCEPT !.read = @ \/ i \in q.ids]

LEMMA MarkedIs ==
  ASSUME NEW q, NEW i, NEW line \in Line
  PROVE  /\ Marked(q, i, line) \in Line /\ Marked(q, i, line).msg = line.msg
         /\ Marked(q, i, line).read <=> line.read \/ i \in q.ids
BY DEF Marked, Line

LEMMA UnpickedFinite ==
  ASSUME NEW q, q.pos \in Nat, NEW old
  PROVE  LET S == {i \in Before(q) : ~old[i].read /\ i \notin q.ids}
         IN  IsFiniteSet(S) /\ Cardinality(S) \in Nat
<1>1. IsFiniteSet(Before(q))
  BY FS_Interval DEF Before
<1> QED BY <1>1, FS_Subset, FS_CardinalityType

LEMMA CopySkips ==
  ASSUME NEW q, NEW p, q.pos \in Nat, p.pos = q.pos + 1, p.op = q.op, p.ids = q.ids,
         NEW old \in Seq(Line), NEW copied \in Seq(Line), CopySound(q, old, copied),
         p.pos \in DOMAIN old, Skipped(q, p.pos)
  PROVE  CopySound(p, old, copied)
<1>1. Before(p) = Before(q) \cup {p.pos} /\ p.pos \notin Before(q)
  BY ContinueBefore
<1>2. \A i : Skipped(p, i) <=> Skipped(q, i)
  BY DEF Skipped
<1>3. p.pos <= Len(old)
  BY LinesAre
<1>4. Held(copied) = {old[i].msg : i \in {j \in Before(p) : ~Skipped(p, j)}}
  BY <1>1, <1>2 DEF CopySound
<1>5. Unread(copied) <= Cardinality({i \in Before(p) : ~old[i].read /\ i \notin p.ids})
  <2>1. {i \in Before(p) : ~old[i].read /\ i \notin p.ids}
          = {i \in Before(q) : ~old[i].read /\ i \notin q.ids}
    BY <1>1 DEF Skipped
  <2> QED BY <2>1 DEF CopySound
<1>6. \A k \in DOMAIN copied : \E j \in Before(p) :
        old[j].msg = copied[k].msg /\ (old[j].read => copied[k].read)
  BY <1>1 DEF CopySound
<1>7. ~(\A i \in Before(p) : ~Skipped(p, i))
  BY <1>1, <1>2
<1> QED BY <1>3, <1>4, <1>5, <1>6, <1>7 DEF CopySound

LEMMA CopyKeeps ==
  ASSUME NEW q, NEW p, q.pos \in Nat, p.pos = q.pos + 1, p.op = q.op, p.ids = q.ids,
         NEW old \in Seq(Line), NEW copied \in Seq(Line), CopySound(q, old, copied),
         Distinct(old), p.pos \in DOMAIN old, ~Skipped(q, p.pos)
  PROVE  CopySound(p, old, Append(copied, Marked(q, p.pos, old[p.pos])))
<1> DEFINE line == Marked(q, p.pos, old[p.pos])
           longer == Append(copied, line)
           S(r) == {i \in Before(r) : ~old[i].read /\ i \notin r.ids}
<1>1. Before(p) = Before(q) \cup {p.pos} /\ p.pos \notin Before(q)
  BY ContinueBefore
<1>2. \A i : Skipped(p, i) <=> Skipped(q, i)
  BY DEF Skipped
<1>3. p.pos <= Len(old) /\ \A i \in Before(p) : i \in DOMAIN old
  BY LinesAre DEF Before
<1>4. old[p.pos] \in Line /\ line \in Line /\ line.msg = old[p.pos].msg
      /\ (line.read <=> old[p.pos].read \/ p.pos \in q.ids)
  BY LinesAre, MarkedIs
<1>5. /\ longer \in Seq(Line) /\ Len(longer) = Len(copied) + 1
      /\ DOMAIN longer = 1 .. Len(copied) + 1 /\ DOMAIN copied = 1 .. Len(copied)
      /\ Len(copied) \in Nat
      /\ \A i \in DOMAIN copied : i \in DOMAIN longer /\ longer[i] = copied[i]
      /\ longer[Len(copied) + 1] = line
      /\ Held(longer) = Held(copied) \cup {line.msg}
      /\ Unread(longer) = Unread(copied) + (IF line.read THEN 0 ELSE 1)
  BY <1>4, AppendFacts, LinesAre, HeldAppend, UnreadAppend
<1>6. line.msg \notin Held(copied)
  <2>1. \A i \in Before(q) : old[i].msg # old[p.pos].msg
    BY <1>1, <1>3 DEF Distinct
  <2> QED BY <1>4, <2>1 DEF CopySound
<1>7. Distinct(longer)
  BY <1>4, <1>6, DistinctAppend DEF CopySound
<1> HIDE DEF line, longer
<1>8. Held(longer) = {old[i].msg : i \in {j \in Before(p) : ~Skipped(p, j)}}
  BY <1>1, <1>2, <1>4, <1>5 DEF CopySound
<1>9. Unread(longer) <= Cardinality(S(p))
  <2>1. IsFiniteSet(S(q)) /\ Cardinality(S(q)) \in Nat /\ Unread(copied) \in Nat
    BY UnpickedFinite, UnreadIs
  <2>2. Unread(copied) <= Cardinality(S(q))
    BY DEF CopySound
  <2>3. CASE line.read
    <3>1. S(p) = S(q)
      BY <1>1, <1>4, <2>3
    <3> HIDE DEF S
    <3> QED BY <1>5, <2>1, <2>2, <2>3, <3>1
  <2>4. CASE ~line.read
    <3>1. S(p) = S(q) \cup {p.pos} /\ p.pos \notin S(q)
      BY <1>1, <1>4, <2>4
    <3> HIDE DEF S
    <3>2. Cardinality(S(p)) = Cardinality(S(q)) + 1
      BY <2>1, <3>1, FS_AddElement
    <3> QED BY <1>5, <2>1, <2>2, <2>4, <3>2
  <2> QED BY <2>3, <2>4
<1>10. ASSUME NEW k \in DOMAIN longer
       PROVE  \E j \in Before(p) : old[j].msg = longer[k].msg /\ (old[j].read => longer[k].read)
  <2>1. CASE k \in DOMAIN copied
    BY <1>1, <1>5, <2>1 DEF CopySound
  <2>2. CASE k = Len(copied) + 1
    BY <1>1, <1>4, <1>5, <2>2
  <2> QED BY <1>5, <2>1, <2>2
<1>11. ASSUME \A i \in Before(p) : ~Skipped(p, i)
       PROVE  Len(longer) = p.pos /\ \A i \in Before(p) : longer[i].msg = old[i].msg
  <2>1. Len(copied) = q.pos /\ \A i \in Before(q) : copied[i].msg = old[i].msg
    BY <1>1, <1>2, <1>11 DEF CopySound
  <2>2. \A i \in Before(q) : i \in DOMAIN copied
    BY <1>5, <2>1 DEF Before
  <2> QED BY <1>1, <1>4, <1>5, <2>1, <2>2
<1>12. CopySound(p, old, longer)
  BY <1>3, <1>7, <1>8, <1>9, <1>10, <1>11 DEF CopySound
<1> QED BY <1>12 DEF longer, line

\* Lines that are appended behind what has been copied change nothing.
LEMMA CopyBehind ==
  ASSUME NEW q, q.pos \in Nat, NEW old \in Seq(Line), NEW line \in Line, NEW copied \in Seq(Line),
         CopySound(q, old, copied)
  PROVE  CopySound(q, Append(old, line), copied)
<1> DEFINE longer == Append(old, line)
<1>1. Len(longer) = Len(old) + 1 /\ Len(old) \in Nat
  BY AppendFacts, LinesAre
<1>2. \A i \in Before(q) : longer[i] = old[i]
  BY AppendFacts, LinesAre DEF Before, CopySound
<1> HIDE DEF longer
<1>3. {longer[i].msg : i \in {j \in Before(q) : ~Skipped(q, j)}}
        = {old[i].msg : i \in {j \in Before(q) : ~Skipped(q, j)}}
  BY <1>2
<1>4. {i \in Before(q) : ~longer[i].read /\ i \notin q.ids}
        = {i \in Before(q) : ~old[i].read /\ i \notin q.ids}
  BY <1>2
<1>5. q.pos <= Len(longer)
  BY <1>1 DEF CopySound
<1>6. CopySound(q, longer, copied)
  BY <1>2, <1>3, <1>4, <1>5 DEF CopySound
<1> QED BY <1>6 DEF longer

\* A rewrite begins with nothing.
LEMMA CopyBegins ==
  ASSUME NEW q, q.pos = 0, NEW old \in Seq(Line)
  PROVE  CopySound(q, old, << >>)
<1>1. Before(q) = {} /\ Len(old) \in Nat
  BY LinesAre DEF Before
<1>2. {old[i].msg : i \in {j \in Before(q) : ~Skipped(q, j)}} = {}
  BY <1>1
<1>3. {i \in Before(q) : ~old[i].read /\ i \notin q.ids} = {}
  BY <1>1
<1> QED BY <1>1, <1>2, <1>3, EmptyLines, FS_EmptySet DEF CopySound

-----------------------------------------------------------------------------
(* Types, and what files hold                                              *)

FileTypes ==
  /\ dataIsHere \in BOOLEAN /\ content \in [File -> Seq(Line)]
  /\ box \in File /\ new \in File \cup {NoFile} /\ new # box

CountTypes ==
  /\ count \in Int /\ listed \in Seq(Line) /\ upToDate \in BOOLEAN
  /\ requests \in 0 .. MaxRequests /\ restarts \in 0 .. MaxRestarts
  /\ fouled \in BOOLEAN /\ misses \in Nat

SenderTypes ==
  /\ sender \in [Message -> {"idle", "open", "written", "sent"}]
  /\ into \in [Message -> File \cup {NoFile}]
  /\ \A m \in Message : into[m] # NoFile <=> sender[m] = "open"

RequestTypes ==
  /\ request \in [Request -> Requests]
  /\ \A r \in Request : Rewriting(r) => request[r].src # NoFile

LEMMA TypeParts == TypeOK <=> FileTypes /\ CountTypes /\ SenderTypes /\ RequestTypes
BY DEF TypeOK, FileTypes, CountTypes, SenderTypes, RequestTypes

Sound == TypeOK /\ FilesSound

LEMMA IdleIs ==
  /\ Idle \in Requests /\ Idle.pc = "idle" /\ ~Idle.upToDate /\ Idle.pos = 0
  /\ Idle.src = NoFile /\ Idle.dst = NoFile
BY DEF Idle, Requests

LEMMA SenderSteps ==
  ASSUME Sound, NEW m \in Message, Send(m)
  PROVE  TypeOK' /\ FilesSound'
<1> USE TypeParts DEF Sound
<1>1. /\ UNCHANGED <<request, listed, upToDate, requests, restarts, fouled, misses, dataIsHere, box, new>>
      /\ count' \in {count, count + 1} /\ count' \in Int
      /\ RequestTypes' /\ CountTypes'
  BY DEF Send, Open, Write, AppendElsewhere, Inc, fileVars, pageVars, historyVars, senderVars,
         RequestTypes, CountTypes, Rewriting
<1>2. CASE content' = content
  <2>1. SenderTypes' /\ FilesSound'
    <3>1. CASE Open(m)
      <4>1. SenderTypes'
        BY <3>1, Numbers DEF Open, SenderTypes, FileTypes
      <4>2. \A f \in File : \A k \in Held(content'[f]) : sender'[k] \in {"written", "sent"}
        BY <1>2, <3>1 DEF Open, SenderTypes, FilesSound
      <4>3. \A k \in Message : into'[k] = new' => new' = NoFile
        BY <1>1, <3>1 DEF Open, SenderTypes, FileTypes, FilesSound
      <4> QED BY <1>1, <4>1, <4>2, <4>3 DEF FilesSound
    <3>2. CASE AppendElsewhere(m)
      BY <1>1, <1>2, <3>2 DEF AppendElsewhere, SenderTypes, FilesSound
    <3>3. CASE Inc(m)
      BY <1>1, <1>2, <3>3 DEF Inc, SenderTypes, FilesSound
    <3>4. CASE Write(m)
      <4>1. SenderTypes'
        BY <3>4, Numbers DEF Write, SenderTypes, FileTypes
      <4>2. \A f \in File : \A k \in Held(content'[f]) : sender'[k] \in {"written", "sent"}
        BY <1>2, <3>4 DEF Write, SenderTypes, FilesSound
      <4>3. \A k \in Message : into'[k] = new' => new' = NoFile
        BY <1>1, <3>4 DEF Write, SenderTypes, FileTypes, FilesSound
      <4> QED BY <1>1, <4>1, <4>2, <4>3 DEF FilesSound
    <3> QED BY <3>1, <3>2, <3>3, <3>4 DEF Send
  <2>2. FileTypes'
    BY <1>1, <1>2 DEF FileTypes
  <2> QED BY <1>1, <2>1, <2>2 DEF TypeOK, FileTypes, CountTypes, SenderTypes, RequestTypes
<1>3. CASE Write(m)
  <2> DEFINE f == into[m]
             line == [msg |-> m, read |-> FALSE]
  <2>1. f \in File /\ line \in Line /\ line.msg = m
    BY <1>3, Numbers DEF Write, SenderTypes, Line
  <2>2. content' = [content EXCEPT ![f] = Append(content[f], line)]
    BY <1>3 DEF Write
  <2> HIDE DEF f, line
  <2>3. content'[f] = Append(content[f], line) /\ Append(content[f], line) \in Seq(Line)
        /\ \A g \in File \ {f} : content'[g] = content[g]
    BY <2>1, <2>2, AppendFacts DEF FileTypes
  <2>4. FileTypes'
    BY <1>1, <2>2, <2>3 DEF FileTypes
  <2>5. SenderTypes'
    BY <1>3, Numbers DEF Write, SenderTypes, FileTypes
  <2>6. Held(content'[f]) = Held(content[f]) \cup {m}
    BY <2>1, <2>3, HeldAppend DEF FileTypes
  <2>7. sender'[m] = "written" /\ \A k \in Message \ {m} : sender'[k] = sender[k]
    BY <1>3 DEF Write, SenderTypes
  <2>8. \A g \in File : Held(content[g]) \subseteq Message
    BY LinesAre DEF FileTypes, Held
  <2>9. \A g \in File : \A k \in Held(content'[g]) : sender'[k] \in {"written", "sent"}
    BY <2>3, <2>6, <2>7, <2>8 DEF FilesSound
  <2>10. \A k \in Message : into'[k] = new' => new' = NoFile
    BY <1>1, <1>3 DEF Write, SenderTypes, FileTypes, FilesSound
  <2>11. FilesSound'
    BY <1>1, <2>9, <2>10 DEF FilesSound
  <2> QED
    BY <1>1, <2>4, <2>5, <2>11 DEF TypeOK, FileTypes, CountTypes, SenderTypes, RequestTypes
<1> QED BY <1>2, <1>3 DEF Send, Open, AppendElsewhere, Inc, fileVars

\* What each step makes of the request that takes it.
LEMMA AskMakes ==
  ASSUME Sound, NEW r \in Request, NEW op \in {"view", "delete"}, NEW ids, Ask(r, op, ids)
  PROVE  \E w \in Requests :
           /\ request' = [request EXCEPT ![r] = w] /\ w.pc \in {"get", "open"}
           /\ w.ids = ids /\ w.upToDate = upToDate /\ \A i \in ids : listed[i].msg \in w.chosen
<1> USE TypeParts DEF Sound
<1> DEFINE pc == IF op = "view" THEN "get" ELSE "open"
           chosen == {listed[i].msg : i \in ids}
           w == [Idle EXCEPT !.pc = pc, !.op = op, !.ids = ids, !.upToDate = upToDate,
                             !.chosen = chosen]
<1>1. request' = [request EXCEPT ![r] = w] /\ ids \subseteq DOMAIN listed
  BY DEF Ask
<1>2. chosen \subseteq Message /\ ids \in SUBSET (Nat \ {0})
  BY <1>1, LinesAre DEF CountTypes
<1>3. pc \in {"get", "open"} /\ upToDate \in BOOLEAN
  BY DEF CountTypes
<1>4. chosen = {listed[i].msg : i \in ids}
  OBVIOUS
<1> HIDE DEF pc, chosen
<1>5. w \in Requests
  BY <1>2, <1>3 DEF Idle, Requests
<1>6. w.pc = pc /\ w.ids = ids /\ w.upToDate = upToDate /\ w.chosen = chosen
  BY DEF Idle
<1> HIDE DEF w
<1> QED BY <1>1, <1>3, <1>4, <1>5, <1>6

LEMMA GetMakes ==
  ASSUME Sound, NEW r \in Request, Get(r)
  PROVE  \E w \in Requests :
           /\ request' = [request EXCEPT ![r] = w] /\ w.pc \in {"idle", "open"}
           /\ w.upToDate =>
                request[r].upToDate /\ w.ids = request[r].ids /\ w.chosen = request[r].chosen
<1> USE TypeParts DEF Sound
<1> DEFINE w == [request[r] EXCEPT !.pc = "open"]
<1>1. request' = [request EXCEPT ![r] = w] \/ request' = [request EXCEPT ![r] = Idle]
  BY DEF Get
<1>2. request[r] \in Requests
  BY DEF RequestTypes
<1>3. w \in Requests /\ w.pc = "open" /\ w.upToDate = request[r].upToDate
      /\ w.ids = request[r].ids /\ w.chosen = request[r].chosen
  BY <1>2 DEF Requests
<1> HIDE DEF w
<1> QED BY <1>1, <1>3, IdleIs

LEMMA OpenBoxMakes ==
  ASSUME Sound, NEW r \in Request, OpenBox(r)
  PROVE  \E w \in Requests :
           /\ request' = [request EXCEPT ![r] = w] /\ w.pc = "create" /\ w.src = box
           /\ w.upToDate = request[r].upToDate /\ w.ids = request[r].ids
           /\ w.chosen = request[r].chosen
<1> USE TypeParts DEF Sound
<1> DEFINE w == [request[r] EXCEPT !.pc = "create", !.src = box]
<1>1. request[r] \in Requests
  BY DEF RequestTypes
<1>2. /\ w \in Requests /\ w.pc = "create" /\ w.src = box
      /\ w.upToDate = request[r].upToDate /\ w.ids = request[r].ids
      /\ w.chosen = request[r].chosen
  BY <1>1 DEF Requests, FileTypes
<1>3. request' = [request EXCEPT ![r] = w]
  BY <1>1 DEF OpenBox
<1> HIDE DEF w
<1> QED BY <1>2, <1>3

LEMMA OpenNewMakes ==
  ASSUME Sound, NEW r \in Request, OpenNew(r)
  PROVE  /\ new' \in File /\ new' # box /\ \A m \in Message : into[m] # new'
         /\ content' = content \/ content' = [content EXCEPT ![new'] = << >>]
         /\ ~fouled' => content' = [content EXCEPT ![new'] = << >>]
         /\ \E w \in Requests :
              /\ request' = [request EXCEPT ![r] = w] /\ w.pc = "copy" /\ w.dst = new'
              /\ w.upToDate = request[r].upToDate /\ w.ids = request[r].ids
              /\ w.chosen = request[r].chosen /\ w.src = request[r].src /\ w.pos = 0
<1> USE TypeParts DEF Sound
<1>1. request[r] \in Requests
  BY DEF RequestTypes
<1>2. /\ new' \in File /\ new' # box /\ \A m \in Message : into[m] # new'
      /\ content' = content \/ content' = [content EXCEPT ![new'] = << >>]
      /\ ~fouled' => content' = [content EXCEPT ![new'] = << >>]
      /\ request' = [request EXCEPT ![r].pc = "copy", ![r].dst = new', ![r].pos = 0]
  <2>1. CASE new # NoFile
    BY <2>1 DEF OpenNew, FileTypes, FilesSound
  <2>2. CASE new = NoFile
    <3>1. PICK f \in File : Free(f)
      BY <2>2 DEF OpenNew
    <3>2. new' \in File /\ Free(new')
      <4>1. new' = CHOOSE g \in File : Free(g)
        BY <2>2 DEF OpenNew
      <4>2. LET c == CHOOSE g \in File : Free(g) IN c \in File /\ Free(c)
        BY <3>1
      <4> QED BY <4>1, <4>2, Zenon
    <3>3. /\ content' = [content EXCEPT ![new'] = << >>]
          /\ request' = [request EXCEPT ![r].pc = "copy", ![r].dst = new', ![r].pos = 0]
      BY <2>2 DEF OpenNew
    <3> QED BY <3>2, <3>3 DEF Free
  <2> QED BY <2>1, <2>2
<1>3. PICK f \in File : f = new'
  BY <1>2
<1> DEFINE w == [request[r] EXCEPT !.pc = "copy", !.dst = f, !.pos = 0]
<1>4. /\ w \in Requests /\ w.pc = "copy" /\ w.dst = f
      /\ w.upToDate = request[r].upToDate /\ w.ids = request[r].ids
      /\ w.chosen = request[r].chosen /\ w.src = request[r].src /\ w.pos = 0
  BY <1>1 DEF Requests
<1>5. request' = [request EXCEPT ![r] = w]
  BY <1>1, <1>2, <1>3
<1> HIDE DEF w
<1> QED BY <1>2, <1>3, <1>4, <1>5

LEMMA CopyMakes ==
  ASSUME Sound, NEW r \in Request, Copy(r)
  PROVE  \E w \in Requests :
           /\ request' = [request EXCEPT ![r] = w] /\ w.pc = "copy"
           /\ w.pos = request[r].pos + 1 /\ w.pos \in DOMAIN content[request[r].src]
           /\ w.op = request[r].op
           /\ w.upToDate = request[r].upToDate /\ w.ids = request[r].ids
           /\ w.chosen = request[r].chosen /\ w.src = request[r].src /\ w.dst = request[r].dst
           /\ IF Skipped(request[r], w.pos) THEN content' = content
              ELSE content' = [content EXCEPT ![w.dst] =
                     Append(@, Marked(request[r], w.pos, content[w.src][w.pos]))]
<1> USE TypeParts DEF Sound
<1> DEFINE q == request[r]
           i == q.pos + 1
           w == [q EXCEPT !.pos = i]
<1>1. q \in Requests /\ q.pc = "copy" /\ i \in DOMAIN content[q.src]
  BY DEF RequestTypes, Copy
<1>2. /\ w \in Requests /\ w.pc = "copy" /\ w.pos = i /\ w.op = q.op
      /\ w.upToDate = q.upToDate /\ w.ids = q.ids
      /\ w.chosen = q.chosen /\ w.src = q.src /\ w.dst = q.dst
  BY <1>1 DEF Requests
<1>3. request' = [request EXCEPT ![r] = w]
  BY <1>1 DEF Copy
<1>4. q.src \in File /\ q.dst \in File
  BY <1>1 DEF RequestTypes, Rewriting, FilesSound, Requests
<1>5. content[q.src] \in Seq(Line) /\ content[q.dst] \in Seq(Line)
  BY <1>4 DEF FileTypes
<1>6. content[q.src][i] \in Line
  BY <1>1, <1>5, LinesAre
<1>7. content' = [content EXCEPT ![q.dst] = content[q.dst] \o Copied(q, i)]
  BY DEF Copy
<1> HIDE DEF w, i, q
<1>8. CASE Skipped(q, i)
  <2>1. content[q.dst] \o Copied(q, i) = content[q.dst]
    BY <1>5, <1>8, ConcatEmptySeq DEF Copied
  <2>2. content' = content
    BY <1>4, <1>7, <2>1 DEF FileTypes
  <2> QED BY <1>1, <1>2, <1>3, <1>8, <2>2 DEF q, i
<1>9. CASE ~Skipped(q, i)
  <2> DEFINE line == Marked(q, i, content[q.src][i])
  <2>1. line \in Line
    BY <1>6, MarkedIs
  <2>2. Copied(q, i) = <<line>>
    BY <1>9 DEF Copied, Marked
  <2> HIDE DEF line
  <2>3. content[q.dst] \o Copied(q, i) = Append(content[q.dst], line)
    BY <1>5, <2>1, <2>2, AppendIsConcat
  <2>4. content' = [content EXCEPT ![q.dst] = Append(@, line)]
    BY <1>7, <2>3
  <2> QED BY <1>1, <1>2, <1>3, <1>9, <2>4 DEF q, i, line
<1> QED BY <1>8, <1>9

LEMMA RewrittenIs ==
  ASSUME NEW r
  PROVE  /\ Rewritten(r) \in Requests /\ ~Rewritten(r).upToDate
         /\ Rewritten(r).pc = IF request[r].op = "view" THEN "dec" ELSE "idle"
BY DEF Rewritten, Idle, Requests

LEMMA CopyEndsMakes ==
  ASSUME Sound, NEW r \in Request, CopyEnds(r)
  PROVE  \E w \in Requests :
           /\ request' = [request EXCEPT ![r] = w] /\ w.pc = "swap"
           /\ w.pos = request[r].pos /\ w.op = request[r].op
           /\ w.upToDate = request[r].upToDate /\ w.ids = request[r].ids
           /\ w.chosen = request[r].chosen /\ w.src = request[r].src /\ w.dst = request[r].dst
<1> USE TypeParts DEF Sound
<1> DEFINE w == [request[r] EXCEPT !.pc = "swap"]
<1>1. request[r] \in Requests
  BY DEF RequestTypes
<1>2. /\ w \in Requests /\ w.pc = "swap"
      /\ w.pos = request[r].pos /\ w.op = request[r].op
      /\ w.upToDate = request[r].upToDate /\ w.ids = request[r].ids
      /\ w.chosen = request[r].chosen /\ w.src = request[r].src /\ w.dst = request[r].dst
  BY <1>1 DEF Requests
<1>3. request' = [request EXCEPT ![r] = w]
  BY <1>1 DEF CopyEnds
<1> HIDE DEF w
<1> QED BY <1>2, <1>3

\* A request whose page is made older, and nothing else of it.
LEMMA AgedIs ==
  ASSUME NEW w \in Requests, NEW b \in BOOLEAN
  PROVE  LET v == [w EXCEPT !.upToDate = b] IN
         /\ v \in Requests /\ v.pc = w.pc /\ v.op = w.op /\ v.ids = w.ids /\ v.chosen = w.chosen
         /\ v.src = w.src /\ v.dst = w.dst /\ v.pos = w.pos /\ (v.upToDate <=> b)
BY DEF Requests

\* The messages of the box are all in <user>.new.
NoneLost == IF new = NoFile THEN TRUE ELSE Held(content[box]) \subseteq Held(content[new])

LEMMA SwapMakes ==
  ASSUME Sound, NEW r \in Request, Swap(r)
  PROVE  /\ request' \in [Request -> Requests] /\ request'[r] = Rewritten(r)
         /\ \A s \in Request \ {r} :
              /\ request'[s].pc = request[s].pc /\ request'[s].ids = request[s].ids
              /\ request'[s].chosen = request[s].chosen /\ request'[s].src = request[s].src
              /\ request'[s].dst = request[s].dst
              /\ (request'[s].upToDate => request[s].upToDate /\ NoneLost)
<1> USE TypeParts DEF Sound
<1> DEFINE V(s) == [request[s] EXCEPT !.upToDate = @ /\ NoneLost]
<1>1. request' = [s \in Request |-> IF s = r THEN Rewritten(r) ELSE V(s)]
  BY Zenon DEF Swap, NoneLost
<1>2. ASSUME NEW s \in Request
      PROVE  /\ V(s) \in Requests
             /\ V(s).pc = request[s].pc /\ V(s).ids = request[s].ids
             /\ V(s).chosen = request[s].chosen /\ V(s).src = request[s].src
             /\ V(s).dst = request[s].dst
             /\ (V(s).upToDate => request[s].upToDate /\ NoneLost)
  <2> DEFINE b == request[s].upToDate /\ NoneLost
  <2>1. request[s] \in Requests
    BY DEF RequestTypes
  <2>2. b \in BOOLEAN /\ (b => request[s].upToDate /\ NoneLost)
    OBVIOUS
  <2>3. V(s) = [request[s] EXCEPT !.upToDate = b]
    OBVIOUS
  <2> HIDE DEF b, V
  <2> QED BY <2>1, <2>2, <2>3, AgedIs
<1> HIDE DEF V
<1> QED BY <1>1, <1>2, RewrittenIs

LEMMA DeleteAllMakes ==
  ASSUME Sound, DeleteAll
  PROVE  /\ request' \in [Request -> Requests]
         /\ \A s \in Request :
              /\ request'[s].pc = request[s].pc /\ ~request'[s].upToDate
              /\ \/ request'[s].src = request[s].src /\ request'[s].dst = request[s].dst
                 \/ request[s].pc = "idle"
<1> USE TypeParts DEF Sound
<1> DEFINE V(s) == [request[s] EXCEPT !.upToDate = FALSE]
<1>1. request' = [s \in Request |-> IF request[s].pc = "idle" THEN Idle ELSE V(s)]
  BY DEF DeleteAll
<1>2. ASSUME NEW s \in Request
      PROVE  /\ V(s) \in Requests /\ V(s).pc = request[s].pc /\ V(s).src = request[s].src
             /\ V(s).dst = request[s].dst /\ ~V(s).upToDate
  <2>1. request[s] \in Requests
    BY DEF RequestTypes
  <2> QED BY <2>1, AgedIs
<1> HIDE DEF V
<1> QED BY <1>1, <1>2, IdleIs

-----------------------------------------------------------------------------
(* TypeOK and FilesSound are inductive                                     *)

\* One request goes on; files are those that were there or <user>.new, new.
LEMMA RequestGoesOn ==
  ASSUME RequestTypes, FilesSound, NEW r \in Request, NEW w \in Requests,
         request' = [request EXCEPT ![r] = w],
         w.pc \in {"create", "copy", "swap"} => w.src # NoFile,
         w.pc \in {"copy", "swap"} => w.dst \in File
  PROVE  /\ RequestTypes'
         /\ \A s \in Request : request'[s].pc \in {"copy", "swap"} => request'[s].dst \in File
<1>1. request' \in [Request -> Requests] /\ request'[r] = w
      /\ \A s \in Request \ {r} : request'[s] = request[s]
  BY DEF RequestTypes
<1> QED BY <1>1 DEF RequestTypes, Rewriting, FilesSound

LEMMA RewriteSound1 ==
  ASSUME Sound, NEW r \in Request, Get(r) \/ OpenBox(r) \/ CopyEnds(r) \/ CopyFails(r) \/ Dec(r)
  PROVE  TypeOK' /\ FilesSound'
<1> USE TypeParts DEF Sound
<1>1. /\ UNCHANGED <<fileVars, pageVars, senderVars, requests, restarts>>
      /\ CountTypes'
  <2>1. UNCHANGED <<fileVars, pageVars, senderVars, requests, restarts>>
    BY DEF Get, OpenBox, CopyEnds, CopyFails, Dec
  <2>2. count' \in Int /\ misses' \in Nat
    BY DEF Get, OpenBox, CopyEnds, CopyFails, Dec, CountTypes, historyVars
  <2>3. fouled' \in BOOLEAN
    BY Zenon DEF Get, OpenBox, CopyEnds, CopyFails, Dec, CountTypes, historyVars
  <2> QED BY <2>1, <2>2, <2>3 DEF CountTypes, pageVars
<1>2. \E w \in Requests :
        /\ request' = [request EXCEPT ![r] = w]
        /\ w.pc \in {"create", "copy", "swap"} => w.src # NoFile
        /\ w.pc \in {"copy", "swap"} => w.dst \in File
  <2>1. CASE Get(r)
    BY <2>1, GetMakes
  <2>2. CASE OpenBox(r)
    BY <2>2, OpenBoxMakes, Numbers DEF FileTypes
  <2>3. CASE CopyEnds(r)
    <3>1. request[r].src # NoFile /\ request[r].dst \in File
      BY <2>3 DEF CopyEnds, RequestTypes, Rewriting, FilesSound
    <3> QED BY <2>3, <3>1, CopyEndsMakes
  <2>4. CASE CopyFails(r)
    <3>1. request' = [request EXCEPT ![r] = Rewritten(r)]
      BY <2>4 DEF CopyFails
    <3> QED BY <3>1, RewrittenIs
  <2>5. CASE Dec(r)
    BY <2>5, IdleIs DEF Dec
  <2> QED BY <2>1, <2>2, <2>3, <2>4, <2>5
<1>3. /\ RequestTypes'
      /\ \A s \in Request : request'[s].pc \in {"copy", "swap"} => request'[s].dst \in File
  BY <1>2, RequestGoesOn
<1>4. FileTypes' /\ SenderTypes' /\ FilesSound'
  BY <1>1, <1>3 DEF FileTypes, SenderTypes, FilesSound, fileVars, senderVars
<1> QED BY <1>1, <1>3, <1>4 DEF TypeOK, FileTypes, CountTypes, SenderTypes, RequestTypes

LEMMA AskSound ==
  ASSUME Sound, NEW r \in Request, NEW op \in {"view", "delete"}, NEW ids, Ask(r, op, ids)
  PROVE  TypeOK' /\ FilesSound'
<1> USE TypeParts DEF Sound
<1>1. UNCHANGED <<fileVars, pageVars, senderVars>> /\ CountTypes'
  BY Numbers DEF Ask, CountTypes, fileVars, pageVars, senderVars, historyVars
<1>2. /\ RequestTypes'
      /\ \A s \in Request : request'[s].pc \in {"copy", "swap"} => request'[s].dst \in File
  BY AskMakes, RequestGoesOn
<1>3. FileTypes' /\ SenderTypes' /\ FilesSound'
  BY <1>1, <1>2 DEF FileTypes, SenderTypes, FilesSound, fileVars, senderVars
<1> QED BY <1>1, <1>2, <1>3 DEF TypeOK, FileTypes, CountTypes, SenderTypes, RequestTypes

LEMMA OpenNewSound ==
  ASSUME Sound, NEW r \in Request, OpenNew(r)
  PROVE  TypeOK' /\ FilesSound'
<1> USE TypeParts DEF Sound
<1>1. UNCHANGED <<dataIsHere, box, count, pageVars, senderVars>> /\ CountTypes'
  BY DEF OpenNew, CountTypes, pageVars, senderVars, historyVars
<1>2. /\ new' \in File /\ new' # box /\ \A m \in Message : into[m] # new'
      /\ content' = content \/ content' = [content EXCEPT ![new'] = << >>]
  BY OpenNewMakes
<1>3. /\ RequestTypes'
      /\ \A s \in Request : request'[s].pc \in {"copy", "swap"} => request'[s].dst \in File
  <2>1. request[r].src # NoFile
    BY DEF OpenNew, RequestTypes, Rewriting
  <2> QED BY <1>2, <2>1, OpenNewMakes, RequestGoesOn
<1>4. \A f \in File : content'[f] = content[f] \/ content'[f] = << >>
  BY <1>2 DEF FileTypes
<1>5. FileTypes' /\ SenderTypes'
  <2>1. content' \in [File -> Seq(Line)]
    <3>1. content' = content \/ \E f : content' = [content EXCEPT ![f] = << >>]
      BY <1>2
    <3> QED BY <3>1, EmptyLines DEF FileTypes
  <2> QED BY <1>1, <1>2, <2>1 DEF FileTypes, SenderTypes, senderVars
<1>6. \A f \in File : \A m \in Held(content'[f]) : sender'[m] \in {"written", "sent"}
  BY <1>1, <1>4, EmptyLines DEF FilesSound, senderVars
<1>7. FilesSound'
  BY <1>1, <1>2, <1>3, <1>6 DEF FilesSound, senderVars
<1> QED BY <1>1, <1>3, <1>5, <1>7 DEF TypeOK, FileTypes, CountTypes, SenderTypes, RequestTypes

LEMMA CopyIsSound ==
  ASSUME Sound, NEW r \in Request, Copy(r)
  PROVE  TypeOK' /\ FilesSound'
<1> USE TypeParts DEF Sound
<1>1. UNCHANGED <<dataIsHere, box, new, count, pageVars, senderVars>> /\ CountTypes'
  BY DEF Copy, CountTypes, pageVars, senderVars, historyVars
<1>2. request[r].src \in File /\ request[r].dst \in File
  BY DEF Copy, RequestTypes, Rewriting, FilesSound, Requests
<1>3. PICK w \in Requests :
        /\ request' = [request EXCEPT ![r] = w] /\ w.pc = "copy"
        /\ w.src = request[r].src /\ w.dst = request[r].dst
        /\ w.pos \in DOMAIN content[w.src]
        /\ IF Skipped(request[r], w.pos) THEN content' = content
           ELSE content' = [content EXCEPT ![w.dst] =
                  Append(@, Marked(request[r], w.pos, content[w.src][w.pos]))]
  BY CopyMakes
<1>4. /\ RequestTypes'
      /\ \A s \in Request : request'[s].pc \in {"copy", "swap"} => request'[s].dst \in File
  BY <1>2, <1>3, RequestGoesOn, Numbers
<1> DEFINE old == content[w.src][w.pos]
           line == Marked(request[r], w.pos, old)
<1>5. old \in Line /\ old.msg \in Held(content[w.src]) /\ line \in Line /\ line.msg = old.msg
  BY <1>2, <1>3, LinesAre, MarkedIs DEF FileTypes, Held
<1>6. \A f \in File : content'[f] = content[f] \/ content'[f] = Append(content[f], line)
  BY <1>2, <1>3 DEF FileTypes
<1> HIDE DEF old, line
<1>7. \A f \in File : Append(content[f], line) \in Seq(Line)
        /\ Held(Append(content[f], line)) = Held(content[f]) \cup {old.msg}
  BY <1>5, AppendFacts, HeldAppend DEF FileTypes
<1>8. FileTypes' /\ SenderTypes'
  <2>1. content' \in [File -> Seq(Line)]
    <3>1. \E g : content' = [content EXCEPT ![request[r].dst] = g] \/ content' = content
      BY <1>3
    <3> QED BY <1>6, <1>7, <3>1 DEF FileTypes
  <2> QED BY <1>1, <2>1 DEF FileTypes, SenderTypes, senderVars
<1>9. \A f \in File : \A m \in Held(content'[f]) : sender'[m] \in {"written", "sent"}
  BY <1>1, <1>2, <1>3, <1>5, <1>6, <1>7 DEF FilesSound, senderVars
<1>10. FilesSound'
  BY <1>1, <1>4, <1>9 DEF FilesSound, senderVars
<1> QED BY <1>1, <1>4, <1>8, <1>10 DEF TypeOK, FileTypes, CountTypes, SenderTypes, RequestTypes

LEMMA SwapSound ==
  ASSUME Sound, NEW r \in Request, Swap(r)
  PROVE  TypeOK' /\ FilesSound'
<1> USE TypeParts DEF Sound
<1>1. /\ UNCHANGED <<dataIsHere, content, count, listed, senderVars, requests, restarts, fouled>>
      /\ new' = NoFile /\ box' \in File
  BY DEF Swap, FileTypes
<1>2. misses' \in Nat /\ upToDate' \in BOOLEAN
  BY DEF Swap, CountTypes
<1>3. /\ request' \in [Request -> Requests] /\ request'[r].pc \in {"idle", "dec"}
      /\ \A s \in Request \ {r} :
           /\ request'[s].pc = request[s].pc /\ request'[s].src = request[s].src
           /\ request'[s].dst = request[s].dst
  BY SwapMakes, RewrittenIs
<1>4. RequestTypes'
  BY <1>3 DEF RequestTypes, Rewriting
<1>5. FilesSound'
  BY <1>1, <1>3 DEF FilesSound, senderVars
<1>6. FileTypes' /\ CountTypes' /\ SenderTypes'
  BY <1>1, <1>2, Numbers DEF FileTypes, CountTypes, SenderTypes, senderVars
<1> QED BY <1>4, <1>5, <1>6 DEF TypeOK, FileTypes, CountTypes, SenderTypes, RequestTypes

LEMMA DeleteAllSound ==
  ASSUME Sound, DeleteAll
  PROVE  TypeOK' /\ FilesSound'
<1> USE TypeParts DEF Sound
<1>1. UNCHANGED <<dataIsHere, box, new, count, listed, senderVars, restarts, misses>>
      /\ content' = [content EXCEPT ![box] = << >>]
  BY DEF DeleteAll
<1>2. CountTypes'
  <2>1. requests' \in 0 .. MaxRequests
    BY Numbers DEF DeleteAll, CountTypes
  <2>2. fouled' \in BOOLEAN /\ upToDate' \in BOOLEAN
    BY Zenon DEF DeleteAll, CountTypes
  <2> QED BY <1>1, <2>1, <2>2 DEF CountTypes
<1>3. /\ request' \in [Request -> Requests]
      /\ \A s \in Request :
           \/ request'[s].pc = request[s].pc /\ request'[s].src = request[s].src
              /\ request'[s].dst = request[s].dst
           \/ request'[s].pc = "idle"
  BY DeleteAllMakes, IdleIs
<1>4. RequestTypes'
  BY <1>3 DEF RequestTypes, Rewriting
<1>5. FileTypes' /\ SenderTypes'
  BY <1>1, EmptyLines DEF FileTypes, SenderTypes, senderVars
<1>6. \A f \in File : content'[f] = content[f] \/ content'[f] = << >>
  BY <1>1 DEF FileTypes
<1>7. FilesSound'
  BY <1>1, <1>3, <1>6, EmptyLines DEF FilesSound, senderVars
<1> QED BY <1>2, <1>4, <1>5, <1>7 DEF TypeOK, FileTypes, CountTypes, SenderTypes, RequestTypes

LEMMA RestartSound ==
  ASSUME Sound, Restart
  PROVE  TypeOK' /\ FilesSound'
<1> USE TypeParts DEF Sound
<1>1. UNCHANGED <<fileVars, pageVars, requests, historyVars>> /\ request' = [r \in Request |-> Idle]
      /\ into' = [m \in Message |-> NoFile]
      /\ sender' = [m \in Message |-> IF sender[m] = "idle" THEN "idle" ELSE "sent"]
      /\ count' = Unread(content[box])
  BY DEF Restart
<1>2. CountTypes'
  <2>1. count' \in Int
    <3>1. Unread(content[box]) \in Nat
      BY UnreadIs DEF FileTypes
    <3> QED BY <1>1, <3>1
  <2> QED BY <1>1, <2>1, Numbers DEF Restart, CountTypes, pageVars, historyVars
<1>3. RequestTypes'
  BY <1>1, IdleIs DEF RequestTypes, Rewriting
<1>4. FileTypes' /\ SenderTypes'
  BY <1>1, Numbers DEF FileTypes, SenderTypes, fileVars
<1>5. FilesSound'
  <2>1. \A f \in File : Held(content[f]) \subseteq Message
    BY LinesAre DEF FileTypes, Held
  <2> QED BY <1>1, <2>1, IdleIs, Numbers DEF FilesSound, SenderTypes, fileVars
<1> QED BY <1>2, <1>3, <1>4, <1>5 DEF TypeOK, FileTypes, CountTypes, SenderTypes, RequestTypes

LEMMA ListSound ==
  ASSUME Sound, List
  PROVE  TypeOK' /\ FilesSound'
<1> USE TypeParts DEF Sound
<1>1. UNCHANGED <<fileVars, senderVars, request>> /\ CountTypes'
  BY DEF List, CountTypes, FileTypes, historyVars
<1>2. FileTypes' /\ SenderTypes' /\ RequestTypes' /\ FilesSound'
  BY <1>1 DEF FileTypes, SenderTypes, RequestTypes, FilesSound, Rewriting, fileVars, senderVars
<1> QED BY <1>1, <1>2 DEF TypeOK, FileTypes, CountTypes, SenderTypes, RequestTypes

LEMMA SoundStep == Sound /\ [Next]_vars => Sound'
<1> SUFFICES ASSUME Sound, [Next]_vars PROVE TypeOK' /\ FilesSound'
  BY DEF Sound
<1>1. CASE UNCHANGED vars
  BY <1>1 DEF vars, fileVars, pageVars, senderVars, historyVars, Sound, TypeOK, FilesSound, Rewriting
<1>2. ASSUME NEW r \in Request, View(r) \/ Delete(r) PROVE TypeOK' /\ FilesSound'
  BY <1>2, AskSound DEF View, Delete
<1> QED
  BY <1>1, <1>2, SenderSteps, RewriteSound1, OpenNewSound, CopyIsSound, SwapSound, DeleteAllSound,
     RestartSound, ListSound DEF Next, Rewrite

-----------------------------------------------------------------------------
(* Counts of messages and requests in a state                              *)

\* Sets that differ at most by x.
LEMMA OneChanges ==
  ASSUME NEW F, IsFiniteSet(F), NEW G, IsFiniteSet(G), NEW x, F \ {x} = G \ {x}
  PROVE  /\ Cardinality(F) \in Nat /\ Cardinality(G) \in Nat
         /\ x \notin F /\ x \in G => Cardinality(G) = Cardinality(F) + 1
         /\ x \in F /\ x \notin G => Cardinality(G) = Cardinality(F) - 1
         /\ (x \in F <=> x \in G) => Cardinality(G) = Cardinality(F)
<1>2. Cardinality(F) \in Nat /\ Cardinality(G) \in Nat
  BY FS_CardinalityType
<1>3. ASSUME x \notin F, x \in G PROVE Cardinality(G) = Cardinality(F) + 1
  <2>1. G = F \cup {x}
    BY <1>3
  <2> QED BY <1>3, <2>1, FS_AddElement
<1>4. ASSUME x \in F, x \notin G PROVE Cardinality(G) = Cardinality(F) - 1
  <2>1. F = G \cup {x}
    BY <1>4
  <2>2. Cardinality(F) = Cardinality(G) + 1
    BY <1>4, <2>1, FS_AddElement
  <2> QED BY <1>2, <2>2
<1>5. ASSUME x \in F <=> x \in G PROVE G = F
  BY <1>5
<1> QED BY <1>2, <1>3, <1>4, <1>5

Uncounted == Cardinality({m \in Message : sender[m] = "written"})

Subtracting == Cardinality({r \in Request : request[r].pc = "dec"})

LEMMA CountIs == CountSound <=> count + misses + Uncounted >= Unread(content[box]) + Subtracting
BY DEF CountSound, Uncounted, Subtracting

LEMMA CountTypesAre ==
  ASSUME Sound
  PROVE  /\ count \in Int /\ misses \in Nat /\ Uncounted \in Nat /\ Subtracting \in Nat
         /\ content[box] \in Seq(Line) /\ Unread(content[box]) \in Nat
<1>1. count \in Int /\ misses \in Nat /\ content[box] \in Seq(Line)
  BY DEF Sound, TypeOK
<1>2. IsFiniteSet({m \in Message : sender[m] = "written"})
      /\ IsFiniteSet({r \in Request : request[r].pc = "dec"})
  BY Numbers, FS_Subset
<1> QED BY <1>1, <1>2, UnreadIs, FS_CardinalityType DEF Uncounted, Subtracting

\* A message is written or counted.
LEMMA SenderCounts ==
  ASSUME NEW m \in Message, \A k \in Message \ {m} : sender'[k] = sender[k]
  PROVE  /\ Uncounted \in Nat /\ Uncounted' \in Nat
         /\ sender[m] # "written" /\ sender'[m] = "written" => Uncounted' = Uncounted + 1
         /\ sender[m] = "written" /\ sender'[m] # "written" => Uncounted' = Uncounted - 1
         /\ (sender[m] = "written" <=> sender'[m] = "written") => Uncounted' = Uncounted
<1>1. PICK F : F = {k \in Message : sender[k] = "written"}
  OBVIOUS
<1>2. PICK G : G = {k \in Message : sender'[k] = "written"}
  OBVIOUS
<1>3. IsFiniteSet(F) /\ IsFiniteSet(G)
  BY <1>1, <1>2, Numbers, FS_Subset
<1>4. F \ {m} = G \ {m} /\ (m \in F <=> sender[m] = "written") /\ (m \in G <=> sender'[m] = "written")
  BY <1>1, <1>2
<1>5. Uncounted = Cardinality(F) /\ Uncounted' = Cardinality(G)
  BY <1>1, <1>2 DEF Uncounted
<1> QED BY <1>3, <1>4, <1>5, OneChanges

\* A request comes to the count or leaves it.
LEMMA RequestCounts ==
  ASSUME NEW r \in Request, \A s \in Request \ {r} : request'[s].pc = request[s].pc
  PROVE  /\ Subtracting \in Nat /\ Subtracting' \in Nat
         /\ request[r].pc # "dec" /\ request'[r].pc = "dec" => Subtracting' = Subtracting + 1
         /\ request[r].pc = "dec" /\ request'[r].pc # "dec" => Subtracting' = Subtracting - 1
         /\ (request[r].pc = "dec" <=> request'[r].pc = "dec") => Subtracting' = Subtracting
<1>1. PICK F : F = {s \in Request : request[s].pc = "dec"}
  OBVIOUS
<1>2. PICK G : G = {s \in Request : request'[s].pc = "dec"}
  OBVIOUS
<1>3. IsFiniteSet(F) /\ IsFiniteSet(G)
  BY <1>1, <1>2, Numbers, FS_Subset
<1>4. F \ {r} = G \ {r} /\ (r \in F <=> request[r].pc = "dec") /\ (r \in G <=> request'[r].pc = "dec")
  BY <1>1, <1>2
<1>5. Subtracting = Cardinality(F) /\ Subtracting' = Cardinality(G)
  BY <1>1, <1>2 DEF Subtracting
<1> QED BY <1>3, <1>4, <1>5, OneChanges

LEMMA CountIsNext ==
  CountSound' <=> count' + misses' + Uncounted' >= Unread(content'[box']) + Subtracting'
BY DEF CountSound, Uncounted, Subtracting

-----------------------------------------------------------------------------
(* Unless it was fouled, the mailbox stays clean                           *)

Clean == Distinct(content[box]) /\ RewriteSound /\ PageSound /\ CountSound

\* A step of one request that leaves the mailbox, the page and the counts alone.
LEMMA PageGoesOn ==
  ASSUME RequestTypes, PageSound, NEW r \in Request, NEW w,
         request' = [request EXCEPT ![r] = w],
         w.upToDate => request[r].upToDate /\ w.ids = request[r].ids /\ w.chosen = request[r].chosen,
         content'[box'] = content[box], listed' = listed, upToDate' = upToDate
  PROVE  PageSound'
<1>1. request'[r] = w /\ \A s \in Request \ {r} : request'[s] = request[s]
  BY DEF RequestTypes
<1> QED BY <1>1 DEF PageSound

LEMMA RewriteGoesOn ==
  ASSUME RequestTypes, RewriteSound, NEW r \in Request, NEW w,
         request' = [request EXCEPT ![r] = w],
         box' = box,
         \/ w.pc \notin {"create", "copy", "swap"} /\ new' = new /\ content' = content
         \/ /\ \A s \in Request \ {r} : ~Rewriting(s)
            /\ w.src = box
            /\ w.pc \in {"copy", "swap"} => w.dst = new' /\ CopySound(w, content'[box], content'[new'])
  PROVE  RewriteSound'
<1>1. request'[r] = w /\ \A s \in Request \ {r} : request'[s] = request[s]
  BY DEF RequestTypes
<1>2. \A s \in Request \ {r} : Rewriting(s)' <=> Rewriting(s)
  BY <1>1 DEF Rewriting
<1>3. Rewriting(r)' <=> w.pc \in {"create", "copy", "swap"}
  BY <1>1 DEF Rewriting
<1>4. CASE w.pc \notin {"create", "copy", "swap"} /\ new' = new /\ content' = content
  <2> SUFFICES ASSUME NEW q \in Request, Rewriting(q)'
               PROVE  /\ \A s \in Request : Rewriting(s)' => s = q
                      /\ request'[q].src = box'
                      /\ request'[q].pc \in {"copy", "swap"} =>
                           /\ request'[q].dst = new'
                           /\ CopySound(request'[q], content'[box'], content'[new'])
    BY DEF RewriteSound, Rewriting
  <2>1. q # r /\ Rewriting(q) /\ request'[q] = request[q]
    BY <1>1, <1>2, <1>3, <1>4
  <2> QED BY <1>2, <1>3, <1>4, <2>1 DEF RewriteSound
<1>5. CASE /\ \A s \in Request \ {r} : ~Rewriting(s)
           /\ w.src = box
           /\ w.pc \in {"copy", "swap"} => w.dst = new' /\ CopySound(w, content'[box], content'[new'])
  <2> SUFFICES ASSUME NEW q \in Request, Rewriting(q)'
               PROVE  /\ \A s \in Request : Rewriting(s)' => s = q
                      /\ request'[q].src = box'
                      /\ request'[q].pc \in {"copy", "swap"} =>
                           /\ request'[q].dst = new'
                           /\ CopySound(request'[q], content'[box'], content'[new'])
    BY DEF RewriteSound, Rewriting
  <2>1. q = r
    BY <1>2, <1>5
  <2> QED BY <1>1, <1>2, <1>5, <2>1
<1> QED BY <1>4, <1>5

LEMMA CountGoesOn ==
  ASSUME Sound, CountSound, NEW r \in Request, NEW w,
         request' = [request EXCEPT ![r] = w],
         sender' = sender, content'[box'] = content[box],
         \/ request[r].pc # "dec" /\ w.pc # "dec" /\ count' + misses' = count + misses
         \/ request[r].pc # "dec" /\ w.pc = "dec" /\ count' + misses' = count + misses + 1
         \/ request[r].pc = "dec" /\ w.pc # "dec" /\ count' + misses' = count + misses - 1
  PROVE  CountSound'
<1>1. request'[r] = w /\ \A s \in Request \ {r} : request'[s].pc = request[s].pc
  BY DEF Sound, TypeOK
<1>2. Uncounted' = Uncounted
  BY DEF Uncounted
<1>3. /\ Subtracting \in Nat /\ Subtracting' \in Nat
      /\ request[r].pc # "dec" /\ w.pc # "dec" => Subtracting' = Subtracting
      /\ request[r].pc # "dec" /\ w.pc = "dec" => Subtracting' = Subtracting + 1
      /\ request[r].pc = "dec" /\ w.pc # "dec" => Subtracting' = Subtracting - 1
  BY <1>1, RequestCounts
<1>4. count \in Int /\ misses \in Nat /\ Uncounted \in Nat /\ Unread(content[box]) \in Nat
  BY CountTypesAre
<1>5. count + misses + Uncounted >= Unread(content[box]) + Subtracting
  BY CountIs
<1>6. count' + misses' + Uncounted' >= Unread(content'[box']) + Subtracting'
  BY <1>2, <1>3, <1>4, <1>5
<1> QED BY <1>6, CountIsNext

\* Requests that do not rewrite, or give up.
LEMMA AskClean ==
  ASSUME Sound, Clean, NEW r \in Request, NEW op \in {"view", "delete"}, NEW ids, Ask(r, op, ids)
  PROVE  Clean'
<1> USE TypeParts DEF Sound
<1>1. /\ UNCHANGED <<fileVars, listed, upToDate, sender, count, misses>>
      /\ content'[box'] = content[box] /\ request[r] = Idle
  BY DEF Ask, fileVars, pageVars, senderVars, historyVars
<1>2. PICK w \in Requests :
        /\ request' = [request EXCEPT ![r] = w] /\ w.pc \in {"get", "open"}
        /\ w.ids = ids /\ w.upToDate = upToDate /\ \A i \in ids : listed[i].msg \in w.chosen
  BY AskMakes
<1>3. RewriteSound'
  BY <1>1, <1>2, RewriteGoesOn DEF Clean, fileVars
<1>4. CountSound'
  <2>1. sender' = sender /\ count' + misses' = count + misses
    BY <1>1
  <2> QED BY <1>1, <1>2, IdleIs, <2>1, CountGoesOn DEF Clean
<1>5. PageSound'
  <2>1. request'[r] = w /\ \A s \in Request \ {r} : request'[s] = request[s]
    BY <1>2 DEF RequestTypes
  <2>2. ASSUME upToDate, NEW i \in ids
        PROVE  i \in DOMAIN content[box] /\ content[box][i].msg \in w.chosen
    <3>1. i \in DOMAIN listed
      BY <2>2 DEF Ask
    <3>2. listed \in Seq(Line) /\ content[box] \in Seq(Line)
      BY DEF CountTypes, FileTypes
    <3>3. i \in DOMAIN content[box]
      BY <2>2, <3>1, <3>2, LinesAre DEF Clean, PageSound
    <3> QED BY <1>2, <2>2, <3>1, <3>3 DEF Clean, PageSound
  <2> QED BY <1>1, <1>2, <2>1, <2>2 DEF Clean, PageSound
<1>6. Distinct(content[box])'
  BY <1>1 DEF Clean, Distinct
<1> QED BY <1>3, <1>4, <1>5, <1>6 DEF Clean

LEMMA GetClean ==
  ASSUME Sound, Clean, NEW r \in Request, Get(r)
  PROVE  Clean'
<1> USE TypeParts DEF Sound
<1>1. /\ UNCHANGED <<fileVars, listed, upToDate, sender, count, misses>>
      /\ content'[box'] = content[box] /\ request[r].pc = "get"
  BY DEF Get, fileVars, pageVars, senderVars, historyVars
<1>2. PICK w \in Requests :
        /\ request' = [request EXCEPT ![r] = w] /\ w.pc \in {"idle", "open"}
        /\ w.upToDate =>
             request[r].upToDate /\ w.ids = request[r].ids /\ w.chosen = request[r].chosen
  BY GetMakes
<1>3. RewriteSound'
  BY <1>1, <1>2, RewriteGoesOn DEF Clean, fileVars
<1>4. CountSound'
  <2>1. sender' = sender /\ count' + misses' = count + misses
    BY <1>1
  <2> QED BY <1>1, <1>2, <2>1, CountGoesOn DEF Clean
<1>5. PageSound'
  BY <1>1, <1>2, PageGoesOn DEF Clean
<1>6. Distinct(content[box])'
  BY <1>1 DEF Clean, Distinct
<1> QED BY <1>3, <1>4, <1>5, <1>6 DEF Clean

LEMMA CopyFailsClean ==
  ASSUME Sound, Clean, NEW r \in Request, CopyFails(r)
  PROVE  Clean'
<1> USE TypeParts DEF Sound
<1>1. /\ UNCHANGED <<fileVars, listed, upToDate, sender, count>>
      /\ content'[box'] = content[box] /\ request[r].pc = "copy"
      /\ request' = [request EXCEPT ![r] = Rewritten(r)]
      /\ misses' = IF request[r].op = "view" THEN misses + 1 ELSE misses
  BY DEF CopyFails, fileVars, pageVars, senderVars
<1>2. /\ Rewritten(r) \in Requests /\ ~Rewritten(r).upToDate
      /\ Rewritten(r).pc = IF request[r].op = "view" THEN "dec" ELSE "idle"
  BY RewrittenIs
<1>3. RewriteSound'
  BY <1>1, <1>2, RewriteGoesOn DEF Clean, fileVars
<1>4. CountSound'
  <2>1. count' + misses' = count + misses + (IF request[r].op = "view" THEN 1 ELSE 0)
    BY <1>1, CountTypesAre
  <2>2. count \in Int /\ misses \in Nat
    BY CountTypesAre
  <2>3. request[r].pc # "dec" /\ sender' = sender
    BY <1>1
  <2>4. CASE request[r].op = "view"
    <3>1. Rewritten(r).pc = "dec" /\ count' + misses' = count + misses + 1
      BY <1>2, <2>1, <2>4
    <3> QED BY <1>1, <2>3, <3>1, CountGoesOn DEF Clean
  <2>5. CASE request[r].op # "view"
    <3>1. Rewritten(r).pc # "dec" /\ count' + misses' = count + misses
      BY <1>2, <2>1, <2>2, <2>5
    <3> QED BY <1>1, <2>3, <3>1, CountGoesOn DEF Clean
  <2> QED BY <2>4, <2>5
<1>5. PageSound'
  BY <1>1, <1>2, PageGoesOn DEF Clean
<1>6. Distinct(content[box])'
  BY <1>1 DEF Clean, Distinct
<1> QED BY <1>3, <1>4, <1>5, <1>6 DEF Clean

LEMMA DecClean ==
  ASSUME Sound, Clean, NEW r \in Request, Dec(r)
  PROVE  Clean'
<1> USE TypeParts DEF Sound
<1>1. /\ UNCHANGED <<fileVars, listed, upToDate, sender, misses>>
      /\ content'[box'] = content[box] /\ request[r].pc = "dec"
      /\ request' = [request EXCEPT ![r] = Idle] /\ count' = count - 1
  BY DEF Dec, fileVars, pageVars, senderVars, historyVars
<1>2. RewriteSound'
  BY <1>1, IdleIs, RewriteGoesOn DEF Clean, fileVars
<1>3. CountSound'
  <2>1. count' + misses' = count + misses - 1
    BY <1>1, CountTypesAre
  <2> QED BY <1>1, <2>1, IdleIs, CountGoesOn DEF Clean
<1>4. PageSound'
  BY <1>1, IdleIs, PageGoesOn DEF Clean
<1>5. Distinct(content[box])'
  BY <1>1 DEF Clean, Distinct
<1> QED BY <1>2, <1>3, <1>4, <1>5 DEF Clean

\* A rewrite, as long as it has met no other and no old <user>.new.
LEMMA OpenBoxClean ==
  ASSUME Sound, Clean, NEW r \in Request, OpenBox(r), ~fouled'
  PROVE  Clean'
<1> USE TypeParts DEF Sound
<1>1. /\ UNCHANGED <<fileVars, listed, upToDate, sender, count, misses>>
      /\ content'[box'] = content[box] /\ request[r].pc = "open" /\ box' = box
      /\ \A s \in Request \ {r} : ~Rewriting(s)
  BY DEF OpenBox, fileVars, pageVars, senderVars, historyVars
<1>2. PICK w \in Requests :
        /\ request' = [request EXCEPT ![r] = w] /\ w.pc = "create" /\ w.src = box
        /\ w.upToDate = request[r].upToDate /\ w.ids = request[r].ids
        /\ w.chosen = request[r].chosen
  BY OpenBoxMakes
<1>3. RewriteSound'
  BY <1>1, <1>2, RewriteGoesOn DEF Clean
<1>4. CountSound'
  <2>1. sender' = sender /\ count' + misses' = count + misses
    BY <1>1
  <2> QED BY <1>1, <1>2, <2>1, CountGoesOn DEF Clean
<1>5. PageSound'
  BY <1>1, <1>2, PageGoesOn DEF Clean
<1>6. Distinct(content[box])'
  BY <1>1 DEF Clean, Distinct
<1> QED BY <1>3, <1>4, <1>5, <1>6 DEF Clean

LEMMA OpenNewClean ==
  ASSUME Sound, Clean, NEW r \in Request, OpenNew(r), ~fouled'
  PROVE  Clean'
<1> USE TypeParts DEF Sound
<1>1. /\ UNCHANGED <<box, listed, upToDate, sender, count, misses>> /\ request[r].pc = "create"
  BY DEF OpenNew, fileVars, pageVars, senderVars, historyVars
<1>2. /\ new' \in File /\ new' # box /\ content' = [content EXCEPT ![new'] = << >>]
      /\ \E w \in Requests :
           /\ request' = [request EXCEPT ![r] = w] /\ w.pc = "copy" /\ w.dst = new'
           /\ w.upToDate = request[r].upToDate /\ w.ids = request[r].ids
           /\ w.chosen = request[r].chosen /\ w.src = request[r].src /\ w.pos = 0
  BY OpenNewMakes
<1>3. PICK w \in Requests :
        /\ request' = [request EXCEPT ![r] = w] /\ w.pc = "copy" /\ w.dst = new'
        /\ w.upToDate = request[r].upToDate /\ w.ids = request[r].ids
        /\ w.chosen = request[r].chosen /\ w.src = request[r].src /\ w.pos = 0
  BY <1>2
<1>4. content'[box] = content[box] /\ content'[box'] = content[box] /\ content'[new'] = << >>
  BY <1>1, <1>2 DEF FileTypes
<1>5. Rewriting(r) /\ request[r].src = box /\ \A s \in Request \ {r} : ~Rewriting(s)
  BY <1>1 DEF Clean, RewriteSound, Rewriting
<1>6. CopySound(w, content'[box], content'[new'])
  BY <1>3, <1>4, CopyBegins DEF FileTypes
<1>7. RewriteSound'
  BY <1>1, <1>3, <1>5, <1>6, RewriteGoesOn DEF Clean
<1>8. CountSound'
  <2>1. sender' = sender /\ count' + misses' = count + misses
    BY <1>1
  <2> QED BY <1>1, <1>3, <1>4, <2>1, CountGoesOn DEF Clean
<1>9. PageSound'
  BY <1>1, <1>3, <1>4, PageGoesOn DEF Clean
<1>10. Distinct(content[box])'
  BY <1>4 DEF Clean, Distinct
<1> QED BY <1>7, <1>8, <1>9, <1>10 DEF Clean

LEMMA CopyIsClean ==
  ASSUME Sound, Clean, NEW r \in Request, Copy(r)
  PROVE  Clean'
<1> USE TypeParts DEF Sound
<1>1. /\ UNCHANGED <<box, new, listed, upToDate, sender, count, misses>> /\ request[r].pc = "copy"
  BY DEF Copy, fileVars, pageVars, senderVars, historyVars
<1>2. PICK w \in Requests :
        /\ request' = [request EXCEPT ![r] = w] /\ w.pc = "copy"
        /\ w.pos = request[r].pos + 1 /\ w.pos \in DOMAIN content[request[r].src]
        /\ w.op = request[r].op
        /\ w.upToDate = request[r].upToDate /\ w.ids = request[r].ids
        /\ w.chosen = request[r].chosen /\ w.src = request[r].src /\ w.dst = request[r].dst
        /\ IF Skipped(request[r], w.pos) THEN content' = content
           ELSE content' = [content EXCEPT ![w.dst] =
                  Append(@, Marked(request[r], w.pos, content[w.src][w.pos]))]
  BY CopyMakes
<1>3. /\ request[r].src = box /\ request[r].dst = new /\ \A s \in Request \ {r} : ~Rewriting(s)
      /\ CopySound(request[r], content[box], content[new])
  BY <1>1 DEF Clean, RewriteSound, Rewriting
<1>4. new \in File /\ new # box /\ content[box] \in Seq(Line) /\ content[new] \in Seq(Line)
      /\ request[r].pos \in Nat
  BY <1>1, <1>3 DEF FileTypes, FilesSound, RequestTypes, Requests
<1>5. content'[box] = content[box] /\ content'[box'] = content[box]
  BY <1>1, <1>2, <1>3, <1>4 DEF FileTypes
<1>6. CopySound(w, content[box], content'[new])
  <2>1. CASE Skipped(request[r], w.pos)
    BY <1>2, <1>3, <1>4, <2>1, CopySkips
  <2>2. CASE ~Skipped(request[r], w.pos)
    <3>1. content'[new] = Append(content[new], Marked(request[r], w.pos, content[box][w.pos]))
      BY <1>2, <1>3, <1>4, <2>2 DEF FileTypes
    <3> QED BY <1>2, <1>3, <1>4, <2>2, <3>1, CopyKeeps DEF Clean
  <2> QED BY <2>1, <2>2
<1>7. RewriteSound'
  BY <1>1, <1>2, <1>3, <1>5, <1>6, RewriteGoesOn DEF Clean
<1>8. CountSound'
  <2>1. sender' = sender /\ count' + misses' = count + misses
    BY <1>1
  <2> QED BY <1>1, <1>2, <1>5, <2>1, CountGoesOn DEF Clean
<1>9. PageSound'
  BY <1>1, <1>2, <1>5, PageGoesOn DEF Clean
<1>10. Distinct(content[box])'
  BY <1>5 DEF Clean, Distinct
<1> QED BY <1>7, <1>8, <1>9, <1>10 DEF Clean

LEMMA CopyEndsClean ==
  ASSUME Sound, Clean, NEW r \in Request, CopyEnds(r)
  PROVE  Clean'
<1> USE TypeParts DEF Sound
<1>1. /\ UNCHANGED <<content, box, new, listed, upToDate, sender, count, misses>>
      /\ request[r].pc = "copy" /\ content'[box'] = content[box]
  BY DEF CopyEnds, fileVars, pageVars, senderVars, historyVars
<1>2. PICK w \in Requests :
        /\ request' = [request EXCEPT ![r] = w] /\ w.pc = "swap"
        /\ w.pos = request[r].pos /\ w.op = request[r].op
        /\ w.upToDate = request[r].upToDate /\ w.ids = request[r].ids
        /\ w.chosen = request[r].chosen /\ w.src = request[r].src /\ w.dst = request[r].dst
  BY CopyEndsMakes
<1>3. /\ request[r].src = box /\ request[r].dst = new /\ \A s \in Request \ {r} : ~Rewriting(s)
      /\ CopySound(request[r], content[box], content[new])
  BY <1>1 DEF Clean, RewriteSound, Rewriting
<1>4. CopySound(w, content[box], content[new])
  BY <1>2, <1>3 DEF CopySound, Before, Skipped
<1>5. RewriteSound'
  BY <1>1, <1>2, <1>3, <1>4, RewriteGoesOn DEF Clean
<1>6. CountSound'
  <2>1. sender' = sender /\ count' + misses' = count + misses
    BY <1>1
  <2> QED BY <1>1, <1>2, <2>1, CountGoesOn DEF Clean
<1>7. PageSound'
  BY <1>1, <1>2, PageGoesOn DEF Clean
<1>8. Distinct(content[box])'
  BY <1>1 DEF Clean, Distinct
<1> QED BY <1>5, <1>6, <1>7, <1>8 DEF Clean

\* What a sender writes goes behind what the mailbox holds, if it goes there at all.
LEMMA WriteMakes ==
  ASSUME Sound, NEW m \in Message, Write(m)
  PROVE  \E line \in Line :
           /\ line.msg = m /\ ~line.read
           /\ m \notin Held(content[box]) /\ sender[m] = "open"
           /\ content'[box] = content[box] \/ content'[box] = Append(content[box], line)
           /\ new \in File => content'[new] = content[new]
<1> USE TypeParts DEF Sound
<1> DEFINE line == [msg |-> m, read |-> FALSE]
<1>1. line \in Line /\ line.msg = m /\ ~line.read
  BY DEF Line
<1>2. sender[m] = "open" /\ content' = [content EXCEPT ![into[m]] = Append(@, line)]
  BY DEF Write
<1>3. m \notin Held(content[box])
  BY <1>2 DEF FilesSound, FileTypes
<1>4. into[m] \in File /\ (new \in File => into[m] # new)
  BY <1>2, Numbers DEF SenderTypes, FilesSound
<1> HIDE DEF line
<1>5. content'[box] = content[box] \/ content'[box] = Append(content[box], line)
  BY <1>2, <1>4 DEF FileTypes
<1>6. new \in File => content'[new] = content[new]
  BY <1>2, <1>4 DEF FileTypes
<1> QED BY <1>1, <1>2, <1>3, <1>5, <1>6

\* A sender leaves the requests and the page alone; the mailbox may grow.
LEMMA GrowClean ==
  ASSUME Sound, Clean, NEW line \in Line, line.msg \notin Held(content[box]),
         UNCHANGED <<box, new, listed, upToDate, request>>,
         content'[box] = Append(content[box], line),
         new \in File => content'[new] = content[new]
  PROVE  Distinct(content'[box']) /\ RewriteSound' /\ PageSound'
<1> USE TypeParts DEF Sound
<1>1. content[box] \in Seq(Line)
  BY DEF FileTypes
<1>2. Distinct(content'[box'])
  BY <1>1, DistinctAppend DEF Clean
<1>3. RewriteSound'
  <2> SUFFICES ASSUME NEW r \in Request, Rewriting(r)
               PROVE  /\ \A s \in Request : Rewriting(s) => s = r
                      /\ request[r].src = box
                      /\ request[r].pc \in {"copy", "swap"} =>
                           request[r].dst = new /\ CopySound(request[r], content'[box], content'[new])
    BY DEF RewriteSound, Rewriting
  <2>1. /\ \A s \in Request : Rewriting(s) => s = r
        /\ request[r].src = box
        /\ request[r].pc \in {"copy", "swap"} =>
             request[r].dst = new /\ CopySound(request[r], content[box], content[new])
    BY DEF Clean, RewriteSound
  <2>2. ASSUME request[r].pc \in {"copy", "swap"} PROVE CopySound(request[r], content'[box], content'[new])
    <3>1. new \in File /\ content[new] \in Seq(Line) /\ request[r].pos \in Nat
      BY <2>1, <2>2 DEF FilesSound, FileTypes, RequestTypes, Requests
    <3> QED BY <1>1, <2>1, <2>2, <3>1, CopyBehind
  <2> QED BY <2>1, <2>2
<1>4. PageSound'
  <2>1. /\ Len(content'[box]) = Len(content[box]) + 1 /\ Len(content[box]) \in Nat
        /\ \A i \in DOMAIN content[box] : i \in DOMAIN content'[box] /\ content'[box][i] = content[box][i]
    BY <1>1, AppendFacts, LinesAre
  <2>2. upToDate => /\ Len(listed) <= Len(content'[box])
                    /\ \A i \in DOMAIN listed : content'[box][i].msg = listed[i].msg
    <3>1. listed \in Seq(Line) /\ Len(listed) \in Nat
      BY LinesAre DEF CountTypes
    <3>2. upToDate => \A i \in DOMAIN listed : i \in DOMAIN content[box]
      BY <1>1, <3>1, LinesAre DEF Clean, PageSound
    <3> QED BY <2>1, <3>1, <3>2 DEF Clean, PageSound
  <2>3. \A r \in Request : request[r].upToDate => \A i \in request[r].ids :
          i \in DOMAIN content'[box] /\ content'[box][i].msg \in request[r].chosen
    BY <2>1 DEF Clean, PageSound
  <2> QED BY <2>2, <2>3 DEF PageSound
<1> QED BY <1>2, <1>3, <1>4

LEMMA SendClean ==
  ASSUME Sound, Clean, NEW m \in Message, Send(m)
  PROVE  Clean'
<1> USE TypeParts DEF Sound
<1>1. /\ UNCHANGED <<box, new, listed, upToDate, request, misses>>
      /\ \A k \in Message \ {m} : sender'[k] = sender[k]
  BY DEF Send, Open, Write, AppendElsewhere, Inc, fileVars, pageVars, historyVars, SenderTypes
<1>2. Subtracting' = Subtracting
  BY <1>1 DEF Subtracting
<1>3. /\ Uncounted \in Nat /\ Uncounted' \in Nat
      /\ sender[m] # "written" /\ sender'[m] = "written" => Uncounted' = Uncounted + 1
      /\ sender[m] = "written" /\ sender'[m] # "written" => Uncounted' = Uncounted - 1
      /\ (sender[m] = "written" <=> sender'[m] = "written") => Uncounted' = Uncounted
  BY <1>1, SenderCounts
<1>4. /\ count \in Int /\ misses \in Nat /\ Subtracting \in Nat /\ Unread(content[box]) \in Nat
      /\ content[box] \in Seq(Line)
      /\ count + misses + Uncounted >= Unread(content[box]) + Subtracting
  BY CountTypesAre, CountIs DEF Clean
<1>5. CASE content'[box'] = content[box] /\ (new \in File => content'[new] = content[new])
           /\ count' + Uncounted' >= count + Uncounted /\ count' \in Int
  <2>1. count' + misses' + Uncounted' >= Unread(content'[box']) + Subtracting'
    <3>1. Unread(content'[box']) = Unread(content[box]) /\ misses' = misses
      BY <1>1, <1>5
    <3>2. PICK u : u = Unread(content[box])
      OBVIOUS
    <3>3. Unread(content'[box']) = u /\ u \in Nat /\ count + misses + Uncounted >= u + Subtracting
      BY <1>4, <3>1, <3>2
    <3>4. PICK c, d, n, k, w, v :
            /\ c = count /\ d = count' /\ n = Uncounted /\ k = Uncounted'
            /\ w = misses /\ v = Subtracting
      OBVIOUS
    <3>5. /\ c \in Int /\ d \in Int /\ n \in Nat /\ k \in Nat /\ w \in Nat /\ v \in Nat /\ u \in Nat
          /\ d + k >= c + n /\ c + w + n >= u + v
      BY <1>3, <1>4, <1>5, <3>3, <3>4, Zenon
    <3>6. d + w + k >= u + v
      BY <3>5
    <3> QED BY <1>2, <3>1, <3>3, <3>4, <3>6, Zenon
  <2>2. CountSound'
    BY <2>1, CountIsNext
  <2>3. Distinct(content[box])'
    BY <1>5 DEF Clean
  <2>4. RewriteSound'
    <3>1. \A r \in Request : request[r].pc \in {"copy", "swap"} => request[r].dst \in File
      BY DEF FilesSound
    <3> QED BY <1>1, <1>5, <3>1 DEF Clean, RewriteSound, Rewriting
  <2>5. PageSound'
    BY <1>1, <1>5 DEF Clean, PageSound
  <2> QED BY <2>2, <2>3, <2>4, <2>5 DEF Clean
<1>6. CASE Open(m) \/ AppendElsewhere(m) \/ Inc(m)
  <2>1. content'[box'] = content[box] /\ (new \in File => content'[new] = content[new])
    BY <1>6 DEF Open, AppendElsewhere, Inc, fileVars
  <2>2. CASE Open(m)
    <3>1. count' = count /\ sender[m] # "written" /\ sender'[m] # "written"
      BY <2>2 DEF Open, SenderTypes
    <3>2. Uncounted' = Uncounted
      BY <1>3, <3>1, Zenon
    <3>3. count' + Uncounted' >= count + Uncounted /\ count' \in Int
      <4>1. count \in Int /\ Uncounted \in Nat
        BY <1>3, <1>4
      <4> QED BY <3>1, <3>2, <4>1
    <3> QED BY <1>5, <2>1, <3>3
  <2>3. CASE AppendElsewhere(m)
    <3>1. count' = count /\ sender[m] # "written" /\ sender'[m] = "written"
      BY <2>3 DEF AppendElsewhere, SenderTypes
    <3>2. Uncounted' = Uncounted + 1
      BY <1>3, <3>1, Zenon
    <3>3. count' + Uncounted' >= count + Uncounted /\ count' \in Int
      <4>1. count \in Int /\ Uncounted \in Nat
        BY <1>3, <1>4
      <4> QED BY <3>1, <3>2, <4>1
    <3> QED BY <1>5, <2>1, <3>3
  <2>4. CASE Inc(m)
    <3>1. count' = count + 1 /\ sender[m] = "written" /\ sender'[m] # "written"
      BY <2>4 DEF Inc, SenderTypes
    <3>2. Uncounted' = Uncounted - 1
      BY <1>3, <3>1, Zenon
    <3>3. count' + Uncounted' >= count + Uncounted /\ count' \in Int
      <4>1. count \in Int /\ Uncounted \in Nat
        BY <1>3, <1>4
      <4> QED BY <3>1, <3>2, <4>1
    <3> QED BY <1>5, <2>1, <3>3
  <2> QED BY <1>6, <2>2, <2>3, <2>4
<1>7. CASE Write(m)
  <2>1. count' = count /\ sender[m] # "written" /\ sender'[m] = "written"
    BY <1>7 DEF Write, SenderTypes
  <2>2. PICK line \in Line :
          /\ line.msg = m /\ ~line.read
          /\ m \notin Held(content[box]) /\ sender[m] = "open"
          /\ content'[box] = content[box] \/ content'[box] = Append(content[box], line)
          /\ new \in File => content'[new] = content[new]
    BY <1>7, WriteMakes
  <2>3. CASE content'[box] = content[box]
    BY <1>1, <1>3, <1>4, <1>5, <2>1, <2>2, <2>3
  <2>4. CASE content'[box] = Append(content[box], line)
    <3>1. Unread(content'[box']) = Unread(content[box]) + 1
      BY <1>1, <1>4, <2>2, <2>4, UnreadAppend
    <3>2. count' + misses' + Uncounted' >= Unread(content'[box']) + Subtracting'
      BY <1>1, <1>2, <1>3, <1>4, <2>1, <3>1
    <3>3. CountSound'
      BY <3>2, CountIsNext
    <3>4. Distinct(content'[box']) /\ RewriteSound' /\ PageSound'
      BY <1>1, <2>2, <2>4, GrowClean
    <3> QED BY <3>3, <3>4 DEF Clean
  <2> QED BY <2>2, <2>3, <2>4
<1> QED BY <1>6, <1>7 DEF Send

LEMMA ListClean ==
  ASSUME Sound, Clean, List
  PROVE  Clean'
<1> USE TypeParts DEF Sound
<1>1. /\ UNCHANGED <<content, box, new, count, sender, request, misses>> /\ listed' = content[box]
  BY DEF List, fileVars, senderVars, historyVars
<1>2. CountSound' /\ Distinct(content[box])' /\ RewriteSound'
  BY <1>1 DEF Clean, CountSound, RewriteSound, Rewriting
<1>3. PageSound'
  <2>1. Len(content[box]) \in Nat
    BY LinesAre DEF FileTypes
  <2> QED BY <1>1, <2>1 DEF Clean, PageSound
<1> QED BY <1>2, <1>3 DEF Clean

\* A rewrite that kept every message kept them at their positions.
LEMMA KeptInPlace ==
  ASSUME NEW q, q.pos \in Nat, NEW old \in Seq(Line), NEW copied \in Seq(Line),
         CopySound(q, old, copied), Distinct(old), Held(old) \subseteq Held(copied)
  PROVE  Len(copied) = Len(old) /\ \A i \in DOMAIN old : copied[i].msg = old[i].msg
<1>1. \A i \in DOMAIN old : i \in Before(q) /\ ~Skipped(q, i)
  <2> SUFFICES ASSUME NEW i \in DOMAIN old PROVE i \in Before(q) /\ ~Skipped(q, i)
    OBVIOUS
  <2>1. old[i].msg \in Held(copied)
    BY DEF Held
  <2>2. PICK j \in Before(q) : ~Skipped(q, j) /\ old[j].msg = old[i].msg
    BY <2>1 DEF CopySound
  <2>3. j \in DOMAIN old
    BY LinesAre DEF Before, CopySound
  <2> QED BY <2>2, <2>3 DEF Distinct
<1>2. q.pos <= Len(old) /\ Len(old) \in Nat /\ DOMAIN old = 1 .. Len(old)
  BY LinesAre DEF CopySound
<1>3. q.pos = Len(old)
  <2>1. CASE Len(old) = 0
    BY <1>2, <2>1
  <2>2. CASE Len(old) # 0
    <3>1. Len(old) \in Before(q)
      BY <1>1, <1>2, <2>2
    <3> QED BY <1>2, <3>1 DEF Before
  <2> QED BY <2>1, <2>2
<1>4. \A i \in Before(q) : ~Skipped(q, i)
  BY <1>1, <1>2, <1>3 DEF Before
<1> QED BY <1>2, <1>3, <1>4 DEF CopySound, Before

\* A rewrite leaves no more messages to read, and one less when it marks one.
LEMMA ReadMore ==
  ASSUME NEW q, q.pos \in Nat, NEW old \in Seq(Line), NEW copied \in Seq(Line),
         CopySound(q, old, copied)
  PROVE  /\ Unread(copied) <= Unread(old)
         /\ (\E i \in q.ids \cap DOMAIN old : ~old[i].read) => Unread(copied) <= Unread(old) - 1
<1>1. PICK U : U = {i \in DOMAIN old : ~old[i].read}
  OBVIOUS
<1>2. PICK S : S = {i \in Before(q) : ~old[i].read /\ i \notin q.ids}
  OBVIOUS
<1>3. IsFiniteSet(U) /\ Unread(old) = Cardinality(U) /\ Unread(old) \in Nat
      /\ Unread(copied) \in Nat /\ Unread(copied) <= Cardinality(S)
  BY <1>1, <1>2, UnreadIs DEF Unread, CopySound
<1>4. Before(q) \subseteq DOMAIN old
  BY LinesAre DEF Before, CopySound
<1>5. S \subseteq U
  BY <1>1, <1>2, <1>4
<1>6. Cardinality(S) \in Nat /\ Cardinality(S) <= Cardinality(U)
  BY <1>3, <1>5, FS_Subset, FS_CardinalityType
<1>7. ASSUME NEW i \in q.ids \cap DOMAIN old, ~old[i].read
      PROVE  Cardinality(S) <= Cardinality(U) - 1
  <2>1. i \in U /\ S \subseteq U \ {i}
    BY <1>1, <1>2, <1>5, <1>7
  <2>2. IsFiniteSet(U \ {i}) /\ Cardinality(U \ {i}) = Cardinality(U) - 1
    BY <1>3, <2>1, FS_RemoveElement
  <2> QED BY <2>1, <2>2, FS_Subset
<1> QED BY <1>3, <1>6, <1>7

LEMMA SwapClean ==
  ASSUME Sound, Clean, NEW r \in Request, Swap(r)
  PROVE  Clean'
<1> USE TypeParts DEF Sound
<1> DEFINE q == request[r]
           old == content[box]
           copied == content[new]
           marked == \E i \in q.ids \cap DOMAIN old : ~old[i].read
<1>1. /\ q.src = box /\ q.dst = new /\ \A s \in Request \ {r} : ~Rewriting(s)
      /\ CopySound(q, old, copied)
  BY DEF Swap, Clean, RewriteSound, Rewriting
<1>2. new \in File /\ new # NoFile /\ old \in Seq(Line) /\ copied \in Seq(Line) /\ q.pos \in Nat
  BY <1>1, Numbers DEF Swap, FilesSound, FileTypes, RequestTypes, Requests
<1>3. /\ box' = new /\ new' = NoFile /\ UNCHANGED <<content, count, listed, sender>>
      /\ q.pc = "swap" /\ request'[r] = Rewritten(r)
      /\ misses' = (IF q.op = "view" /\ ~marked THEN misses + 1 ELSE misses)
  BY <1>1, <1>2 DEF Swap, senderVars, RequestTypes
<1>4. upToDate' => upToDate /\ Held(old) \subseteq Held(copied)
  BY <1>2 DEF Swap
<1>5. /\ ~Rewritten(r).upToDate
      /\ Rewritten(r).pc = IF q.op = "view" THEN "dec" ELSE "idle"
  BY RewrittenIs
<1>6. \A s \in Request \ {r} :
        /\ request'[s].pc = request[s].pc /\ request'[s].ids = request[s].ids
        /\ request'[s].chosen = request[s].chosen
        /\ (request'[s].upToDate => request[s].upToDate /\ Held(old) \subseteq Held(copied))
  BY <1>2, SwapMakes DEF NoneLost
<1>7. content'[box'] = copied
  BY <1>3
<1>8. Distinct(content[box])'
  BY <1>1, <1>7 DEF CopySound
<1>9. RewriteSound'
  BY <1>1, <1>3, <1>5, <1>6 DEF RewriteSound, Rewriting
<1>10. ASSUME Held(old) \subseteq Held(copied)
       PROVE  Len(copied) = Len(old) /\ \A i \in DOMAIN old : copied[i].msg = old[i].msg
  BY <1>1, <1>2, <1>10, KeptInPlace DEF Clean
<1>11. DOMAIN old = 1 .. Len(old) /\ DOMAIN copied = 1 .. Len(copied) /\ Len(old) \in Nat
  BY <1>2, LinesAre
<1> HIDE DEF old, copied, marked, q
<1>12. PageSound'
  <2>1. upToDate' => /\ Len(listed') <= Len(content'[box'])
                     /\ \A i \in DOMAIN listed' : content'[box'][i].msg = listed'[i].msg
    <3>1. listed \in Seq(Line)
      BY DEF CountTypes
    <3>2. Len(listed) \in Nat /\ DOMAIN listed = 1 .. Len(listed)
      BY <3>1, LinesAre
    <3> QED BY <1>3, <1>4, <1>7, <1>10, <1>11, <3>2 DEF Clean, PageSound, old
  <2>2. ASSUME NEW s \in Request, request'[s].upToDate, NEW i \in request'[s].ids
        PROVE  i \in DOMAIN content'[box'] /\ content'[box'][i].msg \in request'[s].chosen
    <3>1. s # r
      BY <1>3, <1>5, <2>2
    <3> QED BY <1>6, <1>7, <1>10, <1>11, <2>2, <3>1 DEF Clean, PageSound, old
  <2> QED BY <2>1, <2>2 DEF PageSound
<1>13. CountSound'
  <2>1. Uncounted' = Uncounted
    BY <1>3 DEF Uncounted
  <2>2. /\ Unread(copied) <= Unread(old) /\ (marked => Unread(copied) <= Unread(old) - 1)
        /\ Unread(copied) \in Nat
    BY <1>1, <1>2, ReadMore, UnreadIs DEF marked
  <2>3. /\ Subtracting \in Nat /\ Subtracting' \in Nat
        /\ request[r].pc # "dec" /\ request'[r].pc = "dec" => Subtracting' = Subtracting + 1
        /\ (request[r].pc = "dec" <=> request'[r].pc = "dec") => Subtracting' = Subtracting
    BY <1>6, RequestCounts
  <2>4. Subtracting' = Subtracting + (IF q.op = "view" THEN 1 ELSE 0)
    BY <1>3, <1>5, <2>3 DEF q
  <2>5. /\ count \in Int /\ misses \in Nat /\ Uncounted \in Nat /\ Unread(old) \in Nat
        /\ count + misses + Uncounted >= Unread(old) + Subtracting
    BY CountTypesAre, CountIs DEF Clean, old
  <2>6. count + misses' + Uncounted >= Unread(copied) + Subtracting'
    BY <1>3, <2>2, <2>3, <2>4, <2>5
  <2> QED BY <1>3, <1>7, <2>1, <2>6, CountIsNext
<1> QED BY <1>8, <1>9, <1>12, <1>13 DEF Clean

LEMMA DeleteAllClean ==
  ASSUME Sound, Clean, DeleteAll, ~fouled'
  PROVE  Clean'
<1> USE TypeParts DEF Sound
<1>1. /\ UNCHANGED <<box, new, count, sender, misses>> /\ content'[box'] = << >>
      /\ ~upToDate' /\ \A r \in Request : ~Rewriting(r)
  BY DEF DeleteAll, senderVars, FileTypes
<1>2. \A s \in Request : request'[s].pc = request[s].pc /\ ~request'[s].upToDate
  BY DeleteAllMakes
<1>3. Distinct(content[box])' /\ RewriteSound' /\ PageSound'
  BY <1>1, <1>2, EmptyLines DEF RewriteSound, Rewriting, PageSound
<1>4. CountSound'
  <2>1. Uncounted' = Uncounted /\ Subtracting' = Subtracting
    BY <1>1, <1>2 DEF Uncounted, Subtracting
  <2>2. Unread(content'[box']) = 0
    BY <1>1, EmptyLines
  <2>3. /\ count \in Int /\ misses \in Nat /\ Uncounted \in Nat /\ Unread(content[box]) \in Nat
        /\ Subtracting \in Nat /\ count + misses + Uncounted >= Unread(content[box]) + Subtracting
    BY CountTypesAre, CountIs DEF Clean
  <2>4. PICK u : u = Unread(content[box])
    OBVIOUS
  <2>5. u \in Nat /\ count + misses + Uncounted >= u + Subtracting
    BY <2>3, <2>4
  <2>6. count + misses + Uncounted >= 0 + Subtracting
    BY <2>3, <2>5
  <2> QED BY <1>1, <2>1, <2>2, <2>6, CountIsNext
<1> QED BY <1>3, <1>4 DEF Clean

LEMMA RestartClean ==
  ASSUME Sound, Clean, Restart
  PROVE  Clean'
<1> USE TypeParts DEF Sound
<1>1. /\ UNCHANGED <<content, box, new, listed, upToDate, misses>>
      /\ request' = [r \in Request |-> Idle]
      /\ sender' = [m \in Message |-> IF sender[m] = "idle" THEN "idle" ELSE "sent"]
      /\ count' = Unread(content[box])
  BY DEF Restart, fileVars, pageVars, historyVars
<1>2. Distinct(content[box])' /\ RewriteSound' /\ PageSound'
  BY <1>1, IdleIs DEF Clean, RewriteSound, Rewriting, PageSound
<1>3. CountSound'
  <2>1. {m \in Message : sender'[m] = "written"} = {} /\ {r \in Request : request'[r].pc = "dec"} = {}
    BY <1>1, IdleIs
  <2>2. Uncounted' = 0 /\ Subtracting' = 0
    BY <2>1, FS_EmptySet DEF Uncounted, Subtracting
  <2>3. misses \in Nat /\ Unread(content[box]) \in Nat
    BY CountTypesAre
  <2>4. count' + misses' + Uncounted' >= Unread(content'[box']) + Subtracting'
    BY <1>1, <2>2, <2>3
  <2> QED BY <2>4, CountIsNext
<1> QED BY <1>2, <1>3 DEF Clean

LEMMA CleanStep ==
  ASSUME Sound, Clean, [Next]_vars, ~fouled'
  PROVE  Clean'
<1>1. CASE UNCHANGED vars
  BY <1>1 DEF vars, fileVars, pageVars, senderVars, historyVars, Clean, CountSound, RewriteSound,
     PageSound, Rewriting
<1>2. ASSUME NEW r \in Request, View(r) \/ Delete(r) PROVE Clean'
  BY <1>2, AskClean DEF View, Delete
<1>3. ASSUME NEW r \in Request, Get(r) \/ Dec(r) \/ Rewrite(r) PROVE Clean'
  BY <1>3, GetClean, DecClean, OpenBoxClean, OpenNewClean, CopyIsClean, CopyFailsClean, CopyEndsClean,
     SwapClean DEF Rewrite
<1> QED
  BY <1>1, <1>2, <1>3, SendClean, ListClean, DeleteAllClean, RestartClean DEF Next

\* What was fouled stays so.
LEMMA FouledStays ==
  ASSUME [Next]_vars, fouled
  PROVE  fouled'
<1>1. CASE UNCHANGED vars
  BY <1>1 DEF vars, historyVars
<1>2. ASSUME NEW m \in Message, Send(m) PROVE fouled'
  BY <1>2 DEF Send, Open, Write, AppendElsewhere, Inc, historyVars
<1>3. ASSUME NEW r \in Request, View(r) \/ Get(r) \/ Delete(r) \/ Dec(r) PROVE fouled'
  BY <1>3 DEF View, Get, Delete, Ask, Dec, historyVars
<1>4. ASSUME NEW r \in Request, Rewrite(r) PROVE fouled'
  <2>1. CASE OpenBox(r)
    BY <2>1, Zenon DEF OpenBox
  <2>2. CASE OpenNew(r)
    BY <2>2 DEF OpenNew
  <2>3. CASE Copy(r) \/ CopyFails(r) \/ CopyEnds(r) \/ Swap(r)
    BY <2>3 DEF Copy, CopyFails, CopyEnds, Swap, historyVars
  <2> QED BY <1>4, <2>1, <2>2, <2>3 DEF Rewrite
<1>5. CASE List \/ DeleteAll \/ Restart
  BY <1>5, Zenon DEF List, DeleteAll, Restart, historyVars
<1> QED BY <1>1, <1>2, <1>3, <1>4, <1>5 DEF Next

-----------------------------------------------------------------------------
(* The theorems                                                            *)

LEMMA MailInvIs == MailInv <=> Sound /\ (~fouled => Clean)
BY DEF MailInv, Sound, Clean

LEMMA InitSound == Init => MailInv
<1> SUFFICES ASSUME Init PROVE Sound /\ Clean
  BY MailInvIs
<1>1. box \in File /\ content[box] = << >>
  BY MailboxAssumption DEF Init
<1>2. FileTypes /\ CountTypes /\ SenderTypes /\ RequestTypes
  <2>1. FileTypes
    BY <1>1, Numbers, EmptyLines DEF Init, FileTypes
  <2>2. CountTypes
    <3>1. requests \in 0 .. MaxRequests /\ restarts \in 0 .. MaxRestarts
      BY Numbers DEF Init
    <3>2. count \in Int /\ misses \in Nat /\ listed \in Seq(Line)
      BY EmptyLines DEF Init
    <3>3. upToDate \in BOOLEAN /\ fouled \in BOOLEAN
      BY Zenon DEF Init
    <3> QED BY <3>1, <3>2, <3>3 DEF CountTypes
  <2>3. SenderTypes
    BY DEF Init, SenderTypes
  <2>4. RequestTypes
    BY IdleIs DEF Init, RequestTypes, Rewriting
  <2> QED BY <2>1, <2>2, <2>3, <2>4
<1>3. FilesSound
  BY Numbers, EmptyLines, IdleIs DEF Init, FilesSound
<1>4. Distinct(content[box]) /\ RewriteSound /\ PageSound
  BY <1>1, EmptyLines, IdleIs DEF Init, RewriteSound, Rewriting, PageSound
<1>5. CountSound
  <2>1. {m \in Message : sender[m] = "written"} = {} /\ {r \in Request : request[r].pc = "dec"} = {}
    BY IdleIs DEF Init
  <2>2. Uncounted = 0 /\ Subtracting = 0
    BY <2>1, FS_EmptySet DEF Uncounted, Subtracting
  <2>3. count + misses + Uncounted >= Unread(content[box]) + Subtracting
    BY <1>1, <2>2, EmptyLines DEF Init
  <2> QED BY <2>3, CountIs
<1> QED BY <1>2, <1>3, <1>4, <1>5, TypeParts DEF Sound, Clean

LEMMA MailStep == MailInv /\ [Next]_vars => MailInv'
<1> SUFFICES ASSUME MailInv, [Next]_vars PROVE MailInv'
  OBVIOUS
<1>1. Sound /\ (~fouled => Clean)
  BY MailInvIs
<1>2. Sound'
  BY <1>1, SoundStep
<1>3. ~fouled' => Clean'
  BY <1>1, CleanStep, FouledStays
<1> QED BY <1>2, <1>3 DEF MailInv, Sound, Clean

\* The mailbox is what MailInv says of it in every state of every run of the
\* senders, views, deletions and crashes.
THEOREM MailboxCorrect == Spec => []MailInv
BY InitSound, MailStep, PTL DEF Spec

\* Every variable of the mailbox keeps its type: what a request or a sender
\* has open is a file, and msgs/<user> is never the file msgs/<user>.new.
THEOREM MailboxTyped == Spec => []TypeOK
<1>1. MailInv => TypeOK
  BY DEF MailInv
<1> QED BY <1>1, MailboxCorrect, PTL

\* No message is in the mailbox twice, unless two rewrites have met or one has
\* found an old msgs/<user>.new.
THEOREM NothingIsDoubled == Spec => []NothingDoubled
<1>1. MailInv => NothingDoubled
  BY DistinctCounts DEF MailInv, TypeOK, NothingDoubled
<1> QED BY <1>1, MailboxCorrect, PTL

\* The count of unread messages, with the views that marked none and the
\* messages that are written and not counted yet, covers those in the mailbox.
THEOREM BadgeCovers == Spec => []BadgeCoversUnread
<1>1. ASSUME MailInv PROVE BadgeCoversUnread
  <2> SUFFICES ASSUME ~fouled
               PROVE  count + misses + Uncounted >= Unread(content[box])
    BY DEF BadgeCoversUnread, Uncounted
  <2>1. Sound /\ Clean
    BY <1>1, MailInvIs
  <2>2. /\ count \in Int /\ misses \in Nat /\ Uncounted \in Nat /\ Unread(content[box]) \in Nat
        /\ Subtracting \in Nat /\ count + misses + Uncounted >= Unread(content[box]) + Subtracting
    BY <2>1, CountTypesAre, CountIs DEF Clean
  <2>3. PICK u : u = Unread(content[box])
    OBVIOUS
  <2>4. u \in Nat /\ count + misses + Uncounted >= u + Subtracting
    BY <2>2, <2>3
  <2>5. count + misses + Uncounted >= u
    BY <2>2, <2>4
  <2> QED BY <2>3, <2>5
<1> QED BY <1>1, MailboxCorrect, PTL

\* What a step makes of the mailbox.
LEMMA MailboxChanges ==
  ASSUME Sound, Clean, [Next]_vars, ~fouled'
  PROVE  \/ content'[box'] = content[box]
         \/ content'[box] = << >> /\ box' = box
         \/ \E line \in Line :
              /\ content'[box'] = Append(content[box], line)
              /\ sender[line.msg] = "open" /\ ~line.read
         \/ \E r \in Request :
              /\ request[r].pc = "swap" /\ content'[box'] = content[new]
              /\ new \in File /\ request[r].pos \in Nat
              /\ CopySound(request[r], content[box], content[new])
<1> USE TypeParts DEF Sound
<1>1. CASE UNCHANGED vars
  BY <1>1 DEF vars, fileVars
<1>2. CASE List \/ Restart
  BY <1>2 DEF List, Restart, fileVars
<1>3. CASE DeleteAll
  BY <1>3 DEF DeleteAll, FileTypes
<1>4. ASSUME NEW r \in Request, View(r) \/ Delete(r) \/ Get(r) \/ Dec(r)
      PROVE  content'[box'] = content[box]
  BY <1>4 DEF View, Delete, Ask, Get, Dec, fileVars
<1>5. ASSUME NEW m \in Message, Open(m) \/ AppendElsewhere(m) \/ Inc(m)
      PROVE  content'[box'] = content[box]
  BY <1>5 DEF Open, AppendElsewhere, Inc, fileVars
<1>6. ASSUME NEW m \in Message, Write(m)
      PROVE  \/ content'[box'] = content[box]
             \/ \E line \in Line :
                  /\ content'[box'] = Append(content[box], line)
                  /\ sender[line.msg] = "open" /\ ~line.read
  <2>1. box' = box
    BY <1>6 DEF Write
  <2> QED BY <1>6, <2>1, WriteMakes
<1>7. ASSUME NEW r \in Request, OpenBox(r) \/ CopyEnds(r) \/ CopyFails(r)
      PROVE  content'[box'] = content[box]
  BY <1>7 DEF OpenBox, CopyEnds, CopyFails, fileVars
<1>8. ASSUME NEW r \in Request, OpenNew(r)
      PROVE  content'[box'] = content[box]
  <2>1. box' = box /\ new' \in File /\ new' # box
    BY <1>8, OpenNewMakes DEF OpenNew
  <2>2. content' = content \/ content' = [content EXCEPT ![new'] = << >>]
    BY <1>8, OpenNewMakes
  <2> QED BY <2>1, <2>2 DEF FileTypes
<1>9. ASSUME NEW r \in Request, Copy(r)
      PROVE  content'[box'] = content[box]
  <2>1. request[r].dst = new /\ box' = box
    BY <1>9 DEF Copy, Clean, RewriteSound, Rewriting
  <2> QED BY <1>9, <2>1 DEF Copy, FileTypes
<1>10. ASSUME NEW r \in Request, Swap(r)
       PROVE  /\ request[r].pc = "swap" /\ content'[box'] = content[new]
              /\ new \in File /\ request[r].pos \in Nat
              /\ CopySound(request[r], content[box], content[new])
  <2>1. request[r].pc = "swap" /\ CopySound(request[r], content[box], content[new])
        /\ request[r].dst = new
    BY <1>10 DEF Swap, Clean, RewriteSound, Rewriting
  <2>2. new \in File /\ request[r].pos \in Nat
    BY <2>1 DEF FilesSound, RequestTypes, Requests
  <2>3. content'[box'] = content[new]
    BY <1>10, <2>2, Numbers DEF Swap
  <2> QED BY <2>1, <2>2, <2>3
<1> QED
  BY <1>1, <1>2, <1>3, <1>4, <1>5, <1>6, <1>7, <1>8, <1>9, <1>10 DEF Next, Send, Rewrite

\* A message only goes when all go, when the user picked it from a page that
\* still told its position, or when it came too late for the copy.
THEOREM OnlyChosenMessagesGo == Spec => OnlyChosenGo
<1> DEFINE Goes ==
      \/ fouled'
      \/ content'[box'] = << >> /\ box' = box
      \/ \E r \in Request :
           LET q == request[r]
               lines == content[box]
           IN
           /\ q.pc = "swap"
           /\ \A i \in DOMAIN lines : lines[i].msg \notin Held(content'[box']) =>
                \/ i > q.pos
                \/ q.op = "delete" /\ i \in q.ids /\ (q.upToDate => lines[i].msg \in q.chosen)
      \/ Held(content[box]) \subseteq Held(content'[box'])
<1>1. ASSUME MailInv, [Next]_vars PROVE Goes
  <2> SUFFICES ASSUME ~fouled' PROVE Goes
    OBVIOUS
  <2>1. Sound /\ Clean
    BY <1>1, MailInvIs, FouledStays
  <2>2. content[box] \in Seq(Line)
    BY <2>1, CountTypesAre
  <2>3. CASE content'[box'] = content[box]
    BY <2>3
  <2>4. CASE content'[box] = << >> /\ box' = box
    BY <2>4
  <2>5. ASSUME NEW line \in Line, content'[box'] = Append(content[box], line)
        PROVE  Held(content[box]) \subseteq Held(content'[box'])
    BY <2>2, <2>5, HeldAppend
  <2>6. ASSUME NEW r \in Request, request[r].pc = "swap", content'[box'] = content[new],
               request[r].pos \in Nat, CopySound(request[r], content[box], content[new])
        PROVE  Goes
    <3> SUFFICES ASSUME NEW i \in DOMAIN content[box], content[box][i].msg \notin Held(content[new]),
                        ~(i > request[r].pos)
                 PROVE  /\ request[r].op = "delete" /\ i \in request[r].ids
                        /\ request[r].upToDate => content[box][i].msg \in request[r].chosen
      BY <2>6
    <3>1. i \in Before(request[r])
      BY <2>2, <2>6, LinesAre DEF Before
    <3>2. Skipped(request[r], i)
      BY <2>6, <3>1 DEF CopySound
    <3> QED BY <2>1, <3>2 DEF Skipped, Clean, PageSound
  <2> QED BY <1>1, <2>1, <2>3, <2>4, <2>5, <2>6, MailboxChanges
<1>2. MailInv /\ [Next]_vars => [Goes]_vars
  BY <1>1
<1> QED BY <1>2, MailboxCorrect, PTL DEF Spec, OnlyChosenGo

\* No step brings a message back or makes one unread: a line is one the
\* mailbox held, at least as read, or one a sender has just written.
THEOREM DeletedStaysDeleted == Spec => NothingComesBack
<1> DEFINE Known(i) ==
      LET line == content'[box'][i]
      IN \/ \E j \in DOMAIN content[box] :
              content[box][j].msg = line.msg /\ (content[box][j].read => line.read)
         \/ sender[line.msg] = "open" /\ ~line.read
<1>1. ASSUME MailInv, [Next]_vars, ~fouled', NEW i \in DOMAIN content'[box']
      PROVE  Known(i)
  <2>1. Sound /\ Clean
    BY <1>1, MailInvIs, FouledStays
  <2>2. content[box] \in Seq(Line)
    BY <2>1, CountTypesAre
  <2>3. CASE content'[box'] = content[box]
    BY <1>1, <2>3
  <2>4. CASE content'[box] = << >> /\ box' = box
    BY <1>1, <2>4, EmptyLines
  <2>5. ASSUME NEW line \in Line, content'[box'] = Append(content[box], line),
               sender[line.msg] = "open", ~line.read
        PROVE  Known(i)
    <3>1. CASE i \in DOMAIN content[box]
      BY <2>2, <2>5, <3>1, AppendFacts
    <3>2. CASE i = Len(content[box]) + 1
      BY <2>2, <2>5, <3>2, AppendFacts
    <3>3. i \in DOMAIN content[box] \/ i = Len(content[box]) + 1
      BY <1>1, <2>2, <2>5, AppendFacts, LinesAre
    <3> QED BY <3>1, <3>2, <3>3
  <2>6. ASSUME NEW r \in Request, content'[box'] = content[new],
               request[r].pos \in Nat, CopySound(request[r], content[box], content[new])
        PROVE  Known(i)
    <3>1. PICK j \in Before(request[r]) :
            content[box][j].msg = content[new][i].msg
            /\ (content[box][j].read => content[new][i].read)
      BY <1>1, <2>6 DEF CopySound
    <3>2. j \in DOMAIN content[box]
      BY <2>2, <2>6, LinesAre DEF Before, CopySound
    <3> QED BY <2>6, <3>1, <3>2
  <2> QED BY <1>1, <2>1, <2>3, <2>4, <2>5, <2>6, MailboxChanges
<1> HIDE DEF Known
<1>2. MailInv /\ [Next]_vars => [fouled' \/ \A i \in DOMAIN content'[box'] : Known(i)]_vars
  BY <1>1
<1> QED BY <1>2, MailboxCorrect, PTL DEF Spec, NothingComesBack, Known
=============================================================================
