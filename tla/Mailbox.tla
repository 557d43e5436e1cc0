------------------------------ MODULE Mailbox ------------------------------
(***************************************************************************)
(* The private messages of one user (internal/messages.go,                 *)
(* messages_cache.go, messages_handler.go and the SMTP side of             *)
(* services.go): an mbox file that senders append to, that views and       *)
(* deletions rewrite into "<user>.new" and rename, and a count of unread   *)
(* messages that is kept apart from the file.                              *)
(*                                                                         *)
(* Names of files and files are told apart, as a rewriter and a sender     *)
(* keep what they have opened when the name is given to another file. A    *)
(* message has no identity in the code: requests name it by its position.  *)
(***************************************************************************)
EXTENDS Integers, Sequences, FiniteSets

CONSTANTS
  Letter,       \* messages sent through the web form
  Mail,         \* messages sent through SMTP
  BadMail,      \* those whose Date header is not in the format of the pod
  Request,      \* concurrent requests of the user that view or delete
  File,         \* bound: files that exist at a time
  MaxRequests,  \* bound: requests of the user
  MaxRestarts,  \* bound: crashes
  NoFile        \* "no file of that name"

Message == Letter \cup Mail

ASSUME MailboxAssumption ==
  /\ IsFiniteSet(Message) /\ IsFiniteSet(Request)
  /\ BadMail \subseteq Mail
  /\ File # {} /\ NoFile \notin File
  /\ MaxRequests \in Nat
  /\ MaxRestarts \in Nat

VARIABLES
  dataIsHere,   \* the data directory is "./", where the SMTP service writes
  content,      \* content of each file: lines, oldest first
  box,          \* the file named msgs/<user>
  new,          \* the file named msgs/<user>.new
  count,        \* MessagesCache.MessageCounts[user]
  listed,       \* the messages page the user looks at
  upToDate,     \* no message has left the mailbox since that page was made
  sender,       \* position of the sender of each message
  into,         \* the file the sender has opened
  request,      \* the state of each request, see Requests
  requests,     \* number of requests so far
  restarts,     \* number of crashes so far
  fouled,       \* history: two rewrites met, or one found an old <user>.new
  misses        \* history: views that changed no message to read

fileVars == <<dataIsHere, content, box, new>>
pageVars == <<listed, upToDate>>
senderVars == <<sender, into>>
historyVars == <<fouled, misses>>
vars == <<fileVars, count, pageVars, senderVars, request, requests, restarts, historyVars>>

Line == [msg : Message, read : BOOLEAN]

(* A request: what it is to do, with which positions of which page, and    *)
(* the two files a rewrite has open.                                       *)
Idle == [pc |-> "idle", op |-> "none", ids |-> {}, chosen |-> {}, upToDate |-> FALSE,
         src |-> NoFile, dst |-> NoFile, pos |-> 0]

Rewriting(r) == request[r].pc \in {"create", "copy", "swap"}

Held(lines) == {lines[i].msg : i \in DOMAIN lines}

Unread(lines) == Cardinality({i \in DOMAIN lines : ~lines[i].read})

Free(f) ==
  /\ f \notin {box, new}
  /\ \A m \in Message : into[m] # f
  /\ \A r \in Request : f \notin {request[r].src, request[r].dst}

Readable(lines) == \A i \in DOMAIN lines : lines[i].msg \notin BadMail

Init ==
  /\ dataIsHere \in BOOLEAN
  /\ box = CHOOSE f \in File : TRUE
  /\ content = [f \in File |-> << >>]
  /\ new = NoFile
  /\ count = 0
  /\ listed = << >>
  /\ upToDate = TRUE
  /\ sender = [m \in Message |-> "idle"]
  /\ into = [m \in Message |-> NoFile]
  /\ request = [r \in Request |-> Idle]
  /\ requests = 0
  /\ restarts = 0
  /\ fouled = FALSE
  /\ misses = 0

-----------------------------------------------------------------------------
(* Senders: SendMessageHandler, and storeMessage for one recipient.        *)

(* writeMessage opens the file, and what it has opened it will append to.  *)
Open(m) ==
  /\ sender[m] = "idle"
  /\ m \in Mail => dataIsHere
  /\ sender' = [sender EXCEPT ![m] = "open"]
  /\ into' = [into EXCEPT ![m] = box]
  /\ UNCHANGED <<fileVars, count, pageVars, request, requests, restarts, historyVars>>

Write(m) ==
  /\ sender[m] = "open"
  /\ content' = [content EXCEPT ![into[m]] = Append(@, [msg |-> m, read |-> FALSE])]
  /\ sender' = [sender EXCEPT ![m] = "written"]
  /\ into' = [into EXCEPT ![m] = NoFile]
  /\ UNCHANGED <<dataIsHere, box, new, count, pageVars, request, requests, restarts, historyVars>>

(* mailHandler writes below "./", whatever the data directory is.          *)
AppendElsewhere(m) ==
  /\ sender[m] = "idle"
  /\ m \in Mail
  /\ ~dataIsHere
  /\ sender' = [sender EXCEPT ![m] = "written"]
  /\ UNCHANGED <<fileVars, into, count, pageVars, request, requests, restarts, historyVars>>

(* Mutant: the message is not counted. *)
IncForgotten(m) ==
  /\ sender[m] = "written"
  /\ sender' = [sender EXCEPT ![m] = "sent"]
  /\ UNCHANGED <<fileVars, count, into, pageVars, request, requests, restarts, historyVars>>

Inc(m) ==
  /\ sender[m] = "written"
  /\ sender' = [sender EXCEPT ![m] = "sent"]
  /\ count' = count + 1
  /\ UNCHANGED <<fileVars, into, pageVars, request, requests, restarts, historyVars>>

-----------------------------------------------------------------------------
(* The user's page and requests.                                           *)

(* getMessages gives up at a date it cannot parse: the page then shows an  *)
(* error and the user keeps the old one.                                   *)
List ==
  /\ Readable(content[box])
  /\ listed' = content[box]
  /\ upToDate' = TRUE
  /\ UNCHANGED <<fileVars, count, senderVars, request, requests, restarts, historyVars>>

Ask(r, op, ids) ==
  /\ request[r] = Idle
  /\ requests < MaxRequests
  /\ ids \subseteq DOMAIN listed
  /\ request' = [request EXCEPT ![r] =
                   [Idle EXCEPT !.pc = IF op = "view" THEN "get" ELSE "open",
                                !.op = op, !.ids = ids, !.upToDate = upToDate,
                                !.chosen = {listed[i].msg : i \in ids}]]
  /\ requests' = requests + 1
  /\ UNCHANGED <<fileVars, count, pageVars, senderVars, restarts, historyVars>>

(* DeleteMessagesHandler with delete_all: the file is truncated in place.  *)
DeleteAll ==
  /\ requests < MaxRequests
  /\ requests' = requests + 1
  /\ content' = [content EXCEPT ![box] = << >>]
  /\ fouled' = (fouled \/ \E r \in Request : Rewriting(r))
  /\ upToDate' = FALSE
  /\ request' = [r \in Request |-> IF request[r].pc = "idle" THEN Idle
                                   ELSE [request[r] EXCEPT !.upToDate = FALSE]]
  /\ UNCHANGED <<dataIsHere, box, new, count, listed, senderVars, restarts, misses>>

(* ViewMessageHandler: getMessage fails when there is no message of that   *)
(* position or its date cannot be parsed.                                  *)
Get(r) ==
  /\ request[r].pc = "get"
  /\ \E id \in request[r].ids :
       request' = [request EXCEPT ![r] =
                     IF id \in DOMAIN content[box] /\ content[box][id].msg \notin BadMail
                     THEN [@ EXCEPT !.pc = "open"] ELSE Idle]
  /\ UNCHANGED <<fileVars, count, pageVars, senderVars, requests, restarts, historyVars>>

(* markMessageAsRead and deleteMessages rewrite alike: open the file, ...  *)
OpenBox(r) ==
  /\ request[r].pc = "open"
  /\ request' = [request EXCEPT ![r].pc = "create", ![r].src = box]
  /\ fouled' = (fouled \/ \E q \in Request \ {r} : Rewriting(q))
  /\ UNCHANGED <<fileVars, count, pageVars, senderVars, requests, restarts, misses>>

(* ... open or create <user>.new, without truncating it, ready to read the *)
(* first line, ...                                                         *)
OpenNew(r) ==
  /\ request[r].pc = "create"
  /\ IF new # NoFile
     THEN /\ request' = [request EXCEPT ![r].pc = "copy", ![r].dst = new, ![r].pos = 0]
          /\ fouled' = TRUE
          /\ UNCHANGED <<content, new>>
     ELSE /\ \E f \in File : Free(f)
          /\ new' = CHOOSE f \in File : Free(f)
          /\ content' = [content EXCEPT ![new'] = << >>]
          /\ request' = [request EXCEPT ![r].pc = "copy", ![r].dst = new', ![r].pos = 0]
          /\ UNCHANGED fouled
  /\ UNCHANGED <<dataIsHere, box, count, pageVars, senderVars, requests, restarts, misses>>

(* What a rewrite makes of line i: nothing of a message to delete, and a   *)
(* read one of the message viewed.                                         *)
Skipped(q, i) == q.op = "delete" /\ i \in q.ids

(* Mutant: the marked message is written, and then the message as it was. *)
MarkedAndOriginal(q, i) ==
  IF Skipped(q, i) THEN << >>
  ELSE IF i \in q.ids THEN <<[content[q.src][i] EXCEPT !.read = TRUE], content[q.src][i]>>
  ELSE <<content[q.src][i]>>

(* Mutant: the first message has the number zero. *)
CountedFromZero(q, i) ==
  IF q.op = "delete" /\ i - 1 \in q.ids THEN << >>
  ELSE <<[content[q.src][i] EXCEPT !.read = @ \/ i - 1 \in q.ids]>>

(* Mutant: the Status header of other messages is not written back. *)
OtherStatusLost(q, i) ==
  IF Skipped(q, i) THEN << >>
  ELSE <<[content[q.src][i] EXCEPT !.read = i \in q.ids]>>

Copied(q, i) ==
  IF Skipped(q, i) THEN << >>
  ELSE <<[content[q.src][i] EXCEPT !.read = @ \/ i \in q.ids]>>

CannotCopy(q, i) == ~Skipped(q, i) /\ content[q.src][i].msg \in BadMail

(* ... copy line after line, ...                                           *)
Copy(r) ==
  LET q == request[r]
      i == q.pos + 1
  IN
  /\ q.pc = "copy"
  /\ i \in DOMAIN content[q.src]
  /\ ~CannotCopy(q, i)
  /\ content' = [content EXCEPT ![q.dst] = @ \o Copied(q, i)]
  /\ request' = [request EXCEPT ![r].pos = i]
  /\ UNCHANGED <<dataIsHere, box, new, count, pageVars, senderVars, requests, restarts, historyVars>>

(* What is left to do for a request whose rewrite has ended or failed.     *)
Rewritten(r) == IF request[r].op = "view" THEN [Idle EXCEPT !.pc = "dec"] ELSE Idle

(* ... giving up, without removing <user>.new, at a date it cannot parse;  *)
(* a view goes on as if the message had been marked; ...                   *)
CopyFails(r) ==
  LET q == request[r]
      i == q.pos + 1
  IN
  /\ q.pc = "copy"
  /\ i \in DOMAIN content[q.src]
  /\ CannotCopy(q, i)
  /\ request' = [request EXCEPT ![r] = Rewritten(r)]
  /\ misses' = IF q.op = "view" THEN misses + 1 ELSE misses
  /\ UNCHANGED <<fileVars, count, pageVars, senderVars, requests, restarts, fouled>>

(* ... until the end of the file, ...                                      *)
CopyEnds(r) ==
  /\ request[r].pc = "copy"
  /\ request[r].pos + 1 \notin DOMAIN content[request[r].src]
  /\ request' = [request EXCEPT ![r].pc = "swap"]
  /\ UNCHANGED <<fileVars, count, pageVars, senderVars, requests, restarts, historyVars>>

(* Mutant: the new file is linked to its second name and keeps its first. *)
SwapByLink(r) ==
  /\ request[r].pc = "swap"
  /\ box' = IF new = NoFile THEN box ELSE new
  /\ request' = [request EXCEPT ![r] = Rewritten(r)]
  /\ UNCHANGED <<dataIsHere, content, new, count, pageVars, senderVars, requests, restarts,
                 historyVars>>

(* ... and rename <user>.new, which fails when another request has renamed *)
(* it already. If that takes messages away, the positions on a page made   *)
(* earlier may now be those of other messages.                             *)
Swap(r) ==
  LET kept == IF new = NoFile THEN TRUE ELSE Held(content[box]) \subseteq Held(content[new])
      marked == \E i \in request[r].ids \cap DOMAIN content[request[r].src] :
                  ~content[request[r].src][i].read
  IN
  /\ request[r].pc = "swap"
  /\ box' = IF new = NoFile THEN box ELSE new
  /\ new' = NoFile
  /\ upToDate' = (upToDate /\ kept)
  /\ request' = [q \in Request |->
                   IF q = r THEN Rewritten(r)
                   ELSE [request[q] EXCEPT !.upToDate = @ /\ kept]]
  /\ misses' = IF request[r].op = "view" /\ ~marked THEN misses + 1 ELSE misses
  /\ UNCHANGED <<dataIsHere, content, count, listed, senderVars, requests, restarts, fouled>>

(* A view takes one off the count, whatever it has seen and done.          *)
Dec(r) ==
  /\ request[r].pc = "dec"
  /\ request' = [request EXCEPT ![r] = Idle]
  /\ count' = count - 1
  /\ UNCHANGED <<fileVars, pageVars, senderVars, requests, restarts, historyVars>>

(* A crash ends every request and every sender; the next start of the pod  *)
(* counts again (MessagesCache.Refresh).                                   *)
Restart ==
  /\ restarts < MaxRestarts
  /\ restarts' = restarts + 1
  /\ request' = [r \in Request |-> Idle]
  /\ sender' = [m \in Message |-> IF sender[m] = "idle" THEN "idle" ELSE "sent"]
  /\ into' = [m \in Message |-> NoFile]
  /\ count' = Unread(content[box])
  /\ UNCHANGED <<fileVars, pageVars, requests, historyVars>>

Send(m) == Open(m) \/ Write(m) \/ AppendElsewhere(m) \/ Inc(m)

View(r) == \E id \in DOMAIN listed : Ask(r, "view", {id})

Delete(r) == \E ids \in SUBSET DOMAIN listed : Ask(r, "delete", ids)

Rewrite(r) == OpenBox(r) \/ OpenNew(r) \/ Copy(r) \/ CopyFails(r) \/ CopyEnds(r) \/ Swap(r)

Next ==
  \/ \E m \in Message : Send(m)
  \/ \E r \in Request : View(r) \/ Get(r) \/ Delete(r) \/ Rewrite(r) \/ Dec(r)
  \/ List
  \/ DeleteAll
  \/ Restart

Spec == Init /\ [][Next]_vars

-----------------------------------------------------------------------------
Requests ==
  [pc : {"idle", "get", "open", "create", "copy", "swap", "dec"},
   op : {"none", "view", "delete"}, ids : SUBSET (Nat \ {0}), chosen : SUBSET Message,
   upToDate : BOOLEAN, src : File \cup {NoFile}, dst : File \cup {NoFile}, pos : Nat]

TypeOK ==
  /\ dataIsHere \in BOOLEAN
  /\ content \in [File -> Seq(Line)]
  /\ box \in File
  /\ new \in File \cup {NoFile}
  /\ new # box
  /\ count \in Int
  /\ listed \in Seq(Line)
  /\ upToDate \in BOOLEAN
  /\ sender \in [Message -> {"idle", "open", "written", "sent"}]
  /\ into \in [Message -> File \cup {NoFile}]
  /\ \A m \in Message : into[m] # NoFile <=> sender[m] = "open"
  /\ request \in [Request -> Requests]
  /\ \A r \in Request : Rewriting(r) => request[r].src # NoFile
  /\ requests \in 0 .. MaxRequests
  /\ restarts \in 0 .. MaxRestarts
  /\ fouled \in BOOLEAN
  /\ misses \in Nat

(* Unless two rewrites met, or one found the <user>.new that a crash or a  *)
(* message with a bad date left behind, no message is in the mailbox       *)
(* twice: that a rewrite appends to whatever has that name does no harm.   *)
NothingDoubled ==
  ~fouled => Cardinality(Held(content[box])) = Len(content[box])

(* A message leaves the mailbox only with a deletion of everything, when   *)
(* the user has picked it from a page nothing has left since, when the     *)
(* page was older, or when it was appended between the end of a copy and   *)
(* the rename: that is all a rewrite may lose (messages.go:164, 259).      *)
OnlyChosenGo ==
  [][\/ fouled'
     \/ content'[box'] = << >> /\ box' = box
     \/ \E r \in Request :
          LET q == request[r]
              lines == content[box]
          IN
          /\ q.pc = "swap"
          /\ \A i \in DOMAIN lines : lines[i].msg \notin Held(content'[box']) =>
               \/ i > q.pos
               \/ q.op = "delete" /\ i \in q.ids /\ (q.upToDate => lines[i].msg \in q.chosen)
     \/ Held(content[box]) \subseteq Held(content'[box'])]_vars

(* What was deleted does not come back, and what was read does not become  *)
(* unread again: a line the mailbox did not have is that of a message just *)
(* written, or the one a view marks.                                       *)
NothingComesBack ==
  [][fouled' \/ \A i \in DOMAIN content'[box'] :
       LET line == content'[box'][i]
       IN \/ \E j \in DOMAIN content[box] :
              content[box][j].msg = line.msg /\ (content[box][j].read => line.read)
          \/ sender[line.msg] = "open" /\ ~line.read]_vars

(* The badge in the menu does not miss an unread message, unless a view    *)
(* has taken one off the count without marking any: the message was read   *)
(* before, was no longer at its position, or its mark could not be         *)
(* written.                                                                *)
BadgeCoversUnread ==
  ~fouled =>
    count + misses + Cardinality({m \in Message : sender[m] = "written"})
      >= Unread(content[box])

-----------------------------------------------------------------------------
(* The inductive invariant.                                                *)

(* What is not written yet is nowhere, nobody writes into <user>.new but   *)
(* the rewriters, and these have opened what they read and write.          *)
FilesSound ==
  /\ \A f \in File : \A m \in Held(content[f]) : sender[m] \in {"written", "sent"}
  /\ \A m \in Message : into[m] = new => new = NoFile
  /\ \A r \in Request : request[r].pc \in {"copy", "swap"} => request[r].dst \in File

Distinct(lines) ==
  \A i, j \in DOMAIN lines : lines[i].msg = lines[j].msg => i = j

Before(q) == 1 .. q.pos

(* The rewrite has copied from "old" what it should keep, in order, each   *)
(* line once and at least as read as it was.                               *)
CopySound(q, old, copied) ==
  /\ q.pos <= Len(old)
  /\ Held(copied) = {old[i].msg : i \in {j \in Before(q) : ~Skipped(q, j)}}
  /\ Distinct(copied)
  /\ \A k \in DOMAIN copied : \E j \in Before(q) :
       old[j].msg = copied[k].msg /\ (old[j].read => copied[k].read)
  /\ Unread(copied) <= Cardinality({i \in Before(q) : ~old[i].read /\ i \notin q.ids})
  /\ (\A i \in Before(q) : ~Skipped(q, i)) =>
       Len(copied) = q.pos /\ \A i \in Before(q) : copied[i].msg = old[i].msg

(* A rewrite alone copies the mailbox into its own file.                   *)
RewriteSound ==
  \A r \in Request : Rewriting(r) =>
    /\ \A s \in Request : Rewriting(s) => s = r
    /\ request[r].src = box
    /\ request[r].pc \in {"copy", "swap"} =>
         request[r].dst = new /\ CopySound(request[r], content[box], content[new])

(* Positions on a page that nothing has left since are those of the box.   *)
PageSound ==
  /\ upToDate => /\ Len(listed) <= Len(content[box])
                 /\ \A i \in DOMAIN listed : content[box][i].msg = listed[i].msg
  /\ \A r \in Request : request[r].upToDate =>
       \A i \in request[r].ids :
         i \in DOMAIN content[box] /\ content[box][i].msg \in request[r].chosen

(* A view that is about to take one off the count has marked a message or  *)
(* missed one.                                                             *)
CountSound ==
  count + misses + Cardinality({m \in Message : sender[m] = "written"})
    >= Unread(content[box]) + Cardinality({r \in Request : request[r].pc = "dec"})

MailInv ==
  /\ TypeOK
  /\ FilesSound
  /\ ~fouled => Distinct(content[box]) /\ RewriteSound /\ PageSound /\ CountSound
=============================================================================
