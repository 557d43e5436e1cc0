------------------------------ MODULE Uploads ------------------------------
(***************************************************************************)
(* What becomes of an uploaded file.  Sound and video are received into a  *)
(* temporary file, a task is dispatched (Dispatcher), and the task runs    *)
(* one encoder goroutine per format, whose errors a collector goroutine    *)
(* counts.  Avatars are converted by the handler itself, or downloaded for *)
(* feeds elsewhere, and written as WebP and PNG under one name; browsers   *)
(* keep them with an ETag made of the second of the file's change.         *)
(*                                                                         *)
(* Abstracted: contents are the request that wrote them; codecs succeed,   *)
(* fail or are killed.  An image task is ProcessImage under a name of its  *)
(* own: the steps of an avatar, which nobody meets.                        *)
(***************************************************************************)
EXTENDS Naturals, FiniteSets

CONSTANTS
  Upload,     \* requests that bring or fetch a file
  Encoder,    \* the formats a task makes: OGG and MP3, or WebM, MP4 and poster
  NoFile,     \* no such file
  Empty,      \* a file without content
  MaxClock,   \* bound: seconds
  MaxCrashes  \* bound: ends of the program

ASSUME UploadsAssumption ==
  /\ IsFiniteSet(Encoder)
  /\ NoFile \notin Upload \cup {Empty} /\ Empty \notin Upload
  /\ MaxClock \in Nat \ {0} /\ MaxCrashes \in Nat

VARIABLES
  at,      \* where each upload is
  temp,    \* uploads whose temporary file is there
  enc,     \* position of the encoders of each upload
  err,     \* what RunCmd returned to them
  errs,    \* the collector: position, error in hand, nErrors, finalErr
  reason,  \* the error in ErrVideoUploadFailed, once a task has failed
  place,   \* what is uploaded: media, a user's avatar, or one of a feed elsewhere
  webp,    \* the WebP file: who wrote it, the second, again in that second
  png,     \* the PNG file, written in two parts
  source,  \* what ImageToPng has decoded
  browser, \* what a browser keeps: the ETag and the picture
  clock, crashes,
  hurt     \* history: the last writing of the avatar met another or was cut off

taskVars == <<enc, err, errs, reason>>
pictureVars == <<webp, png, source, hurt>>
worldVars == <<place, browser, clock, crashes>>
vars == <<at, temp, taskVars, pictureVars, worldVars>>

Errors == {"none", "failed", "timeout"}
Picture == Upload \cup {NoFile, Empty}

Quiet == [at |-> "off", hand |-> "none", n |-> 0, final |-> "none"]

Init ==
  /\ at = [u \in Upload |-> "idle"]
  /\ temp = {}
  /\ enc = [u \in Upload |-> [e \in Encoder |-> "off"]]
  /\ err = [u \in Upload |-> [e \in Encoder |-> "none"]]
  /\ errs = [u \in Upload |-> Quiet]
  /\ reason = [u \in Upload |-> "none"]
  /\ place \in {"media", "avatars", "external"}
  /\ webp = [by |-> NoFile, mod |-> 0, again |-> FALSE]
  /\ png = [head |-> NoFile, tail |-> NoFile]
  /\ source = [u \in Upload |-> NoFile]
  /\ browser = [at |-> "idle", tag |-> 0, picture |-> NoFile]
  /\ clock = 1 /\ crashes = 0 /\ hurt = FALSE

Go(u, pos) == at' = [at EXCEPT ![u] = pos]

-----------------------------------------------------------------------------
(* Receiving                                                               *)

\* The temporary file stays when what came is not what it should be.
Receive(u, next) ==
  /\ at[u] = "idle"
  /\ \/ temp' = temp \cup {u} /\ \E pos \in {next, "refused"} : Go(u, pos)
     \/ temp' = temp /\ Go(u, "refused")
  /\ UNCHANGED <<taskVars, pictureVars, worldVars>>

\* Media have names of their own and never meet an avatar: they are a case apart.
UploadMedia(u) == place = "media" /\ Receive(u, "dispatch")

\* A picture that is converted at once, by the handler.
StoreUploadedImage(u) == Receive(u, "decode")
DownloadImage(u) == Receive(u, "decode")

\* Settings, feed, pod and API handlers store an avatar over the one there is.
UploadAvatar(u) == place = "avatars" /\ StoreUploadedImage(u)

\* The avatar of a feed elsewhere is fetched when there is none.
GetExternalAvatar(u) == place = "external" /\ webp.by = NoFile /\ DownloadImage(u)

Dispatch(u) ==
  /\ at[u] = "dispatch"
  /\ \E pos \in {"queued", "refused"} : Go(u, pos)
  /\ UNCHANGED <<temp, taskVars, pictureVars, worldVars>>

-----------------------------------------------------------------------------
(* TranscodeVideo and TranscodeAudio                                       *)

\* A worker runs the task: output file, collector, encoders.
StartEncoders(u) ==
  /\ at[u] = "queued"
  /\ \/ /\ Go(u, "transcode")
        /\ enc' = [enc EXCEPT ![u] = [e \in Encoder |-> "run"]]
        /\ errs' = [errs EXCEPT ![u].at = "select"]
     \/ Go(u, "failed") /\ UNCHANGED <<enc, errs>>
  /\ UNCHANGED <<temp, err, reason, pictureVars, worldVars>>

\* A command succeeds, fails, or is killed when its time is up.
RunCmd(u, e) == \E x \in Errors : err' = [err EXCEPT ![u][e] = x]

Encode(u, e) ==
  /\ enc[u][e] = "run"
  /\ RunCmd(u, e)
  /\ enc' = [enc EXCEPT ![u][e] = IF err'[u][e] = "none" THEN "done" ELSE "send"]
  /\ UNCHANGED <<at, temp, errs, reason, pictureVars, worldVars>>

\* The send on errChan, which has no buffer, and the encoder's wg.Done.
Collect(u, e) ==
  /\ errs[u].at = "select" /\ enc[u][e] = "send"
  /\ errs' = [errs EXCEPT ![u].at = "count", ![u].hand = err[u][e]]
  /\ enc' = [enc EXCEPT ![u][e] = "done"]
  /\ UNCHANGED <<at, temp, err, reason, pictureVars, worldVars>>

\* Mutant: the collector leaves with the first error.
CountErrorAndLeave(u) ==
  /\ errs[u].at = "count"
  /\ errs' = [errs EXCEPT ![u].at = "gone", ![u].n = @ + 1, ![u].final = errs[u].hand]
  /\ UNCHANGED <<at, temp, enc, err, reason, pictureVars, worldVars>>

\* The collector counts, logs, and notes the error, while the task may look.
CountError(u) ==
  /\ errs[u].at = "count"
  /\ errs' = [errs EXCEPT ![u].at = "note", ![u].n = @ + 1]
  /\ UNCHANGED <<at, temp, enc, err, reason, pictureVars, worldVars>>

NoteError(u) ==
  /\ errs[u].at = "note"
  /\ errs' = [errs EXCEPT ![u].at = "select", ![u].hand = "none", ![u].final = errs[u].hand]
  /\ UNCHANGED <<at, temp, enc, err, reason, pictureVars, worldVars>>

\* errChan is closed, or the context cancelled.
CollectorEnds(u) ==
  /\ errs[u].at = "select" /\ at[u] # "transcode"
  /\ errs' = [errs EXCEPT ![u].at = "gone"]
  /\ UNCHANGED <<at, temp, enc, err, reason, pictureVars, worldVars>>

\* Mutant: the group waits for one encoder less.
WaitForOthers(u) ==
  /\ at[u] = "transcode"
  /\ Cardinality({e \in Encoder : enc[u][e] # "done"}) <= 1
  /\ Go(u, "waited")
  /\ UNCHANGED <<temp, taskVars, pictureVars, worldVars>>

\* wg.Wait and close(errChan).
Wait(u) ==
  /\ at[u] = "transcode"
  /\ \A e \in Encoder : enc[u][e] = "done"
  /\ Go(u, "waited")
  /\ UNCHANGED <<temp, taskVars, pictureVars, worldVars>>

\* Mutant: one error is not yet too many.
CheckManyErrors(u) ==
  /\ at[u] = "waited"
  /\ IF errs[u].n > 1 THEN /\ Go(u, "failed") /\ UNCHANGED temp
                           /\ reason' = [reason EXCEPT ![u] = errs[u].final]
                      ELSE /\ Go(u, "ok") /\ temp' = temp \ {u} /\ UNCHANGED reason
  /\ UNCHANGED <<enc, err, errs, pictureVars, worldVars>>

\* The task reads nErrors and finalErr as the collector has them by now; when
\* there is no error it removes the input and sets the URI.
CheckErrors(u) ==
  /\ at[u] = "waited"
  /\ IF errs[u].n > 0 THEN /\ Go(u, "failed") /\ UNCHANGED temp
                           /\ reason' = [reason EXCEPT ![u] = errs[u].final]
                      ELSE /\ Go(u, "ok") /\ temp' = temp \ {u} /\ UNCHANGED reason
  /\ UNCHANGED <<enc, err, errs, pictureVars, worldVars>>

Transcode(u) ==
  \/ StartEncoders(u) \/ \E e \in Encoder : Encode(u, e) \/ Collect(u, e)
  \/ CountError(u) \/ NoteError(u) \/ CollectorEnds(u) \/ Wait(u) \/ CheckErrors(u)

-----------------------------------------------------------------------------
(* ProcessImage                                                            *)

Writing(u) == at[u] \in {"encode", "png", "tail"}
WritesAlone(u) == \A v \in Upload \ {u} : ~Writing(v)

imageRest == <<temp, taskVars, worldVars>>

Decode(u) ==
  /\ at[u] = "decode"
  /\ \E pos \in {"open", "failed"} : Go(u, pos)
  /\ UNCHANGED <<pictureVars, imageRest>>

\* Opened to write and not truncated: an old picture stays until it is
\* written over, a new file is empty.
OpenOutput(u) ==
  /\ at[u] = "open"
  /\ webp' = IF webp.by = NoFile THEN [by |-> Empty, mod |-> clock, again |-> FALSE] ELSE webp
  /\ hurt' = ~WritesAlone(u)
  /\ Go(u, "encode")
  /\ UNCHANGED <<png, source, imageRest>>

EncodeWebP(u) ==
  /\ at[u] = "encode"
  /\ \/ /\ webp' = [by |-> u, mod |-> clock, again |-> webp.mod = clock]
        /\ Go(u, "png") /\ UNCHANGED hurt
     \/ Go(u, "failed") /\ hurt' = TRUE /\ UNCHANGED webp
  /\ UNCHANGED <<png, source, imageRest>>

\* Mutant: the PNG is made of a picture once it is there.
KeepPng(u) ==
  /\ at[u] = "png"
  /\ png.head # NoFile
  /\ Go(u, "ok")
  /\ UNCHANGED <<pictureVars, imageRest>>

HeadOrKeepPng(u) ==
  \/ KeepPng(u)
  \/ /\ at[u] = "png" /\ png.head = NoFile
     /\ source' = [source EXCEPT ![u] = webp.by]
     /\ png' = [png EXCEPT !.head = webp.by]
     /\ Go(u, "tail")
     /\ UNCHANGED <<webp, hurt, imageRest>>

\* ImageToPng reads the WebP file as it is now, whoever wrote it.  When it
\* fails that is logged.
HeadOfPng(u) ==
  /\ at[u] = "png"
  /\ \/ /\ source' = [source EXCEPT ![u] = webp.by]
        /\ png' = [png EXCEPT !.head = webp.by]
        /\ Go(u, "tail") /\ UNCHANGED hurt
     \/ Go(u, "ok") /\ hurt' = TRUE /\ UNCHANGED <<png, source>>
  /\ UNCHANGED <<webp, imageRest>>

TailOfPng(u) ==
  /\ at[u] = "tail"
  /\ png' = [png EXCEPT !.tail = source[u]]
  /\ Go(u, "ok")
  /\ UNCHANGED <<webp, source, hurt, imageRest>>

ProcessImage(u) == \/ Decode(u) \/ OpenOutput(u) \/ EncodeWebP(u)
                   \/ HeadOfPng(u) \/ TailOfPng(u)

-----------------------------------------------------------------------------
(* AvatarHandler, ExternalAvatarHandler, and a browser that revalidates    *)

browserRest == <<at, temp, taskVars, pictureVars, place, clock, crashes>>

\* The date of the file is the ETag; when the browser has it that is all.
Revalidate ==
  /\ browser.at = "idle" /\ webp.by # NoFile /\ browser.tag # webp.mod
  /\ browser' = [browser EXCEPT !.at = "copy", !.tag = webp.mod]
  /\ UNCHANGED browserRest

\* Mutant: the date is taken after the content.
CopyThenStat ==
  /\ browser.at = "copy"
  /\ \E mod \in webp.mod .. clock :
       browser' = [at |-> "idle", tag |-> mod, picture |-> webp.by]
  /\ UNCHANGED browserRest

CopyPicture ==
  /\ browser.at = "copy"
  /\ browser' = [browser EXCEPT !.at = "idle", !.picture = webp.by]
  /\ UNCHANGED browserRest

GetAvatar == Revalidate \/ CopyPicture

Tick ==
  /\ clock < MaxClock /\ clock' = clock + 1
  /\ UNCHANGED <<at, temp, taskVars, pictureVars, place, browser, crashes>>

\* The program ends: files stay as they are.
Crash ==
  /\ crashes < MaxCrashes /\ crashes' = crashes + 1
  /\ hurt' = (hurt \/ \E u \in Upload : Writing(u))
  /\ at' = [u \in Upload |-> IF at[u] = "idle" THEN "idle" ELSE "gone"]
  /\ enc' = [u \in Upload |-> [e \in Encoder |-> "off"]]
  /\ errs' = [u \in Upload |-> Quiet]
  /\ browser' = [browser EXCEPT !.at = "idle", !.tag = IF browser.at = "copy" THEN 0 ELSE @]
  /\ UNCHANGED <<temp, err, reason, place, webp, png, source, clock>>

Next ==
  \/ \E u \in Upload : \/ UploadMedia(u) \/ UploadAvatar(u) \/ GetExternalAvatar(u)
                       \/ Dispatch(u) \/ Transcode(u) \/ ProcessImage(u)
  \/ GetAvatar
  \/ Tick \/ Crash

\* Goroutines run, and RunCmd kills an encoder that takes too long.
Fairness == \A u \in Upload : WF_vars(Transcode(u))

Spec == Init /\ [][Next]_vars /\ Fairness

-----------------------------------------------------------------------------
(* Properties                                                              *)

\* Types; an encoder at work finds its input, which is removed under it by
\* no one: the task waits for every encoder.
TypeOK ==
  /\ at \in [Upload -> {"idle", "refused", "dispatch", "queued", "transcode", "waited",
                        "decode", "open", "encode", "png", "tail", "ok", "failed", "gone"}]
  /\ temp \subseteq Upload
  /\ enc \in [Upload -> [Encoder -> {"off", "run", "send", "done"}]]
  /\ err \in [Upload -> [Encoder -> Errors]]
  /\ errs \in [Upload -> [at : {"off", "select", "count", "note", "gone"}, hand : Errors,
                          n : 0 .. Cardinality(Encoder), final : Errors]]
  /\ reason \in [Upload -> Errors] /\ source \in [Upload -> Picture]
  /\ place \in {"media", "avatars", "external"}
  /\ webp \in [by : Picture, mod : 0 .. MaxClock, again : BOOLEAN]
  /\ png \in [head : Picture, tail : Picture]
  /\ browser \in [at : {"idle", "copy"}, tag : 0 .. MaxClock, picture : Picture]
  /\ clock \in 1 .. MaxClock /\ crashes \in 0 .. MaxCrashes /\ hurt \in BOOLEAN
  /\ \A u \in Upload : (\E e \in Encoder : enc[u][e] = "run") => u \in temp

Failed(u) == {e \in Encoder : err[u][e] # "none"}

\* The collector does its counting after the encoder is done, and nobody
\* waits for the collector: one failure may be missed, and the task says that
\* all went well; of two, one at least is told.  A task that fails says why,
\* unless that one error has been counted and not yet noted, and does not
\* blame a timeout when there was none (utils.go:775-801, 1034-1066).
FailuresTold ==
  \A u \in Upload :
    /\ at[u] = "ok" => Cardinality(Failed(u)) <= 1
    /\ at[u] = "failed" /\ Failed(u) # {} =>
         IF reason[u] = "none" THEN Cardinality(Failed(u)) = 1
         ELSE reason[u] \in {err[u][e] : e \in Encoder}

\* An encoder that fails is not kept waiting for ever by a collector that has
\* left: every task that is begun ends.
EncodersEnd ==
  \A u \in Upload : at[u] = "transcode" ~> at[u] \in {"ok", "failed", "gone"}

\* WebP and PNG of an avatar show the same picture once nobody writes them,
\* and neither is left empty or mixed, unless the last uploads met, or one
\* failed or was cut off half way (utils.go:867, 882).
FormatsAgree ==
  (\A u \in Upload : ~Writing(u)) /\ ~hurt =>
    png.head = webp.by /\ png.tail = webp.by /\ webp.by # Empty

\* A browser that is told that its avatar has not changed shows the present
\* one, although date and content are read one after the other, unless the
\* file was written twice in one second (handlers.go:498-513).
FreshUnlessTwice ==
  browser.at = "idle" /\ browser.tag > 0 /\ browser.tag = webp.mod
    => browser.picture = webp.by \/ webp.again

-----------------------------------------------------------------------------
(* Why they hold: the inductive invariant, proved in UploadsProofs          *)

\* Errors the collector has taken over.
Collected(u) == {e \in Encoder : enc[u][e] = "done" /\ err[u][e] # "none"}

\* Before a task has begun its encoders, and where there are none, there is
\* nothing to tell; encoders run while the task waits for them; and the
\* collector has counted what it took over, but for the error in its hand.
TaskSound(u) ==
  /\ at[u] \notin {"transcode", "waited", "ok", "failed", "gone"} =>
       /\ \A e \in Encoder : enc[u][e] = "off" /\ err[u][e] = "none"
       /\ errs[u] = Quiet
  /\ at[u] \in {"dispatch", "queued", "transcode", "waited"} => u \in temp
  /\ at[u] = "waited" => \A e \in Encoder : enc[u][e] = "done"
  /\ \A e \in Encoder :
       /\ enc[u][e] \in {"run", "send"} => at[u] = "transcode"
       /\ enc[u][e] = "run" => err[u][e] = "none"
       /\ enc[u][e] = "send" => err[u][e] # "none"
  /\ Cardinality(Collected(u)) = errs[u].n + (IF errs[u].at = "count" THEN 1 ELSE 0)
  /\ errs[u].at \in {"count", "note"} => errs[u].hand \in {err[u][e] : e \in Encoder} \ {"none"}
  /\ IF errs[u].final = "none" THEN errs[u].n = IF errs[u].at = "note" THEN 1 ELSE 0
     ELSE errs[u].final \in {err[u][e] : e \in Encoder}

\* Unless the last writing was hurt, one upload at most writes, and what it
\* has written so far is its own.
PictureSound ==
  ~hurt => /\ \A u, v \in Upload : Writing(u) /\ Writing(v) => u = v
           /\ \A u \in Upload :
                /\ at[u] \in {"png", "tail"} => webp.by = u
                /\ at[u] = "tail" => png.head = u /\ source[u] = u

\* Dates only grow, and a browser has none the file did not have.
DateSound ==
  /\ browser.tag <= webp.mod /\ webp.mod <= clock
  /\ webp.by = NoFile => webp.mod = 0

UploadsInv ==
  /\ TypeOK
  /\ \A u \in Upload : TaskSound(u)
  /\ FailuresTold
  /\ PictureSound /\ FormatsAgree
  /\ DateSound /\ FreshUnlessTwice
=============================================================================
