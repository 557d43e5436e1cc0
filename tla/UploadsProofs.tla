--------------------------- MODULE UploadsProofs ---------------------------
(* Theorems about uploads, for any uploads, any finite set of encoders,    *)
(* and any number of seconds and crashes.                                  *)
EXTENDS Uploads, FiniteSetTheorems, TLAPS

(* What FailuresTold says of one upload.                                   *)
Told(u) ==
  /\ at[u] = "ok" => Cardinality(Failed(u)) <= 1
  /\ at[u] = "failed" /\ Failed(u) # {} =>
       IF reason[u] = "none" THEN Cardinality(Failed(u)) = 1
       ELSE reason[u] \in {err[u][e] : e \in Encoder}

(* The types of what a task reads and writes.                              *)
Positions == {"idle", "refused", "dispatch", "queued", "transcode", "waited",
              "decode", "open", "encode", "png", "tail", "ok", "failed", "gone"}

CollectorTypes == [at : {"off", "select", "count", "note", "gone"}, hand : Errors,
                   n : 0 .. Cardinality(Encoder), final : Errors]

TaskTypes ==
  /\ at \in [Upload -> Positions]
  /\ temp \subseteq Upload
  /\ enc \in [Upload -> [Encoder -> {"off", "run", "send", "done"}]]
  /\ err \in [Upload -> [Encoder -> Errors]]
  /\ errs \in [Upload -> CollectorTypes]
  /\ reason \in [Upload -> Errors]

TaskInv(u) == TaskSound(u) /\ Told(u)

-----------------------------------------------------------------------------
(* Counting errors.                                                        *)

(* The errors collected are never more than the encoders.                  *)
LEMMA CollectedFinite ==
  ASSUME NEW u \in Upload
  PROVE  /\ IsFiniteSet(Collected(u)) /\ Cardinality(Collected(u)) \in Nat
         /\ Cardinality(Collected(u)) <= Cardinality(Encoder) /\ Cardinality(Encoder) \in Nat
  <1>1. Collected(u) \in SUBSET Encoder
    BY DEF Collected
  <1> QED BY <1>1, UploadsAssumption, FS_Subset, FS_CardinalityType

(* What nothing happens to stays as it was.                                *)
LEMMA TaskStays ==
  ASSUME NEW u \in Upload, TaskInv(u), at'[u] = at[u], u \in temp => u \in temp',
         enc'[u] = enc[u], err'[u] = err[u], errs'[u] = errs[u], reason'[u] = reason[u]
  PROVE  TaskInv(u)'
  <1>1. Collected(u)' = Collected(u) /\ Failed(u)' = Failed(u)
    BY DEF Collected, Failed
  <1>2. TaskSound(u)'
    BY <1>1 DEF TaskInv, TaskSound
  <1>3. Told(u)'
    BY <1>1 DEF TaskInv, Told
  <1> QED BY <1>2, <1>3 DEF TaskInv

(* Until its encoders begin an upload may go anywhere but to them.         *)
LEMMA BeforeEncoders ==
  ASSUME NEW u \in Upload, TaskTypes, TaskInv(u),
         at[u] \notin {"transcode", "waited", "ok", "failed", "gone"},
         at'[u] \notin {"transcode", "waited"},
         at'[u] \in {"dispatch", "queued"} => u \in temp',
         enc'[u] = enc[u], err'[u] = err[u], errs'[u] = errs[u], reason'[u] = reason[u]
  PROVE  TaskInv(u)'
  <1>1. \A e \in Encoder : enc[u][e] = "off" /\ err[u][e] = "none"
    BY DEF TaskInv, TaskSound
  <1>2. Collected(u)' = Collected(u) /\ Failed(u)' = {}
    BY <1>1 DEF Collected, Failed
  <1>3. TaskSound(u)'
    BY <1>1, <1>2 DEF TaskInv, TaskSound
  <1>4. Told(u)'
    BY <1>2, FS_EmptySet DEF Told
  <1> QED BY <1>3, <1>4 DEF TaskInv

-----------------------------------------------------------------------------
(* The steps of a task.                                                    *)

(* The task begins: all encoders run, and the collector has nothing.       *)
LEMMA StartEncodersSound ==
  ASSUME NEW u \in Upload, TaskTypes, TaskInv(u), StartEncoders(u)
  PROVE  TaskInv(u)'
  <1>0. at[u] = "queued" /\ u \in temp /\ errs[u] = Quiet
        /\ \A e \in Encoder : enc[u][e] = "off" /\ err[u][e] = "none"
    BY DEF TaskInv, TaskSound, StartEncoders
  <1>1. CASE at'[u] = "transcode"
    <2>1. enc'[u] = [e \in Encoder |-> "run"] /\ err'[u] = err[u] /\ temp' = temp
      BY <1>1 DEF StartEncoders, Go, TaskTypes, Positions, CollectorTypes
    <2>2. errs'[u] = [Quiet EXCEPT !.at = "select"]
      BY <1>0, <1>1 DEF StartEncoders, Go, TaskTypes, Positions, CollectorTypes
    <2>3. Collected(u)' = {}
      BY <2>1 DEF Collected
    <2>4. TaskSound(u)'
      BY <1>0, <1>1, <2>1, <2>2, <2>3, FS_EmptySet DEF TaskSound, Quiet
    <2>5. Told(u)'
      BY <1>1 DEF Told
    <2> QED BY <2>4, <2>5 DEF TaskInv
  <1>2. CASE at'[u] # "transcode"
    <2>1. at'[u] = "failed" /\ UNCHANGED <<enc, err, errs, reason>>
      BY <1>2 DEF StartEncoders, Go, TaskTypes, Positions, CollectorTypes
    <2> QED BY <1>0, <2>1, BeforeEncoders
  <1> QED BY <1>1, <1>2

(* An encoder that ends with an error has not been collected yet.          *)
LEMMA EncodeSound ==
  ASSUME NEW u \in Upload, TaskTypes, TaskInv(u), NEW e \in Encoder, Encode(u, e)
  PROVE  TaskInv(u)'
  <1>0. /\ enc[u][e] = "run" /\ at[u] = "transcode" /\ err[u][e] = "none"
        /\ UNCHANGED <<at, temp, errs, reason>>
    BY DEF TaskInv, TaskSound, Encode
  <1>1. /\ \A d \in Encoder \ {e} : enc'[u][d] = enc[u][d] /\ err'[u][d] = err[u][d]
        /\ err'[u][e] \in Errors
        /\ enc'[u][e] = IF err'[u][e] = "none" THEN "done" ELSE "send"
    BY DEF TaskTypes, Positions, CollectorTypes, Encode, RunCmd
  <1>2. Collected(u)' = Collected(u)
    BY <1>0, <1>1 DEF Collected
  <1>3. ASSUME NEW x, x # "none", x \in {err[u][d] : d \in Encoder}
        PROVE  x \in {err'[u][d] : d \in Encoder}
    BY <1>0, <1>1, <1>3
  <1>4. TaskSound(u)'
    BY <1>0, <1>1, <1>2, <1>3 DEF TaskInv, TaskSound
  <1>5. Told(u)'
    BY <1>0 DEF Told
  <1> QED BY <1>4, <1>5 DEF TaskInv

(* The collector takes one error over, which is in its hand.               *)
LEMMA CollectSound ==
  ASSUME NEW u \in Upload, TaskTypes, TaskInv(u), NEW e \in Encoder, Collect(u, e)
  PROVE  TaskInv(u)'
  <1>0. /\ enc[u][e] = "send" /\ at[u] = "transcode" /\ err[u][e] # "none"
        /\ errs[u].at = "select"
        /\ UNCHANGED <<at, temp, err, reason>>
    BY DEF TaskInv, TaskSound, Collect
  <1>1. /\ \A d \in Encoder \ {e} : enc'[u][d] = enc[u][d]
        /\ enc'[u][e] = "done"
        /\ errs'[u].at = "count" /\ errs'[u].hand = err[u][e]
        /\ errs'[u].n = errs[u].n /\ errs'[u].final = errs[u].final
    BY DEF TaskTypes, Positions, CollectorTypes, Collect
  <1>2. Collected(u)' = Collected(u) \cup {e} /\ e \notin Collected(u)
    BY <1>0, <1>1 DEF Collected
  <1>3. Cardinality(Collected(u)') = Cardinality(Collected(u)) + 1
    BY <1>2, CollectedFinite, FS_AddElement
  <1>4. Cardinality(Collected(u)) = errs[u].n /\ errs[u].n \in Nat
    BY <1>0, CollectedFinite DEF TaskInv, TaskSound, TaskTypes, Positions, CollectorTypes
  <1>5. TaskSound(u)'
    BY <1>0, <1>1, <1>3, <1>4 DEF TaskInv, TaskSound
  <1>6. Told(u)'
    BY <1>0 DEF Told
  <1> QED BY <1>5, <1>6 DEF TaskInv

(* Counting, noting and leaving are the collector's own business.          *)
LEMMA CollectorSound ==
  ASSUME NEW u \in Upload, TaskTypes, TaskInv(u),
         CountError(u) \/ NoteError(u) \/ CollectorEnds(u)
  PROVE  TaskInv(u)'
  <1>0. UNCHANGED <<at, temp, enc, err, reason>>
    BY DEF CountError, NoteError, CollectorEnds
  <1>1. Collected(u)' = Collected(u) /\ Failed(u)' = Failed(u)
    BY <1>0 DEF Collected, Failed
  <1>2. errs[u].n \in Nat /\ errs[u].at # "off" /\ errs[u] # Quiet
    BY DEF TaskTypes, Positions, CollectorTypes, CountError, NoteError, CollectorEnds, Quiet
  <1>3. CASE CountError(u)
    <2>1. /\ errs[u].at = "count" /\ errs'[u].at = "note" /\ errs'[u].n = errs[u].n + 1
          /\ errs'[u].hand = errs[u].hand /\ errs'[u].final = errs[u].final
      BY <1>3 DEF TaskTypes, Positions, CollectorTypes, CountError
    <2> QED BY <1>0, <1>1, <1>2, <2>1 DEF TaskInv, TaskSound, Told
  <1>4. CASE NoteError(u)
    <2>1. /\ errs[u].at = "note" /\ errs'[u].at = "select" /\ errs'[u].n = errs[u].n
          /\ errs'[u].hand = "none" /\ errs'[u].final = errs[u].hand
      BY <1>4 DEF TaskTypes, Positions, CollectorTypes, NoteError
    <2> QED BY <1>0, <1>1, <1>2, <2>1 DEF TaskInv, TaskSound, Told
  <1>5. CASE CollectorEnds(u)
    <2>1. /\ errs[u].at = "select" /\ errs'[u].at = "gone" /\ errs'[u].n = errs[u].n
          /\ errs'[u].hand = errs[u].hand /\ errs'[u].final = errs[u].final
      BY <1>5 DEF TaskTypes, Positions, CollectorTypes, CollectorEnds
    <2> QED BY <1>0, <1>1, <1>2, <2>1 DEF TaskInv, TaskSound, Told
  <1> QED BY <1>3, <1>4, <1>5

(* The task waits for all its encoders.                                    *)
LEMMA WaitSound ==
  ASSUME NEW u \in Upload, TaskTypes, TaskInv(u), Wait(u)
  PROVE  TaskInv(u)'
  <1>1. /\ at[u] = "transcode" /\ at'[u] = "waited" /\ UNCHANGED <<temp, enc, err, errs, reason>>
        /\ \A e \in Encoder : enc[u][e] = "done"
    BY DEF TaskTypes, Positions, CollectorTypes, Wait, Go, taskVars
  <1>2. Collected(u)' = Collected(u)
    BY <1>1 DEF Collected
  <1> QED BY <1>1, <1>2 DEF TaskInv, TaskSound, Told

(* When it looks, one error at most has been collected and not counted.    *)
LEMMA CheckErrorsSound ==
  ASSUME NEW u \in Upload, TaskTypes, TaskInv(u), CheckErrors(u)
  PROVE  TaskInv(u)'
  <1>1. /\ at[u] = "waited" /\ UNCHANGED <<enc, err, errs>> /\ errs[u].n \in Nat
        /\ IF errs[u].n > 0 THEN at'[u] = "failed" /\ reason'[u] = errs[u].final
                            ELSE at'[u] = "ok"
    BY DEF TaskTypes, Positions, CollectorTypes, CheckErrors, Go
  <1>2. \A e \in Encoder : enc[u][e] = "done"
    BY <1>1 DEF TaskInv, TaskSound
  <1>3. Collected(u)' = Collected(u) /\ Failed(u)' = Collected(u)
    BY <1>1, <1>2 DEF Collected, Failed
  <1>4. TaskSound(u)'
    BY <1>1, <1>2, <1>3 DEF TaskInv, TaskSound
  <1>5. Told(u)'
    BY <1>1, <1>3 DEF TaskInv, TaskSound, Told
  <1> QED BY <1>4, <1>5 DEF TaskInv

-----------------------------------------------------------------------------
(* All steps, as tasks see them.                                           *)

(* The steps of upload u outside its task.                                 *)
Moves(u) == \/ UploadMedia(u) \/ UploadAvatar(u) \/ GetExternalAvatar(u)
            \/ Dispatch(u) \/ ProcessImage(u)

(* Receiving, dispatching and converting a picture touch no task.          *)
LEMMA MovesSound ==
  ASSUME NEW u \in Upload, TaskTypes, TaskInv(u), Moves(u)
  PROVE  TaskInv(u)'
  <1>1. UNCHANGED taskVars
    BY DEF Moves, UploadMedia, UploadAvatar, StoreUploadedImage, GetExternalAvatar, DownloadImage,
           Receive, Dispatch, ProcessImage, Decode, OpenOutput, EncodeWebP, HeadOfPng, TailOfPng,
           imageRest
  <1>2. /\ at[u] \in {"idle", "dispatch", "decode", "open", "encode", "png", "tail"}
        /\ at'[u] \notin {"transcode", "waited"}
        /\ at'[u] \in {"dispatch", "queued"} => u \in temp'
    <2>1. CASE UploadMedia(u) \/ UploadAvatar(u) \/ GetExternalAvatar(u)
      BY <2>1 DEF TaskTypes, Positions, CollectorTypes, UploadMedia, UploadAvatar, StoreUploadedImage, GetExternalAvatar,
                  DownloadImage, Receive, Go
    <2>2. CASE Dispatch(u)
      BY <2>2 DEF TaskTypes, Positions, CollectorTypes, TaskInv, TaskSound, Dispatch, Go
    <2>3. CASE ProcessImage(u)
      BY <2>3 DEF TaskTypes, Positions, CollectorTypes, ProcessImage, Decode, OpenOutput, EncodeWebP, HeadOfPng, TailOfPng, Go
    <2> QED BY <2>1, <2>2, <2>3 DEF Moves
  <1> QED BY <1>1, <1>2, BeforeEncoders DEF taskVars

(* The steps of a task keep it sound.                                      *)
LEMMA TranscodeSound ==
  ASSUME NEW u \in Upload, TaskTypes, TaskInv(u), Transcode(u)
  PROVE  TaskInv(u)'
  BY StartEncodersSound, EncodeSound, CollectSound, CollectorSound, WaitSound, CheckErrorsSound
     DEF Transcode

(* No upload disturbs the task of another.                                 *)
LEMMA OthersStay ==
  ASSUME NEW u \in Upload, NEW v \in Upload \ {u}, TaskTypes, TaskInv(v), Moves(u) \/ Transcode(u)
  PROVE  TaskInv(v)'
  <1>1. CASE Moves(u)
    <2>1. UNCHANGED taskVars
      BY <1>1 DEF Moves, UploadMedia, UploadAvatar, StoreUploadedImage, GetExternalAvatar,
             DownloadImage, Receive, Dispatch, ProcessImage, Decode, OpenOutput, EncodeWebP,
             HeadOfPng, TailOfPng, imageRest
    <2>2. at'[v] = at[v] /\ (v \in temp => v \in temp')
      BY <1>1 DEF TaskTypes, Positions, CollectorTypes, Moves, UploadMedia, UploadAvatar, StoreUploadedImage,
             GetExternalAvatar, DownloadImage, Receive, Dispatch, ProcessImage, Decode, OpenOutput,
             EncodeWebP, HeadOfPng, TailOfPng, imageRest, Go
    <2> QED BY <2>1, <2>2, TaskStays DEF taskVars
  <1>2. CASE Transcode(u)
    <2>1. at'[v] = at[v] /\ (v \in temp => v \in temp')
      BY <1>2 DEF TaskTypes, Positions, CollectorTypes, Transcode, StartEncoders, Encode, Collect, CountError, NoteError,
             CollectorEnds, Wait, CheckErrors, Go
    <2>2. enc'[v] = enc[v] /\ err'[v] = err[v]
      BY <1>2 DEF TaskTypes, Positions, CollectorTypes, Transcode, StartEncoders, Encode, RunCmd, Collect, CountError,
             NoteError, CollectorEnds, Wait, CheckErrors, taskVars
    <2>3. errs'[v] = errs[v] /\ reason'[v] = reason[v]
      BY <1>2 DEF TaskTypes, Positions, CollectorTypes, Transcode, StartEncoders, Encode, Collect, CountError, NoteError,
             CollectorEnds, Wait, CheckErrors, taskVars
    <2> QED BY <2>1, <2>2, <2>3, TaskStays
  <1> QED BY <1>1, <1>2

(* When the program ends there is nothing left to tell.                    *)
LEMMA CrashSound ==
  ASSUME NEW u \in Upload, TaskTypes, TaskInv(u), Crash
  PROVE  TaskInv(u)'
  <1>1. CASE at[u] = "idle"
    <2>1. \A e \in Encoder : enc[u][e] = "off" /\ enc'[u][e] = "off" /\ err[u][e] = "none"
      BY <1>1 DEF TaskInv, TaskSound, Crash
    <2>2. errs'[u] = Quiet /\ at'[u] = "idle" /\ err' = err
      BY <1>1 DEF Crash
    <2>3. Collected(u)' = {}
      BY <2>1 DEF Collected
    <2> QED BY <2>1, <2>2, <2>3, FS_EmptySet DEF TaskInv, TaskSound, Told, Quiet
  <1>2. CASE at[u] # "idle"
    <2>1. /\ \A e \in Encoder : enc'[u][e] = "off"
          /\ errs'[u] = Quiet /\ at'[u] = "gone"
      BY <1>2 DEF Crash
    <2>2. Collected(u)' = {}
      BY <2>1 DEF Collected
    <2> QED BY <2>1, <2>2, FS_EmptySet DEF TaskInv, TaskSound, Told, Quiet
  <1> QED BY <1>1, <1>2

(* Every step keeps the task of every upload sound.                        *)
LEMMA TaskStep ==
  ASSUME UploadsInv, [Next]_vars, NEW u \in Upload
  PROVE  TaskInv(u)'
  <1>0. TaskTypes /\ \A v \in Upload : TaskInv(v)
    BY DEF UploadsInv, TypeOK, TaskTypes, Positions, CollectorTypes, TaskInv, FailuresTold, Told
  <1>1. ASSUME NEW v \in Upload, Moves(v) \/ Transcode(v) PROVE TaskInv(u)'
    BY <1>0, <1>1, MovesSound, TranscodeSound, OthersStay
  <1>2. CASE Crash
    BY <1>0, <1>2, CrashSound
  <1>3. CASE GetAvatar \/ Tick \/ UNCHANGED vars
    <2>1. UNCHANGED <<at, temp, taskVars>>
      BY <1>3 DEF GetAvatar, Revalidate, CopyPicture, browserRest, Tick, vars
    <2> QED BY <1>0, <2>1, TaskStays DEF taskVars
  <1> QED BY <1>1, <1>2, <1>3 DEF Next, Moves

-----------------------------------------------------------------------------
(* Types.                                                                  *)

(* The types of pictures and browsers.                                     *)
WorldTypes ==
  /\ source \in [Upload -> Picture]
  /\ place \in {"media", "avatars", "external"}
  /\ webp \in [by : Picture, mod : 0 .. MaxClock, again : BOOLEAN]
  /\ png \in [head : Picture, tail : Picture]
  /\ browser \in [at : {"idle", "copy"}, tag : 0 .. MaxClock, picture : Picture]
  /\ clock \in 1 .. MaxClock /\ crashes \in 0 .. MaxCrashes /\ hurt \in BOOLEAN

(* No encoder loses its input.                                             *)
InputsThere == \A u \in Upload : (\E e \in Encoder : enc[u][e] = "run") => u \in temp

(* A collector that has as many errors as there are encoders is not given  *)
(* another.                                                                *)
LEMMA TranscodeTypes ==
  ASSUME NEW u \in Upload, TaskTypes, TaskInv(u), Transcode(u)
  PROVE  TaskTypes'
  <1>0. /\ at \in [Upload -> Positions] /\ temp \subseteq Upload
        /\ enc \in [Upload -> [Encoder -> {"off", "run", "send", "done"}]]
        /\ err \in [Upload -> [Encoder -> Errors]]
        /\ errs \in [Upload -> CollectorTypes] /\ reason \in [Upload -> Errors]
    BY DEF TaskTypes
  <1>1. CASE StartEncoders(u)
    <2>1. errs' = errs \/ errs' = [errs EXCEPT ![u].at = "select"]
      BY <1>1 DEF StartEncoders
    <2>2. [errs[u] EXCEPT !.at = "select"] \in CollectorTypes
      BY <1>0 DEF CollectorTypes
    <2>3. errs' \in [Upload -> CollectorTypes]
      BY <1>0, <2>1, <2>2
    <2>4. at' \in [Upload -> Positions]
      BY <1>0, <1>1 DEF StartEncoders, Go, Positions
    <2>5. enc' = enc \/ enc' = [enc EXCEPT ![u] = [e \in Encoder |-> "run"]]
      BY <1>1 DEF StartEncoders
    <2>6. enc' \in [Upload -> [Encoder -> {"off", "run", "send", "done"}]]
      BY <1>0, <2>5
    <2> QED BY <1>0, <1>1, <2>3, <2>4, <2>6 DEF StartEncoders, TaskTypes
  <1>2. ASSUME NEW e \in Encoder, Encode(u, e) PROVE TaskTypes'
    <2>1. err' \in [Upload -> [Encoder -> Errors]]
      BY <1>0, <1>2 DEF Encode, RunCmd
    <2>2. enc' \in [Upload -> [Encoder -> {"off", "run", "send", "done"}]]
      BY <1>0, <1>2 DEF Encode
    <2> QED BY <1>0, <1>2, <2>1, <2>2 DEF Encode, TaskTypes
  <1>3. ASSUME NEW e \in Encoder, Collect(u, e) PROVE TaskTypes'
    <2>1. err[u][e] \in Errors
      BY <1>0
    <2>2. errs' \in [Upload -> CollectorTypes]
      BY <1>0, <1>3, <2>1 DEF Collect, CollectorTypes
    <2> QED BY <1>0, <1>3, <2>2 DEF Collect, TaskTypes
  <1>4. CASE CountError(u)
    <2>1. errs[u].n + 1 \in 0 .. Cardinality(Encoder)
      BY <1>0, <1>4, CollectedFinite DEF CountError, TaskInv, TaskSound
    <2>2. errs' \in [Upload -> CollectorTypes]
      BY <1>0, <1>4, <2>1 DEF CountError, CollectorTypes
    <2> QED BY <1>0, <1>4, <2>2 DEF CountError, TaskTypes
  <1>5. CASE NoteError(u)
    <2>1. "none" \in Errors /\ errs[u].hand \in Errors
      BY <1>0 DEF CollectorTypes, Errors
    <2>2. errs' \in [Upload -> CollectorTypes]
      BY <1>0, <1>5, <2>1 DEF NoteError, CollectorTypes
    <2> QED BY <1>0, <1>5, <2>2 DEF NoteError, TaskTypes
  <1>6. CASE CollectorEnds(u)
    <2>1. errs' \in [Upload -> CollectorTypes]
      BY <1>0, <1>6 DEF CollectorEnds, CollectorTypes
    <2> QED BY <1>0, <1>6, <2>1 DEF CollectorEnds, TaskTypes
  <1>7. CASE Wait(u)
    BY <1>7 DEF Wait, taskVars, TaskTypes, Go, Positions
  <1>8. CASE CheckErrors(u)
    <2>1. errs[u].final \in Errors
      BY <1>0 DEF CollectorTypes
    <2> QED BY <1>0, <1>8, <2>1 DEF CheckErrors, TaskTypes, Go, Positions
  <1> QED BY <1>1, <1>2, <1>3, <1>4, <1>5, <1>6, <1>7, <1>8 DEF Transcode

(* Outside its task an upload keeps the types of tasks.                    *)
LEMMA MovesTypes ==
  ASSUME NEW u \in Upload, TaskTypes, Moves(u)
  PROVE  TaskTypes'
  <1>1. UNCHANGED taskVars
    BY DEF Moves, UploadMedia, UploadAvatar, StoreUploadedImage, GetExternalAvatar, DownloadImage,
           Receive, Dispatch, ProcessImage, Decode, OpenOutput, EncodeWebP, HeadOfPng, TailOfPng,
           imageRest
  <1>2. CASE UploadMedia(u) \/ UploadAvatar(u) \/ GetExternalAvatar(u)
    BY <1>1, <1>2 DEF TaskTypes, Positions, CollectorTypes, UploadMedia, UploadAvatar, StoreUploadedImage, GetExternalAvatar,
                DownloadImage, Receive, Go, taskVars
  <1>3. CASE Dispatch(u)
    BY <1>1, <1>3 DEF TaskTypes, Positions, CollectorTypes, Dispatch, Go, taskVars
  <1>4. CASE ProcessImage(u)
    BY <1>1, <1>4 DEF TaskTypes, Positions, CollectorTypes, ProcessImage, Decode, OpenOutput, EncodeWebP, HeadOfPng,
                      TailOfPng, Go, taskVars, imageRest
  <1> QED BY <1>2, <1>3, <1>4 DEF Moves

(* Pictures and their dates keep their types.                              *)
LEMMA WorldStep ==
  ASSUME WorldTypes, [Next]_vars
  PROVE  WorldTypes'
  <1> USE UploadsAssumption DEF WorldTypes, Picture
  <1>1. ASSUME NEW u \in Upload, ProcessImage(u) PROVE WorldTypes'
    <2>1. CASE Decode(u)
      BY <2>1 DEF Decode, pictureVars, imageRest, worldVars
    <2>2. CASE OpenOutput(u)
      <3>1. hurt' \in BOOLEAN
        BY <2>2 DEF OpenOutput
      <3>2. webp' \in [by : Picture, mod : 0 .. MaxClock, again : BOOLEAN]
        BY <2>2 DEF OpenOutput
      <3> QED BY <2>2, <3>1, <3>2 DEF OpenOutput, imageRest, worldVars
    <2>3. CASE EncodeWebP(u)
      <3>1. hurt' \in BOOLEAN
        BY <2>3 DEF EncodeWebP
      <3>2. (webp.mod = clock) \in BOOLEAN
        OBVIOUS
      <3>3. [by |-> u, mod |-> clock, again |-> webp.mod = clock]
              \in [by : Picture, mod : 0 .. MaxClock, again : BOOLEAN]
        BY <3>2
      <3>4. webp' = webp \/ webp' = [by |-> u, mod |-> clock, again |-> webp.mod = clock]
        BY <2>3 DEF EncodeWebP
      <3> QED BY <2>3, <3>1, <3>3, <3>4 DEF EncodeWebP, imageRest, worldVars
    <2>4. CASE HeadOfPng(u)
      BY <2>4 DEF HeadOfPng, imageRest, worldVars
    <2>5. CASE TailOfPng(u)
      BY <2>5 DEF TailOfPng, imageRest, worldVars
    <2> QED BY <1>1, <2>1, <2>2, <2>3, <2>4, <2>5 DEF ProcessImage
  <1>2. CASE Crash
    <2>1. hurt' \in BOOLEAN
      BY <1>2 DEF Crash
    <2>2. browser' \in [at : {"idle", "copy"}, tag : 0 .. MaxClock, picture : Picture]
      <3> DEFINE n == IF browser.at = "copy" THEN 0 ELSE browser.tag
      <3>1. browser' = [browser EXCEPT !.at = "idle", !.tag = n]
        BY <1>2 DEF Crash
      <3>2. n \in 0 .. MaxClock
        OBVIOUS
      <3> HIDE DEF n
      <3> QED BY <3>1, <3>2
    <2>3. crashes' \in 0 .. MaxCrashes
      BY <1>2 DEF Crash
    <2> QED BY <1>2, <2>1, <2>2, <2>3 DEF Crash
  <1>3. CASE GetAvatar
    BY <1>3 DEF GetAvatar, Revalidate, CopyPicture, browserRest, pictureVars
  <1>4. CASE Tick
    BY <1>4 DEF Tick, pictureVars
  <1>5. ASSUME NEW u \in Upload, Transcode(u) PROVE WorldTypes'
    BY <1>5 DEF Transcode, StartEncoders, Encode, Collect, CountError, NoteError, CollectorEnds,
                Wait, CheckErrors, pictureVars, worldVars
  <1>6. ASSUME NEW u \in Upload,
               UploadMedia(u) \/ UploadAvatar(u) \/ GetExternalAvatar(u) \/ Dispatch(u)
        PROVE  WorldTypes'
    BY <1>6 DEF UploadMedia, UploadAvatar, StoreUploadedImage, GetExternalAvatar, DownloadImage,
                Receive, Dispatch, pictureVars, worldVars
  <1>7. CASE UNCHANGED vars
    BY <1>7 DEF vars, pictureVars, worldVars
  <1> QED BY <1>1, <1>2, <1>3, <1>4, <1>5, <1>6, <1>7 DEF Next

(* Every step keeps the types.                                             *)
LEMMA TypeStep == UploadsInv /\ [Next]_vars => TypeOK'
  <1> SUFFICES ASSUME UploadsInv, [Next]_vars PROVE TypeOK'
    OBVIOUS
  <1>0. TaskTypes /\ WorldTypes /\ \A u \in Upload : TaskInv(u)
    BY DEF UploadsInv, TypeOK, TaskTypes, Positions, CollectorTypes, WorldTypes, TaskInv, FailuresTold, Told
  <1>1. TaskTypes'
    <2>1. CASE Crash
      BY <1>0, <2>1, FS_CardinalityType, UploadsAssumption DEF Crash, TaskTypes, Positions, CollectorTypes, Quiet, Errors
    <2>2. CASE GetAvatar \/ Tick \/ UNCHANGED vars
      BY <1>0, <2>2 DEF GetAvatar, Revalidate, CopyPicture, browserRest, Tick, vars, taskVars,
                        TaskTypes, Positions, CollectorTypes
    <2> QED BY <1>0, <2>1, <2>2, TranscodeTypes, MovesTypes DEF Next, Moves
  <1>2. InputsThere'
    BY TaskStep DEF TaskInv, TaskSound, InputsThere
  <1> QED BY <1>0, <1>1, <1>2, WorldStep DEF TypeOK, TaskTypes, Positions, CollectorTypes, WorldTypes, InputsThere

-----------------------------------------------------------------------------
(* Pictures.                                                               *)

(* Where nobody begins to write, and files stay, what was said of pictures *)
(* is still true.                                                          *)
LEMMA PicturesStay ==
  ASSUME PictureSound, FormatsAgree, \A u \in Upload : Writing(u)' => at'[u] = at[u],
         (\E u \in Upload : Writing(u)) => hurt' \/ \E u \in Upload : Writing(u)',
         UNCHANGED <<webp, png, source>>, hurt => hurt'
  PROVE  (PictureSound /\ FormatsAgree)'
  BY DEF PictureSound, FormatsAgree, Writing

(* A writer that is alone finds its own picture at every step.             *)
LEMMA ProcessImageAgrees ==
  ASSUME TypeOK, PictureSound, FormatsAgree, NEW u \in Upload, ProcessImage(u)
  PROVE  (PictureSound /\ FormatsAgree)'
  <1>0. /\ at \in [Upload -> {"idle", "refused", "dispatch", "queued", "transcode", "waited",
                        "decode", "open", "encode", "png", "tail", "ok", "failed", "gone"}]
        /\ source \in [Upload -> Picture]
        /\ webp \in [by : Picture, mod : 0 .. MaxClock, again : BOOLEAN]
        /\ png \in [head : Picture, tail : Picture]
    BY DEF TypeOK
  <1>1. \A v \in Upload \ {u} : at'[v] = at[v]
    BY <1>0 DEF ProcessImage, Decode, OpenOutput, EncodeWebP, HeadOfPng, TailOfPng, Go
  <1>2. CASE Decode(u)
    <2>1. /\ ~Writing(u) /\ ~Writing(u)' /\ UNCHANGED pictureVars
      BY <1>0, <1>2 DEF Decode, Go, Writing
    <2> QED BY <1>1, <2>1, PicturesStay DEF pictureVars, Writing
  <1>3. CASE OpenOutput(u)
    <2>1. at'[u] = "encode" /\ hurt' = ~WritesAlone(u)
      BY <1>0, <1>3 DEF OpenOutput, Go
    <2> QED BY <1>1, <2>1 DEF PictureSound, FormatsAgree, Writing, WritesAlone
  <1>4. CASE EncodeWebP(u)
    <2>1. CASE hurt'
      BY <2>1 DEF PictureSound, FormatsAgree
    <2>2. CASE ~hurt'
      <3>1. at[u] = "encode" /\ at'[u] = "png" /\ webp'.by = u /\ hurt' = hurt
        BY <1>0, <1>4, <2>2 DEF EncodeWebP, Go
      <3> QED BY <1>1, <2>2, <3>1 DEF PictureSound, FormatsAgree, Writing
    <2> QED BY <2>1, <2>2
  <1>5. CASE HeadOfPng(u)
    <2>1. CASE hurt'
      BY <2>1 DEF PictureSound, FormatsAgree
    <2>2. CASE ~hurt'
      <3>1. /\ at[u] = "png" /\ at'[u] = "tail" /\ webp' = webp /\ hurt' = hurt
            /\ png'.head = webp.by /\ source'[u] = webp.by
        BY <1>0, <1>5, <2>2 DEF HeadOfPng, Go
      <3> QED BY <1>1, <2>2, <3>1 DEF PictureSound, FormatsAgree, Writing
    <2> QED BY <2>1, <2>2
  <1>6. CASE TailOfPng(u)
    <2>1. /\ at[u] = "tail" /\ at'[u] = "ok" /\ webp' = webp /\ hurt' = hurt
          /\ png'.head = png.head /\ png'.tail = source[u]
      BY <1>0, <1>6 DEF TailOfPng, Go
    <2> QED BY <1>1, <2>1, UploadsAssumption DEF PictureSound, FormatsAgree, Writing
  <1> QED BY <1>2, <1>3, <1>4, <1>5, <1>6 DEF ProcessImage

(* Every step keeps the pictures in agreement.                             *)
LEMMA PictureStep ==
  ASSUME UploadsInv, [Next]_vars
  PROVE  (PictureSound /\ FormatsAgree)'
  <1>0. TypeOK /\ PictureSound /\ FormatsAgree
    BY DEF UploadsInv
  <1>1. ASSUME NEW u \in Upload, ProcessImage(u) PROVE (PictureSound /\ FormatsAgree)'
    BY <1>0, <1>1, ProcessImageAgrees
  <1>2. CASE Crash
    BY <1>0, <1>2, PicturesStay DEF Crash, Writing
  <1>3. ASSUME NEW u \in Upload,
               \/ UploadMedia(u) \/ UploadAvatar(u) \/ GetExternalAvatar(u)
               \/ Dispatch(u) \/ Transcode(u)
        PROVE  (PictureSound /\ FormatsAgree)'
    <2>1. UNCHANGED pictureVars
      BY <1>3 DEF UploadMedia, UploadAvatar, StoreUploadedImage, GetExternalAvatar, DownloadImage,
             Receive, Dispatch, Transcode, StartEncoders, Encode, Collect, CountError, NoteError,
             CollectorEnds, Wait, CheckErrors
    <2>2. \A v \in Upload : (Writing(v) <=> Writing(v)') /\ (Writing(v) => at'[v] = at[v])
      <3>1. at' = at \/ \E pos : Go(u, pos) /\ ~Writing(u) /\ pos \notin {"encode", "png", "tail"}
        BY <1>3 DEF UploadMedia, UploadAvatar, StoreUploadedImage, GetExternalAvatar,
             DownloadImage, Receive, Dispatch, Transcode, StartEncoders, Encode, Collect,
             CountError, NoteError, CollectorEnds, Wait, CheckErrors, Writing
      <3> QED BY <1>0, <3>1 DEF Go, Writing, TypeOK
    <2> QED BY <1>0, <2>1, <2>2, PicturesStay DEF pictureVars, Writing
  <1>4. CASE GetAvatar \/ Tick \/ UNCHANGED vars
    <2>1. UNCHANGED <<at, pictureVars>>
      BY <1>4 DEF GetAvatar, Revalidate, CopyPicture, browserRest, Tick, vars
    <2> QED BY <1>0, <2>1, PicturesStay DEF pictureVars, Writing
  <1> QED BY <1>1, <1>2, <1>3, <1>4 DEF Next

-----------------------------------------------------------------------------
(* Dates.                                                                  *)

(* A new date is one no browser has, or marks the file as written again.   *)
LEMMA DateStep ==
  ASSUME UploadsInv, [Next]_vars
  PROVE  (DateSound /\ FreshUnlessTwice)'
  <1> DEFINE Dates == DateSound /\ FreshUnlessTwice
  <1>0. WorldTypes /\ Dates
    BY DEF UploadsInv, TypeOK, WorldTypes
  <1> USE DEF DateSound, FreshUnlessTwice
  <1>1. ASSUME NEW u \in Upload, OpenOutput(u) \/ EncodeWebP(u) PROVE Dates'
    <2>1. /\ webp.mod \in Nat /\ clock \in Nat \ {0} /\ browser.tag \in Nat
          /\ browser' = browser /\ clock' = clock
      BY <1>0, <1>1, UploadsAssumption
         DEF WorldTypes, OpenOutput, EncodeWebP, imageRest, worldVars
    <2>2. CASE webp' = webp
      BY <1>0, <2>1, <2>2
    <2>3. CASE webp' = [by |-> Empty, mod |-> clock, again |-> FALSE] /\ webp.by = NoFile
      BY <1>0, <2>1, <2>3, UploadsAssumption
    <2>4. CASE webp' = [by |-> u, mod |-> clock, again |-> webp.mod = clock]
      <3>1. webp'.mod = clock /\ webp'.by = u
        BY <2>4
      <3>2. webp.mod = clock => webp'.again
        BY <2>4, Zenon
      <3> QED BY <1>0, <2>1, <3>1, <3>2, UploadsAssumption
    <2> QED BY <1>1, <2>2, <2>3, <2>4 DEF OpenOutput, EncodeWebP
  <1>2. CASE GetAvatar
    <2>1. /\ webp' = webp /\ clock' = clock
          /\ \/ browser' = [browser EXCEPT !.at = "copy", !.tag = webp.mod]
             \/ browser' = [browser EXCEPT !.at = "idle", !.picture = webp.by]
      BY <1>2 DEF GetAvatar, Revalidate, CopyPicture, browserRest, pictureVars
    <2>2. webp.mod \in Nat /\ clock \in Nat /\ browser.tag \in Nat
      BY <1>0 DEF WorldTypes
    <2>3. \/ browser'.at = "copy" /\ browser'.tag = webp.mod
          \/ browser'.picture = webp.by /\ browser'.tag = browser.tag
      BY <1>0, <2>1 DEF WorldTypes
    <2> QED BY <1>0, <2>1, <2>2, <2>3
  <1>3. CASE Crash
    <2>1. /\ webp' = webp /\ clock' = clock
          /\ browser' = [browser EXCEPT !.at = "idle", !.tag = IF browser.at = "copy" THEN 0 ELSE @]
      BY <1>3 DEF Crash
    <2> QED BY <1>0, <2>1 DEF WorldTypes
  <1>4. CASE Tick
    BY <1>0, <1>4 DEF Tick, pictureVars, WorldTypes
  <1>5. ASSUME NEW u \in Upload,
               \/ UploadMedia(u) \/ UploadAvatar(u) \/ GetExternalAvatar(u) \/ Dispatch(u)
               \/ Transcode(u) \/ Decode(u) \/ HeadOfPng(u) \/ TailOfPng(u)
        PROVE  Dates'
    <2>1. UNCHANGED <<webp, browser, clock>>
      BY <1>5 DEF UploadMedia, UploadAvatar, StoreUploadedImage, GetExternalAvatar, DownloadImage,
             Receive, Dispatch, Transcode, StartEncoders, Encode, Collect, CountError, NoteError,
             CollectorEnds, Wait, CheckErrors, Decode, HeadOfPng, TailOfPng, pictureVars,
             imageRest, worldVars
    <2> QED BY <1>0, <2>1
  <1>6. CASE UNCHANGED vars
    BY <1>0, <1>6 DEF vars, pictureVars, worldVars
  <1> QED BY <1>1, <1>2, <1>3, <1>4, <1>5, <1>6 DEF Next, ProcessImage

-----------------------------------------------------------------------------
(* The theorems.                                                           *)

(* Before the first upload there is no file and no task.                   *)
LEMMA UploadsInvInit == Init => UploadsInv
  <1> SUFFICES ASSUME Init PROVE UploadsInv
    OBVIOUS
  <1> USE UploadsAssumption, FS_EmptySet, FS_CardinalityType DEF Init, Quiet
  <1>1. TypeOK
    <2>1. TaskTypes
      <3>1. 0 \in 0 .. Cardinality(Encoder)
        OBVIOUS
      <3>2. errs \in [Upload -> CollectorTypes]
        BY <3>1 DEF CollectorTypes, Errors
      <3> QED BY <3>2 DEF TaskTypes, Positions, Errors
    <2>2. WorldTypes
      <3>1. 0 \in 0 .. MaxClock /\ 1 \in 1 .. MaxClock /\ 0 \in 0 .. MaxCrashes
        OBVIOUS
      <3>2. /\ source \in [Upload -> Picture] /\ png \in [head : Picture, tail : Picture]
            /\ webp \in [by : Picture, mod : 0 .. MaxClock, again : BOOLEAN]
        BY <3>1 DEF Picture
      <3>3. browser \in [at : {"idle", "copy"}, tag : 0 .. MaxClock, picture : Picture]
        BY <3>1 DEF Picture
      <3> QED BY <3>1, <3>2, <3>3 DEF WorldTypes
    <2> QED BY <2>1, <2>2 DEF TypeOK, TaskTypes, WorldTypes, Positions, CollectorTypes
  <1>2. ASSUME NEW u \in Upload PROVE TaskSound(u)
    <2>1. Collected(u) = {}
      BY DEF Collected
    <2> QED BY <2>1 DEF TaskSound
  <1>3. FailuresTold /\ PictureSound /\ FormatsAgree
    BY DEF FailuresTold, PictureSound, FormatsAgree, Writing
  <1>4. DateSound /\ FreshUnlessTwice
    BY DEF DateSound, FreshUnlessTwice
  <1> QED BY <1>1, <1>2, <1>3, <1>4 DEF UploadsInv

(* The inductive invariant: collectors count what they took over, a writer *)
(* that is alone writes its own, and dates only grow.                      *)
THEOREM UploadsCorrect == Spec => []UploadsInv
  <1>1. UploadsInv /\ [Next]_vars => UploadsInv'
    <2> SUFFICES ASSUME UploadsInv, [Next]_vars PROVE UploadsInv'
      OBVIOUS
    <2>1. \A u \in Upload : TaskInv(u)'
      BY TaskStep
    <2>2. (\A u \in Upload : TaskSound(u))' /\ FailuresTold'
      BY <2>1 DEF TaskInv, Told, FailuresTold
    <2> QED BY <2>2, TypeStep, PictureStep, DateStep DEF UploadsInv
  <1> QED BY UploadsInvInit, <1>1, PTL DEF Spec

(* Counters of errors stay within the number of encoders, and no encoder   *)
(* runs without its input.                                                 *)
THEOREM UploadsTyped == Spec => []TypeOK
  <1>1. UploadsInv => TypeOK
    BY DEF UploadsInv
  <1> QED BY UploadsCorrect, <1>1, PTL

(* A task misses one failure at most, and a task that fails blames an      *)
(* error that one of its encoders had.                                     *)
THEOREM FailuresAreTold == Spec => []FailuresTold
  <1>1. UploadsInv => FailuresTold
    BY DEF UploadsInv
  <1> QED BY UploadsCorrect, <1>1, PTL

(* The two formats of an avatar agree once nobody writes it, unless the    *)
(* last writing met another or was cut off.                                *)
THEOREM FormatsDoAgree == Spec => []FormatsAgree
  <1>1. UploadsInv => FormatsAgree
    BY DEF UploadsInv
  <1> QED BY UploadsCorrect, <1>1, PTL

(* A browser that is told that nothing has changed shows what is there,    *)
(* unless the file was written twice in a second.                          *)
THEOREM AvatarsFresh == Spec => []FreshUnlessTwice
  <1>1. UploadsInv => FreshUnlessTwice
    BY DEF UploadsInv
  <1> QED BY UploadsCorrect, <1>1, PTL
=============================================================================
