------------------------------- MODULE Upload -------------------------------
(***************************************************************************)
(* One upload in detail: sendFile of a client or of a drainer, the PATCH   *)
(* and HEAD handlers of the storage server, and the two files they leave   *)
(* on the disk, <fid>.fid and <fid>.info.  Module Efes has all of it as    *)
(* PatchCheck, PatchSave and Abandon: see SavesAsInEfes.                   *)
(*                                                                         *)
(* The file is a row of Size units.  What is written at an index is always *)
(* the unit of that index, so the contents of the .fid file are the set of *)
(* indexes that hold their unit; the others are beyond its end, or zeros.  *)
(* A digest runs along with the writes and is never computed from the      *)
(* disk.  When the disk gets full io.Copy stops in the middle of a buffer  *)
(* that MultiWriter has not given to the digests: the offset counts units  *)
(* that the digest has not seen, and the digest is wrong from then on.     *)
(***************************************************************************)
EXTENDS Naturals

CONSTANTS
    Size,           \* length of the file
    ChunkSize,      \* Client.ChunkSize
    Requests,       \* bound: PATCH requests that are handled at a time
    Overlap,        \* may the client go on before the server has noticed that
                    \* it gave up a request?
    MaxCrashes,     \* bound: crashes of the server
    MaxTimeouts,    \* bound: requests that the client gives up
    MaxFaults       \* bound: requests that meet a full or a failing disk

ASSUME UploadAssumption ==
    /\ Size \in Nat /\ ChunkSize \in Nat \ {0}
    /\ {MaxCrashes, MaxTimeouts, MaxFaults} \subseteq Nat
    /\ Overlap \in BOOLEAN

VARIABLES
    exists,     \* is there a .fid file?
    data,       \* the indexes of it that hold their unit
    fresh,      \* has it been written since sendFile began?  Its mtime tells
    info,       \* the offset in the .info file, NoInfo, or TornInfo
    summed,     \* is the digest saved with it that of the units below it?
    torn,       \* has createFile emptied the .fid file, and has the offset of
                \* an earlier drain been left in the .info file?
    handler,    \* the PATCH handlers
    seekable,   \* a file of known size, or a stream (WriteReader)?
    drains,     \* does sendFile run for a drainer?
    client,     \* where sendFile is
    request,    \* the request whose answer the client waits for
    position,   \* Sha1File.position: what the client has read of its file
    chunk,      \* offset of the chunk the client is sending
    crashes, timeouts, faults

vars == <<exists, data, fresh, info, summed, torn, handler, seekable, drains, client,
          request, position, chunk, crashes, timeouts, faults>>

Disk == <<exists, data, fresh, info, summed, torn>>

\* What the process that calls sendFile brings along.
Sender == <<seekable, drains>>

Units == 0..(Size - 1)
Below(offset) == {i \in Units : i < offset}

\* The .info file is absent, or it was created and not written yet.
NoInfo == Size + 1
TornInfo == Size + 2

\* "checked": ServeHTTP has found the tempfile row, or need not look for it in a
\* drain.  From there to "saving" are the steps of saveFile; "answered" holds
\* the result.
HandlerSteps ==
    {"none", "begin", "checked", "created", "resetting", "ready", "written", "saving",
     "answered"}

Results == {"ok", "sum", "wrongsum", "error", "refused"}

\* The body holds the units [offset, offset + body); n of them are written.
Handlers ==
    [at : HandlerSteps, offset : 0..Size, body : 0..Size, whole : BOOLEAN,
     last : BOOLEAN, end : 0..Size, summed : BOOLEAN, result : Results]

NoHandler ==
    [at |-> "none", offset |-> 0, body |-> 0, whole |-> TRUE, last |-> FALSE,
     end |-> 0, summed |-> TRUE, result |-> "ok"]

UploadTypeOK ==
    /\ exists \in BOOLEAN /\ data \subseteq Units /\ fresh \in BOOLEAN
    /\ info \in 0..(Size + 2) /\ summed \in BOOLEAN /\ torn \in BOOLEAN
    /\ handler \in [Requests -> Handlers]
    /\ seekable \in BOOLEAN /\ drains \in BOOLEAN /\ (drains => seekable)
    /\ client \in {"send", "waiting", "finishing", "head", "done", "failed"}
    /\ request \in Requests
    /\ position \in 0..Size /\ chunk \in 0..Size
    /\ crashes \in 0..MaxCrashes /\ timeouts \in 0..MaxTimeouts
    /\ faults \in 0..MaxFaults

\* An interrupted drain leaves a prefix of the file, and an offset that may be
\* behind it, or no .info file.  If the one before had been interrupted too, it
\* may have emptied the file in createFile, and a later request may have gone
\* on from the old offset: the file begins with a hole.  Requests that overlap
\* leave any units.  The disk cleaner may have removed one of the two files.
LeftByDrain ==
    /\ info \in {NoInfo, TornInfo} \cup {i \in 0..Size : i # Size}
    /\ \/ exists = FALSE /\ data = {} /\ torn = FALSE
       \/ \E offset \in 0..Size : \E hole \in 0..offset :
            /\ exists = TRUE /\ data = Below(offset) \ Below(hole)
            /\ info <= Size => info \in hole..offset
            /\ torn = (hole > 0)
       \/ /\ Overlap /\ exists = TRUE /\ data \in SUBSET Units
          /\ torn = (info <= Size /\ ~(Below(info) \subseteq data))
    /\ summed \in BOOLEAN

Init ==
    /\ \/ /\ exists = FALSE /\ data = {} /\ info = NoInfo /\ summed = TRUE
          /\ torn = FALSE
          /\ drains = FALSE /\ seekable \in BOOLEAN
       \/ LeftByDrain /\ drains = TRUE /\ seekable = TRUE
    /\ fresh = FALSE
    /\ handler = [r \in Requests |-> NoHandler]
    /\ client = "send" /\ request \in Requests
    /\ position = 0 /\ chunk = 0
    /\ crashes = 0 /\ timeouts = 0 /\ faults = 0

-----------------------------------------------------------------------------
(* The client. *)

Idle == \A r \in Requests : handler[r].at = "none"

ClientVars == <<Sender, client, request, position, chunk, timeouts>>
Bounds == <<crashes, faults>>

\* Variant: the end of the file does not end the chunk.
ChunkEndUnbounded == chunk + ChunkSize

ChunkEnd == IF chunk + ChunkSize < Size THEN chunk + ChunkSize ELSE Size

\* patch: the request carries the chunk, or breaks off after a part of it.  The
\* length is in the request when the size is known, or by finishFile.
Send(r) ==
    /\ client = "send" /\ handler[r].at = "none"
    /\ \E read \in chunk..ChunkEnd :
         /\ position' = read
         /\ handler' = [handler EXCEPT ![r] =
              [NoHandler EXCEPT !.at = "begin", !.offset = chunk,
                                !.body = read - chunk,
                                !.whole = (read = ChunkEnd),
                                !.last = seekable]]
    /\ client' = "waiting" /\ request' = r
    /\ UNCHANGED <<Disk, Sender, chunk, crashes, timeouts, faults>>

\* finishFile: an empty request that tells the length of the stream.
SendFinish(r) ==
    /\ client = "finishing" /\ handler[r].at = "none"
    /\ handler' = [handler EXCEPT ![r] =
         [NoHandler EXCEPT !.at = "begin", !.offset = chunk, !.last = TRUE]]
    /\ client' = "waiting" /\ request' = r
    /\ UNCHANGED <<Disk, Sender, position, chunk, crashes,
                   timeouts, faults>>

\* The request does not arrive: no connection, or it breaks before the header.
SendLost ==
    /\ client \in {"send", "finishing"} /\ timeouts < MaxTimeouts
    /\ position' \in chunk..ChunkEnd
    /\ client' = "head" /\ timeouts' = timeouts + 1
    /\ UNCHANGED <<Disk, handler, Sender, request, chunk,
                   crashes, faults>>

\* The answer does not come in time, or does not come at all.
GiveUp ==
    /\ client = "waiting" /\ timeouts < MaxTimeouts
    /\ client' = "head" /\ timeouts' = timeouts + 1
    /\ UNCHANGED <<Disk, handler, Sender, request, position,
                   chunk, crashes, faults>>

\* The connection of the request has broken: it was not whole, or the server died.
Broken ==
    /\ client = "waiting"
    /\ handler[request].at = "none" \/ ~handler[request].whole
    /\ client' = "head"
    /\ UNCHANGED <<Disk, handler, Sender, request, position,
                   chunk, crashes, timeouts, faults>>

\* Variant: an answer without a digest is not compared.
AfterAnswerUnchecked(h) ==
    IF h.result = "refused" THEN client' = "failed" /\ UNCHANGED chunk
    ELSE IF h.last /\ position = Size
      THEN /\ client' = IF h.result = "wrongsum" THEN "failed" ELSE "done"
           /\ UNCHANGED chunk
      ELSE /\ client' = IF position = chunk THEN "finishing" ELSE "send"
           /\ chunk' = position

\* The loop of send after an answer without an error, and the comparison of the
\* digests in sendFile: without the digest of the server it fails for good,
\* and so it does after a 404.
AfterAnswer(h) ==
    IF h.result = "refused" THEN client' = "failed" /\ UNCHANGED chunk
    ELSE IF h.last /\ position = Size
      THEN /\ client' = IF h.result = "sum" THEN "done" ELSE "failed"
           /\ UNCHANGED chunk
      ELSE /\ client' = IF position = chunk THEN "finishing" ELSE "send"
           /\ chunk' = position

Answer(r) ==
    LET h == handler[r] IN
    /\ h.at = "answered"
    /\ handler' = [handler EXCEPT ![r] = NoHandler]
    /\ IF client = "waiting" /\ request = r /\ h.whole
         THEN IF h.result = "error" THEN client' = "head" /\ UNCHANGED chunk
                                    ELSE AfterAnswer(h)
         ELSE UNCHANGED <<client, chunk>>
    /\ UNCHANGED <<Disk, Sender, request, position, crashes,
                   timeouts, faults>>

\* Variant: a missing .info file is an error.
ReadOffsetStrict == IF info = NoInfo THEN TornInfo ELSE info

\* ReadFileInfo; TornInfo stands for its error.
ReadOffset == IF info = NoInfo THEN 0 ELSE info

\* Sha1File.Seek over the file, or over readNoSeeker.
SeekAllowed(offset) == IF seekable THEN offset <= position ELSE offset = position

\* getOffset and Seek.  When either fails the next attempt is another HEAD.
Head ==
    /\ client = "head" /\ (Overlap \/ Idle)
    /\ ReadOffset # TornInfo /\ SeekAllowed(ReadOffset)
    /\ position' = ReadOffset /\ chunk' = ReadOffset
    /\ client' = "send"
    /\ UNCHANGED <<Disk, handler, Sender, request, crashes,
                   timeouts, faults>>

\* backoff.Retry gives up.
Abandon ==
    /\ client = "head"
    /\ client' = "failed"
    /\ UNCHANGED <<Disk, handler, Sender, request, position,
                   chunk, crashes, timeouts, faults>>

-----------------------------------------------------------------------------
(* saveFile, step by step as another handler or a crash can get in between. *)

Step(r, from, to) ==
    /\ handler[r].at = from
    /\ handler' = [handler EXCEPT ![r].at = to]
    /\ UNCHANGED <<ClientVars, Bounds>>

Reply(r, from, result) ==
    /\ handler[r].at = from
    /\ handler' = [handler EXCEPT ![r].at = "answered", ![r].result = result]
    /\ UNCHANGED <<ClientVars, Bounds>>

\* ServeHTTP: the tempfile row is gone, and the answer is 404.
Refuse(r) ==
    /\ ~drains
    /\ Reply(r, "begin", "refused")
    /\ UNCHANGED Disk

Check(r) ==
    /\ Step(r, "begin", "checked")
    /\ UNCHANGED Disk

\* Variant: the file is created before the tempfile row is looked for.
CreateUnchecked(r) ==
    /\ handler[r].offset = 0
    /\ Step(r, "begin", "created")
    /\ exists' = TRUE /\ data' = {} /\ fresh' = TRUE /\ torn' = (info \in 1..Size)
    /\ UNCHANGED <<info, summed>>

\* createFile truncates the .fid file.
Create(r) ==
    /\ handler[r].offset = 0
    /\ Step(r, "checked", "created")
    /\ exists' = TRUE /\ data' = {} /\ fresh' = TRUE /\ torn' = (info \in 1..Size)
    /\ UNCHANGED <<info, summed>>

\* createFile: os.Create of the .info file, then its contents.
ResetInfo(r) ==
    /\ Step(r, "created", "resetting")
    /\ info' = TornInfo /\ torn' = FALSE
    /\ UNCHANGED <<exists, data, fresh, summed>>

InfoReset(r) ==
    /\ Step(r, "resetting", "ready")
    /\ info' = 0 /\ summed' = TRUE
    /\ UNCHANGED <<exists, data, fresh, torn>>

ReadInfo(r) ==
    /\ handler[r].offset > 0
    /\ IF ReadOffset = handler[r].offset
         THEN /\ handler[r].at = "checked"
              /\ handler' = [handler EXCEPT ![r].at = "ready",
                                           ![r].summed = summed]
              /\ UNCHANGED <<ClientVars, Bounds>>
         ELSE Reply(r, "checked", "error")
    /\ UNCHANGED Disk

\* The .fid file is gone.
OpenFails(r) ==
    /\ ~exists
    /\ Reply(r, "ready", "error")
    /\ info' = NoInfo
    /\ UNCHANGED <<exists, data, fresh, summed, torn>>

Gone(r) == ~handler[r].whole \/ client # "waiting" \/ request # r

\* The units that n units of the body of request r cover.
Covered(r, n) ==
    {i \in Units : handler[r].offset <= i /\ i < handler[r].offset + n}

Written(r, n) == data' = data \cup Covered(r, n) /\ fresh' = (fresh \/ n > 0)

\* n units have been written, and whether the digest has seen them.
Copied(r, n, seen) ==
    handler' = [handler EXCEPT ![r].at = "written",
                               ![r].end = handler[r].offset + n,
                               ![r].summed = @ /\ seen]

\* io.Copy and Sync.  The error of io.Copy is ignored; the whole body arrives
\* unless the client has gone.
Copy(r) ==
    /\ handler[r].at = "ready" /\ exists
    /\ \E n \in 0..handler[r].body :
         /\ Gone(r) \/ n = handler[r].body
         /\ Written(r, n) /\ Copied(r, n, TRUE)
    /\ UNCHANGED <<exists, info, summed, torn, ClientVars, Bounds>>

\* The disk is full in the middle of the body, and maybe of a buffer: what was
\* written counts, and no error is reported.
CopyToFullDisk(r) ==
    /\ handler[r].at = "ready" /\ exists
    /\ faults < MaxFaults /\ faults' = faults + 1
    /\ \E n \in 0..handler[r].body, seen \in BOOLEAN :
         /\ n < handler[r].body /\ (n = 0 => seen)
         /\ Written(r, n) /\ Copied(r, n, seen)
    /\ UNCHANGED <<exists, info, summed, torn, ClientVars, crashes>>

\* Any other call fails and is reported: to create, open or sync the file, or
\* to write the .info file, which is then as it was left.
DiskFails(r) ==
    /\ handler[r].at \in HandlerSteps \ {"none", "answered"}
    /\ faults < MaxFaults /\ faults' = faults + 1
    /\ handler' = [handler EXCEPT ![r].at = "answered", ![r].result = "error"]
    /\ UNCHANGED <<Disk, ClientVars, crashes>>

\* The length is known and reached: DeleteFileInfo, and the digest goes back.
Finish(r) ==
    LET h == handler[r] IN
    /\ h.last /\ h.end = Size
    /\ Reply(r, "written", IF info = NoInfo THEN "error"
                           ELSE IF h.summed THEN "sum" ELSE "wrongsum")
    /\ info' = NoInfo
    /\ UNCHANGED <<exists, data, fresh, summed, torn>>

\* SaveFileInfo: os.Create, then the contents.
SaveInfo(r) ==
    LET h == handler[r] IN
    /\ ~(h.last /\ h.end = Size)
    /\ Step(r, "written", "saving")
    /\ info' = TornInfo
    /\ UNCHANGED <<exists, data, fresh, summed, torn>>

\* Variant: the offset that the client announced is saved.
InfoSavedTooFar(r) ==
    /\ Reply(r, "saving", "ok")
    /\ info' = handler[r].offset + handler[r].body
    /\ UNCHANGED <<exists, data, fresh, summed, torn>>

InfoSaved(r) ==
    /\ Reply(r, "saving", "ok")
    /\ info' = handler[r].end /\ summed' = handler[r].summed
    /\ UNCHANGED <<exists, data, fresh, torn>>

\* The server is killed and starts again; what it has written stays.
Crash ==
    /\ crashes < MaxCrashes /\ ~Idle
    /\ handler' = [r \in Requests |-> NoHandler]
    /\ crashes' = crashes + 1
    /\ UNCHANGED <<Disk, ClientVars, faults>>

HandlerNext(r) ==
    \/ Check(r) \/ Create(r) \/ ResetInfo(r) \/ InfoReset(r) \/ ReadInfo(r) \/ OpenFails(r)
    \/ Refuse(r) \/ DiskFails(r) \/ CopyToFullDisk(r)
    \/ Copy(r) \/ Finish(r) \/ SaveInfo(r) \/ InfoSaved(r) \/ Answer(r)

ClientNext == Broken \/ Head \/ \E r \in Requests : Send(r) \/ SendFinish(r)

Next ==
    \/ ClientNext \/ SendLost \/ GiveUp \/ Abandon \/ Crash
    \/ \E r \in Requests : HandlerNext(r)

Spec == Init /\ [][Next]_vars

\* Handlers and the client go on; nobody has to give up.  A chunk that is sent
\* again and again is sent whole in the end.
Fairness ==
    /\ \A r \in Requests : WF_vars(HandlerNext(r))
    /\ WF_vars(ClientNext)
    /\ \A r \in Requests : SF_vars(Send(r) /\ handler'[r].whole)

FairSpec == Spec /\ Fairness

-----------------------------------------------------------------------------
(* Properties. *)

\* sendFile accepts an upload when "local sha1" and "remote sha1" agree
\* (write.go:112-115): what it accepts is on the disk, unit by unit, and stays.
\* The exception is a drain over the leftovers of an earlier one, when createFile
\* has emptied the file and has not come to the .info file
\* (filereceiver.go:160-164): the old offset is believed, and the old digest.
Intact == client = "done" => (exists /\ data = Units) \/ (drains /\ torn)

\* The offset in the .info file never promises more than the .fid file holds,
\* whatever crashes, lost answers and repeated requests have come before: it is
\* the place where the next request goes on (filereceiver.go:182-188).  The one
\* time that it does is that same moment in createFile, and what comes of it.
InfoHonest == info <= Size /\ exists /\ ~torn => Below(info) \subseteq data

\* The offset of the server is one that the client cannot seek to: a stream is
\* elsewhere, or an earlier drain has come further than this one has read.
OutOfReach ==
    IF seekable THEN info \in (position + 1)..Size ELSE info # position

\* An upload ends once no more requests get lost, even if all that was lost is
\* the answer to the last one; unless the client cannot seek to where the
\* server is, or a crash has torn the .info file (write.go:80-108).
Completes ==
    \/ <>(client \in {"done", "failed"})
    \/ <>[](info = TornInfo)
    \/ <>[]OutOfReach

\* A handler past the check of the tempfile row, until it is certain that its
\* answer will not end the upload.
Saving(r) ==
    \/ handler[r].at \in HandlerSteps \ {"none", "begin", "answered"}
    \/ /\ handler[r].at = "answered" /\ handler[r].result = "sum"
       /\ client = "waiting" /\ request = r

\* What module Efes sees of an upload.
CopyOnDisk == IF ~exists THEN "absent"
              ELSE IF data = Units THEN "full" ELSE "partial"

UploadStep == IF client = "failed" THEN "none"
              ELSE IF client = "done" THEN "sent"
              ELSE IF \E r \in Requests : Saving(r) THEN "checked" ELSE "sending"

ThisCopy == <<1, "device">>

AgedCopies == IF exists /\ ~fresh THEN {ThisCopy} ELSE {}

\* The copy, when sendFile has returned and a handler is left at one of the steps.
LeftAt(steps) ==
    IF client \in {"failed", "done"} /\ \E r \in Requests : handler[r].at \in steps
      THEN {ThisCopy} ELSE {}

StrayUpload == LeftAt(HandlerSteps \ {"none", "begin", "answered"})

System == INSTANCE Efes
    WITH Devices <- {"device"}, Keys <- {}, MaxFid <- 1, Legacy <- 0,
         Drainable <- {}, Dest <- {}, Timely <- FALSE, ResetOnStart <- FALSE,
         TornCreate <- FALSE, MaxEvents <- 0,
         tempfile <- {ThisCopy}, file <- {}, fileOn <- {}, draining <- {},
         nextFid <- 2,
         disk <- [p \in {ThisCopy} |-> CopyOnDisk], aged <- AgedCopies,
         opening <- {}, upload <- [p \in {ThisCopy} |-> UploadStep],
         stray <- StrayUpload,
         pending <- {}, queue <- {}, visit <- [p \in {ThisCopy} |-> "none"],
         drainer <- {}, events <- 0

\* All that a client's upload does to the copy and for the client are steps that
\* module Efes knows of it: nothing is written before the check, nobody is told
\* that all is well of a copy that is not complete, and what a handler writes
\* when the client has failed, or has gone on without it, are the writes of a
\* handler that was left behind (filereceiver.go:74-84, write.go:97-116).
SavesAsInEfes ==
    [][~drains => \/ System!PatchCheck(ThisCopy) \/ System!PatchSave(ThisCopy)
                  \/ System!Abandon(ThisCopy)
                  \/ System!LateCheck(ThisCopy) \/ System!LateSave(ThisCopy)
      ]_<<CopyOnDisk, AgedCopies, UploadStep, StrayUpload>>

\* The same when moveFile has called sendFile for a file of device "source".
DrainerState ==
    IF client = "failed"
      THEN [at |-> "loop", todo |-> {}, fid |-> 0, dest |-> "source"]
      ELSE [at |-> IF client = "done" THEN "sent"
                   ELSE IF fresh THEN "sending" ELSE "opened",
            todo |-> {}, fid |-> 1, dest |-> "device"]

\* No row is looked for: every handler that is left may write.
StrayDrain == LeftAt(HandlerSteps \ {"none", "answered"})

SourceCopy == <<1, "source">>

Drain == INSTANCE Efes
    WITH Devices <- {"source", "device"}, Keys <- {"key"}, MaxFid <- 1, Legacy <- 0,
         Drainable <- {"source"}, Dest <- {}, Timely <- FALSE, ResetOnStart <- FALSE,
         TornCreate <- TRUE, MaxEvents <- 1,
         tempfile <- {}, file <- {<<1, "key">>}, fileOn <- {SourceCopy},
         draining <- {"source"}, nextFid <- 2,
         disk <- [p \in {SourceCopy, ThisCopy} |->
                    IF p = ThisCopy THEN CopyOnDisk ELSE "full"],
         aged <- AgedCopies,
         opening <- {}, upload <- [p \in {SourceCopy, ThisCopy} |-> "none"],
         stray <- StrayDrain,
         pending <- {}, queue <- {},
         visit <- [p \in {SourceCopy, ThisCopy} |-> "none"],
         drainer <- [d \in {"source"} |-> DrainerState], events <- 1

\* Whatever earlier drains have left, the target of a drain is touched before
\* moveFile goes on to the row, and by nothing that module Efes does not know of
\* a drain; and it is complete, unless createFile was interrupted between the two
\* files or requests overlap (drain.go:125, write.go:64-117).
DrainsAsInEfes ==
    [][drains => \/ Drain!DrainWrite("source") \/ Drain!DrainSent("source")
                 \/ Drain!DrainError("source") \/ Drain!LateSave(ThisCopy)
                 \/ (torn \/ Overlap) /\ Drain!DrainSentTorn("source")
      ]_<<CopyOnDisk, AgedCopies, DrainerState, StrayDrain>>
=============================================================================
