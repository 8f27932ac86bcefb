----------------------------- MODULE UploadProofs -----------------------------
(***************************************************************************)
(* For every size, every chunk size, any number of crashes, lost requests  *)
(* and full disks, and whatever earlier drains have left: what an upload   *)
(* does is what module Efes knows of it.  When its requests do not overlap *)
(* it is complete when the digests agree, and its .info file is honest,    *)
(* but for a drain and a createFile that was interrupted.                  *)
(***************************************************************************)
EXTENDS Upload, TLAPS

-----------------------------------------------------------------------------

LEMMA BelowAll == Below(Size) = Units /\ Below(0) = {}
BY UploadAssumption DEF Below, Units

\* The units that a write adds are those behind the offset.
LEMMA BelowGrows ==
  ASSUME NEW r \in Requests, NEW n \in Nat, handler[r].offset \in Nat
  PROVE  Below(handler[r].offset + n)
           = Below(handler[r].offset) \cup Covered(r, n)
BY UploadAssumption DEF Below, Units, Covered

LEMMA NoHandlerType == NoHandler \in Handlers
BY UploadAssumption DEF NoHandler, Handlers, HandlerSteps, Results

LEMMA ChunkEndType ==
  ASSUME UploadTypeOK
  PROVE  \A read \in chunk..ChunkEnd :
           /\ read \in 0..Size /\ read - chunk \in 0..Size
           /\ chunk + (read - chunk) <= Size
BY UploadAssumption DEF UploadTypeOK, ChunkEnd

-----------------------------------------------------------------------------
(* Types.  They hold also when requests overlap. *)

\* No request carries more than the file.
BodiesFit == \A r \in Requests : handler[r].offset + handler[r].body <= Size

TypeInv == UploadTypeOK /\ BodiesFit

\* What earlier drains have left, and what its .info file promises.
LEMMA Leftovers ==
  ASSUME LeftByDrain
  PROVE  /\ exists \in BOOLEAN /\ data \subseteq Units /\ summed \in BOOLEAN
         /\ torn \in BOOLEAN /\ info \in 0..(Size + 2) /\ info # Size
         /\ info <= Size /\ exists /\ ~torn => Below(info) \subseteq data
<1> USE UploadAssumption
<1>1. summed \in BOOLEAN /\ info \in 0..(Size + 2) /\ info # Size
  BY DEF LeftByDrain, NoInfo, TornInfo
<1>2. CASE exists = FALSE /\ data = {} /\ torn = FALSE
  BY <1>1, <1>2
<1>3. ASSUME NEW offset \in 0..Size, NEW hole \in 0..offset,
             exists = TRUE, data = Below(offset) \ Below(hole),
             info <= Size => info \in hole..offset, torn = (hole > 0)
      PROVE  /\ exists \in BOOLEAN /\ data \subseteq Units /\ torn \in BOOLEAN
             /\ info <= Size /\ exists /\ ~torn => Below(info) \subseteq data
  <2>1. data \subseteq Units
    BY <1>3 DEF Below
  <2>2. ASSUME info <= Size, ~torn PROVE Below(info) \subseteq data
    <3>1. ~(hole > 0)
      BY <1>3, <2>2, Zenon
    <3>2. info <= offset
      BY <1>1, <1>3, <2>2
    <3>3. Below(hole) = {} /\ Below(info) \subseteq Below(offset)
      BY <1>1, <3>1, <3>2 DEF Below, Units
    <3> QED
      BY <1>3, <3>3
  <2> QED
    BY <1>3, <2>1, <2>2
<1>4. CASE /\ exists = TRUE /\ data \in SUBSET Units
           /\ torn = (info <= Size /\ ~(Below(info) \subseteq data))
  BY <1>1, <1>4
<1> QED
  BY <1>1, <1>2, <1>3, <1>4 DEF LeftByDrain

LEMMA TypeInit == Init => TypeInv
<1> SUFFICES ASSUME Init PROVE TypeInv
  OBVIOUS
<1> USE UploadAssumption DEF Init
<1>1. /\ exists \in BOOLEAN /\ data \subseteq Units /\ info \in 0..(Size + 2)
      /\ summed \in BOOLEAN /\ torn \in BOOLEAN
      /\ seekable \in BOOLEAN /\ drains \in BOOLEAN /\ (drains => seekable)
  <2>1. CASE /\ exists = FALSE /\ data = {} /\ info = NoInfo /\ summed = TRUE
             /\ torn = FALSE /\ drains = FALSE /\ seekable \in BOOLEAN
    <3>1. info \in 0..(Size + 2) /\ data \subseteq Units
      BY <2>1 DEF NoInfo
    <3> QED
      BY <2>1, <3>1, Zenon
  <2>2. CASE LeftByDrain /\ drains = TRUE /\ seekable = TRUE
    BY <2>2, Leftovers
  <2> QED
    BY <2>1, <2>2
<1>2. fresh \in BOOLEAN /\ handler \in [Requests -> Handlers]
  BY NoHandlerType
<1>3. UploadTypeOK
  BY <1>1, <1>2 DEF UploadTypeOK
<1>4. BodiesFit
  BY DEF BodiesFit, NoHandler
<1> QED
  BY <1>3, <1>4 DEF TypeInv

\* A request begins, goes on or ends.
LEMMA HandlersType ==
  ASSUME TypeInv, NEW r \in Requests, NEW h \in Handlers, h.offset + h.body <= Size,
         handler' = [handler EXCEPT ![r] = h]
  PROVE  handler' \in [Requests -> Handlers] /\ BodiesFit'
BY DEF TypeInv, UploadTypeOK, BodiesFit

\* A step of handler r that leaves its request as it is.
LEMMA SameRequestType ==
  ASSUME TypeInv, NEW r \in Requests, NEW at \in HandlerSteps, NEW end \in 0..Size,
         NEW seen \in BOOLEAN, NEW result \in Results,
         handler' = [handler EXCEPT ![r].at = at, ![r].end = end,
                                    ![r].summed = seen, ![r].result = result],
         UNCHANGED ClientVars, crashes' = crashes,
         faults' = faults \/ (faults < MaxFaults /\ faults' = faults + 1),
         exists' \in BOOLEAN, data' \subseteq Units, fresh' \in BOOLEAN,
         info' \in 0..(Size + 2), summed' \in BOOLEAN, torn' \in BOOLEAN
  PROVE  TypeInv'
<1> DEFINE h == [handler[r] EXCEPT !.at = at, !.end = end, !.summed = seen,
                                   !.result = result]
<1>1. handler[r] \in Handlers /\ handler[r].offset + handler[r].body <= Size
  BY DEF TypeInv, UploadTypeOK, BodiesFit
<1>2. handler' = [handler EXCEPT ![r] = h]
  BY DEF TypeInv, UploadTypeOK
<1>3. h \in Handlers /\ h.offset + h.body <= Size
  BY <1>1 DEF Handlers
<1> HIDE DEF h
<1>4. handler' \in [Requests -> Handlers] /\ BodiesFit'
  BY <1>2, <1>3, HandlersType
<1>5. faults' \in 0..MaxFaults
  BY UploadAssumption DEF TypeInv, UploadTypeOK
<1> QED
  BY <1>4, <1>5 DEF TypeInv, UploadTypeOK, ClientVars, Sender

\* The steps of a handler but Answer, in that form.
LEMMA HandlerNextShape ==
  ASSUME TypeInv, NEW r \in Requests, HandlerNext(r), ~Answer(r)
  PROVE  \E at \in HandlerSteps, end \in 0..Size, seen \in BOOLEAN, result \in Results :
           /\ handler' = [handler EXCEPT ![r].at = at, ![r].end = end,
                                         ![r].summed = seen, ![r].result = result]
           /\ info' \in {info, 0, NoInfo, TornInfo, end}
<1> DEFINE h == handler[r]
<1>0. /\ h \in Handlers /\ handler \in [Requests -> Handlers]
      /\ h.end \in 0..Size /\ h.summed \in BOOLEAN /\ h.result \in Results
      /\ h.offset \in 0..Size /\ h.body \in 0..Size /\ h.offset + h.body <= Size
  BY DEF TypeInv, UploadTypeOK, BodiesFit, Handlers
<1>1. ASSUME NEW from, NEW at \in HandlerSteps, Step(r, from, at)
      PROVE  handler' = [handler EXCEPT ![r].at = at, ![r].end = h.end,
                                        ![r].summed = h.summed, ![r].result = h.result]
  BY <1>0, <1>1 DEF Step, Handlers
<1>2. ASSUME NEW result \in Results,
             handler' = [handler EXCEPT ![r].at = "answered", ![r].result = result]
      PROVE  handler' = [handler EXCEPT ![r].at = "answered", ![r].end = h.end,
                                        ![r].summed = h.summed, ![r].result = result]
  BY <1>0, <1>2 DEF Handlers
<1>3. CASE Check(r) \/ Create(r) \/ ResetInfo(r) \/ InfoReset(r) \/ SaveInfo(r)
  <2>1. \E from \in HandlerSteps, at \in HandlerSteps : Step(r, from, at)
    <3>1. CASE Check(r)
      <4>1. Step(r, "begin", "checked")
        BY <3>1 DEF Check
      <4> QED
        BY <4>1 DEF HandlerSteps
    <3>2. CASE Create(r)
      <4>1. Step(r, "checked", "created")
        BY <3>2 DEF Create
      <4> QED
        BY <4>1 DEF HandlerSteps
    <3>3. CASE ResetInfo(r)
      <4>1. Step(r, "created", "resetting")
        BY <3>3 DEF ResetInfo
      <4> QED
        BY <4>1 DEF HandlerSteps
    <3>4. CASE InfoReset(r)
      <4>1. Step(r, "resetting", "ready")
        BY <3>4 DEF InfoReset
      <4> QED
        BY <4>1 DEF HandlerSteps
    <3>5. CASE SaveInfo(r)
      <4>1. Step(r, "written", "saving")
        BY <3>5 DEF SaveInfo
      <4> QED
        BY <4>1 DEF HandlerSteps
    <3> QED
      BY <1>3, <3>1, <3>2, <3>3, <3>4, <3>5
  <2>2. info' \in {info, 0, TornInfo}
    BY <1>3 DEF Check, Create, ResetInfo, InfoReset, SaveInfo, Disk
  <2>3. PICK at \in HandlerSteps :
          handler' = [handler EXCEPT ![r].at = at, ![r].end = h.end,
                                     ![r].summed = h.summed, ![r].result = h.result]
    BY <1>1, <2>1
  <2> QED
    BY <1>0, <2>2, <2>3
<1>4. CASE \/ Refuse(r) \/ DiskFails(r) \/ OpenFails(r) \/ Finish(r) \/ InfoSaved(r)
           \/ ReadInfo(r) /\ ReadOffset # h.offset
  <2>1. PICK result \in Results :
          handler' = [handler EXCEPT ![r].at = "answered", ![r].result = result]
    <3>1. CASE Finish(r)
      <4> DEFINE result == IF info = NoInfo THEN "error"
                           ELSE IF h.summed THEN "sum" ELSE "wrongsum"
      <4>1. handler' = [handler EXCEPT ![r].at = "answered", ![r].result = result]
        BY <3>1 DEF Finish, Reply
      <4>2. result \in Results
        BY DEF Results
      <4> QED
        BY <4>1, <4>2
    <3>2. CASE Refuse(r)
      BY <3>2 DEF Refuse, Reply, Results
    <3>3. CASE InfoSaved(r)
      BY <3>3 DEF InfoSaved, Reply, Results
    <3>4. CASE DiskFails(r)
      BY <3>4 DEF DiskFails, Results
    <3>5. CASE OpenFails(r)
      BY <3>5 DEF OpenFails, Reply, Results
    <3>6. CASE ReadInfo(r) /\ ReadOffset # h.offset
      BY <3>6 DEF ReadInfo, Reply, Results
    <3> QED
      BY <1>4, <3>1, <3>2, <3>3, <3>4, <3>5, <3>6
  <2>2. info' \in {info, NoInfo, h.end}
    BY <1>4 DEF Refuse, DiskFails, OpenFails, Finish, InfoSaved, ReadInfo, Disk
  <2>3. handler' = [handler EXCEPT ![r].at = "answered", ![r].end = h.end,
                                   ![r].summed = h.summed, ![r].result = result]
    BY <1>2, <2>1
  <2>4. "answered" \in HandlerSteps
    BY DEF HandlerSteps
  <2> HIDE DEF h
  <2> QED
    BY <1>0, <2>2, <2>3, <2>4
<1>5. CASE ReadInfo(r) /\ ReadOffset = h.offset
  <2>1. handler' = [handler EXCEPT ![r].at = "ready", ![r].end = h.end,
                                   ![r].summed = summed, ![r].result = h.result]
    BY <1>0, <1>5 DEF ReadInfo, Handlers
  <2>2. info' = info /\ summed \in BOOLEAN /\ "ready" \in HandlerSteps
    BY <1>5 DEF ReadInfo, Disk, TypeInv, UploadTypeOK, HandlerSteps
  <2> QED
    BY <1>0, <2>1, <2>2
<1>6. CASE Copy(r) \/ CopyToFullDisk(r)
  <2>1. PICK n \in 0..h.body, seen \in BOOLEAN : Copied(r, n, seen) /\ info' = info
    BY <1>6 DEF Copy, CopyToFullDisk
  <2>2. h.offset + n \in 0..Size
    BY <1>0, UploadAssumption
  <2>3. (h.summed /\ seen) \in BOOLEAN /\ "written" \in HandlerSteps
    BY DEF HandlerSteps
  <2>4. handler' = [handler EXCEPT ![r].at = "written", ![r].end = h.offset + n,
                                   ![r].summed = (h.summed /\ seen),
                                   ![r].result = h.result]
    BY <1>0, <2>1 DEF Copied, Handlers
  <2> QED
    BY <1>0, <2>1, <2>2, <2>3, <2>4
<1> QED
  BY <1>3, <1>4, <1>5, <1>6 DEF HandlerNext

LEMMA HandlerNextType ==
  ASSUME TypeInv, NEW r \in Requests, HandlerNext(r), ~Answer(r)
  PROVE  TypeInv'
<1>1. PICK at \in HandlerSteps, end \in 0..Size, seen \in BOOLEAN, result \in Results :
        /\ handler' = [handler EXCEPT ![r].at = at, ![r].end = end,
                                      ![r].summed = seen, ![r].result = result]
        /\ info' \in {info, 0, NoInfo, TornInfo, end}
  BY HandlerNextShape
<1>2. info' \in 0..(Size + 2)
  BY <1>1, UploadAssumption DEF TypeInv, UploadTypeOK, NoInfo, TornInfo
<1>3. handler[r].summed \in BOOLEAN /\ summed \in BOOLEAN /\ fresh \in BOOLEAN /\ torn \in BOOLEAN
      /\ exists \in BOOLEAN /\ data \subseteq Units
  BY DEF TypeInv, UploadTypeOK, Handlers
<1>4. UNCHANGED ClientVars /\ crashes' = crashes
  BY DEF HandlerNext, Check, Create, ResetInfo, InfoReset, ReadInfo, OpenFails, Refuse,
         DiskFails, CopyToFullDisk, Copy, Finish, SaveInfo, InfoSaved, Step, Reply, Bounds
<1>5. faults' = faults \/ (faults < MaxFaults /\ faults' = faults + 1)
  BY DEF HandlerNext, Check, Create, ResetInfo, InfoReset, ReadInfo, OpenFails, Refuse,
         DiskFails, CopyToFullDisk, Copy, Finish, SaveInfo, InfoSaved, Step, Reply, Bounds
<1>6. data' \subseteq Units /\ fresh' \in BOOLEAN
  <2>1. CASE Create(r)
    BY <2>1 DEF Create
  <2>2. CASE Copy(r) \/ CopyToFullDisk(r)
    BY <1>3, <2>2 DEF Copy, CopyToFullDisk, Written, Covered
  <2>3. CASE \/ Check(r) \/ Refuse(r) \/ ReadInfo(r) \/ DiskFails(r) \/ ResetInfo(r)
             \/ InfoReset(r) \/ OpenFails(r) \/ Finish(r) \/ SaveInfo(r) \/ InfoSaved(r)
    BY <1>3, <2>3 DEF Check, Refuse, ReadInfo, DiskFails, ResetInfo, InfoReset,
                      OpenFails, Finish, SaveInfo, InfoSaved, Disk
  <2> QED
    BY <2>1, <2>2, <2>3 DEF HandlerNext
<1>7. exists' \in BOOLEAN
  BY <1>3 DEF HandlerNext, Check, Create, ResetInfo, InfoReset, ReadInfo, OpenFails, Refuse,
         DiskFails, CopyToFullDisk, Copy, Finish, SaveInfo, InfoSaved, Disk
<1>8. summed' \in BOOLEAN
  <2>1. CASE InfoReset(r) \/ InfoSaved(r)
    BY <1>3, <2>1 DEF InfoReset, InfoSaved
  <2>2. CASE \/ Check(r) \/ Refuse(r) \/ ReadInfo(r) \/ DiskFails(r) \/ ResetInfo(r)
             \/ Create(r) \/ Copy(r) \/ CopyToFullDisk(r) \/ OpenFails(r)
             \/ Finish(r) \/ SaveInfo(r)
    BY <1>3, <2>2 DEF Check, Refuse, ReadInfo, DiskFails, ResetInfo, Create, Copy,
                      CopyToFullDisk, OpenFails, Finish, SaveInfo, Disk
  <2> QED
    BY <2>1, <2>2 DEF HandlerNext
<1>9. torn' \in BOOLEAN
  <2>1. CASE Create(r) \/ ResetInfo(r)
    <3>1. (info \in 1..Size) \in BOOLEAN
      OBVIOUS
    <3>2. torn' = (info \in 1..Size) \/ torn' = FALSE
      BY <2>1 DEF Create, ResetInfo
    <3> QED
      BY <3>1, <3>2
  <2>2. CASE \/ Check(r) \/ Refuse(r) \/ ReadInfo(r) \/ DiskFails(r) \/ InfoReset(r)
             \/ Copy(r) \/ CopyToFullDisk(r) \/ OpenFails(r) \/ Finish(r)
             \/ SaveInfo(r) \/ InfoSaved(r)
    BY <1>3, <2>2 DEF Check, Refuse, ReadInfo, DiskFails, InfoReset, Copy,
                      CopyToFullDisk, OpenFails, Finish, SaveInfo, InfoSaved, Disk
  <2> QED
    BY <2>1, <2>2 DEF HandlerNext
<1> QED
  BY <1>1, <1>2, <1>4, <1>5, <1>6, <1>7, <1>8, <1>9, SameRequestType

LEMMA ClientType ==
  ASSUME TypeInv, SendLost \/ GiveUp \/ Broken \/ Head \/ Abandon
  PROVE  TypeInv'
<1>1. /\ UNCHANGED Disk /\ handler' = handler /\ UNCHANGED Sender
      /\ request' = request /\ crashes' = crashes /\ faults' = faults
  BY DEF SendLost, GiveUp, Broken, Head, Abandon
<1>2. timeouts' \in 0..MaxTimeouts
  BY UploadAssumption DEF SendLost, GiveUp, Broken, Head, Abandon, TypeInv, UploadTypeOK
<1>3. position' \in 0..Size /\ chunk' \in 0..Size
  <2>1. CASE SendLost
    BY <2>1, ChunkEndType DEF SendLost, TypeInv, UploadTypeOK
  <2>2. CASE GiveUp \/ Broken \/ Abandon
    BY <2>2 DEF GiveUp, Broken, Abandon, TypeInv, UploadTypeOK
  <2>3. CASE Head
    <3>1. ReadOffset \in 0..Size
      BY <2>3, UploadAssumption
         DEF Head, ReadOffset, NoInfo, TornInfo, TypeInv, UploadTypeOK
    <3> QED
      BY <2>3, <3>1 DEF Head
  <2> QED
    BY <2>1, <2>2, <2>3
<1>4. client' \in {"head", "send", "failed"}
  BY DEF SendLost, GiveUp, Broken, Head, Abandon
<1> QED
  BY <1>1, <1>2, <1>3, <1>4 DEF TypeInv, UploadTypeOK, BodiesFit, Disk, Sender

LEMMA RequestType ==
  ASSUME TypeInv, NEW r \in Requests, Send(r) \/ SendFinish(r) \/ Answer(r)
  PROVE  TypeInv'
<1>1. CASE Send(r)
  <2>1. PICK read \in chunk..ChunkEnd :
          /\ position' = read
          /\ handler' = [handler EXCEPT ![r] =
               [NoHandler EXCEPT !.at = "begin", !.offset = chunk,
                                 !.body = read - chunk,
                                 !.whole = (read = ChunkEnd),
                                 !.last = seekable]]
    BY <1>1 DEF Send
  <2> DEFINE h == [NoHandler EXCEPT !.at = "begin", !.offset = chunk,
                                    !.body = read - chunk,
                                    !.whole = (read = ChunkEnd),
                                    !.last = seekable]
  <2>2. /\ read \in 0..Size /\ read - chunk \in 0..Size
        /\ chunk + (read - chunk) <= Size
    BY ChunkEndType DEF TypeInv
  <2>3. h \in Handlers
    <3>1. chunk \in 0..Size /\ seekable \in BOOLEAN
      BY DEF TypeInv, UploadTypeOK
    <3>2. (read = ChunkEnd) \in BOOLEAN /\ "begin" \in HandlerSteps
      BY DEF HandlerSteps
    <3> QED
      BY <2>2, <3>1, <3>2, NoHandlerType DEF Handlers
  <2>4. h.offset = chunk /\ h.body = read - chunk
    BY DEF NoHandler
  <2>5. handler' = [handler EXCEPT ![r] = h]
    BY <2>1
  <2> HIDE DEF h
  <2>6. handler' \in [Requests -> Handlers] /\ BodiesFit'
    BY <2>2, <2>3, <2>4, <2>5, HandlersType
  <2> QED
    BY <1>1, <2>1, <2>2, <2>6 DEF Send, TypeInv, UploadTypeOK, Disk, Sender
<1>2. CASE SendFinish(r)
  <2> DEFINE h == [NoHandler EXCEPT !.at = "begin", !.offset = chunk, !.last = TRUE]
  <2>1. chunk \in 0..Size /\ "begin" \in HandlerSteps
    BY DEF TypeInv, UploadTypeOK, HandlerSteps
  <2>2. h \in Handlers
    BY <2>1, NoHandlerType DEF Handlers
  <2>3. h.offset + h.body <= Size
    <3>1. h.offset = chunk /\ h.body = 0
      BY DEF NoHandler
    <3>2. chunk + 0 <= Size
      BY <2>1, UploadAssumption
    <3> QED
      BY <3>1, <3>2
  <2>4. handler' = [handler EXCEPT ![r] = h]
    BY <1>2 DEF SendFinish
  <2> HIDE DEF h
  <2>5. handler' \in [Requests -> Handlers] /\ BodiesFit'
    BY <2>2, <2>3, <2>4, HandlersType
  <2> QED
    BY <1>2, <2>5 DEF SendFinish, TypeInv, UploadTypeOK, Disk, Sender
<1>3. CASE Answer(r)
  <2>1. NoHandler.offset + NoHandler.body <= Size
    BY UploadAssumption DEF NoHandler
  <2>2. handler' \in [Requests -> Handlers] /\ BodiesFit'
    BY <1>3, <2>1, NoHandlerType, HandlersType DEF Answer
  <2>3. /\ client' \in {"send", "waiting", "finishing", "head", "done", "failed"}
        /\ chunk' \in 0..Size
    BY <1>3 DEF Answer, AfterAnswer, TypeInv, UploadTypeOK
  <2> QED
    BY <1>3, <2>2, <2>3 DEF Answer, TypeInv, UploadTypeOK, Disk, Sender
<1> QED
  BY <1>1, <1>2, <1>3

LEMMA NextType == TypeInv /\ [Next]_vars => TypeInv'
<1> SUFFICES ASSUME TypeInv, [Next]_vars PROVE TypeInv'
  OBVIOUS
<1>1. CASE ClientNext \/ SendLost \/ GiveUp \/ Abandon
  BY <1>1, ClientType, RequestType DEF ClientNext
<1>2. CASE Crash
  <2>1. /\ handler' = [r \in Requests |-> NoHandler] /\ crashes' \in 0..MaxCrashes
        /\ UNCHANGED <<Disk, ClientVars, faults>>
    BY <1>2, UploadAssumption DEF Crash, TypeInv, UploadTypeOK
  <2>2. NoHandler \in Handlers /\ NoHandler.offset + NoHandler.body <= Size
    BY NoHandlerType, UploadAssumption DEF NoHandler
  <2>3. BodiesFit' /\ handler' \in [Requests -> Handlers]
    BY <2>1, <2>2 DEF BodiesFit
  <2> QED
    BY <2>1, <2>3 DEF TypeInv, UploadTypeOK, Disk, ClientVars, Sender
<1>3. ASSUME NEW r \in Requests, HandlerNext(r) PROVE TypeInv'
  BY <1>3, RequestType, HandlerNextType
<1>4. CASE UNCHANGED vars
  BY <1>4 DEF vars, TypeInv, UploadTypeOK, BodiesFit
<1> QED
  BY <1>1, <1>2, <1>3, <1>4 DEF Next

\* Client, handlers and the two files on the disk keep their types, however many
\* requests are handled at a time.
THEOREM UploadTypeCorrect == Spec => []UploadTypeOK
<1>1. TypeInv => UploadTypeOK
  BY DEF TypeInv
<1> QED
  BY <1>1, TypeInit, NextType, PTL DEF Spec

-----------------------------------------------------------------------------
(* The inductive invariant, for requests that do not overlap. *)

\* Only the last request may have a handler, and then the client waits for it or
\* has given it up.
OneHandler ==
    \A r \in Requests :
      handler[r].at # "none" =>
        r = request /\ client \in {"waiting", "head", "failed"}

\* From the comparison of the offsets to the new .info file, the old one tells
\* how far the file is good, if createFile was not torn; then the handler itself
\* knows it.  Only a drainer sends offset 0 to a server that is further.
HandlerInv(r) ==
    LET h == handler[r] IN
    /\ h.offset + h.body <= Size
    /\ h.at \in {"begin", "checked"} /\ h.offset = 0 /\ ~drains => info \notin 1..Size
    /\ h.at \in {"created", "resetting"} => h.offset = 0
    /\ h.at \in {"ready", "written"} => info = h.offset
    /\ h.at \in {"written", "saving"} => exists /\ (torn \/ Below(h.end) \subseteq data)
    /\ h.at = "answered" /\ h.result = "sum" => exists /\ (torn \/ data = Units)

\* The request that the client waits for was not cut short.
Awaited == client = "waiting" /\ handler[request].at # "none" /\ handler[request].whole

\* A client that has sent something does not begin again, unless it is told to.
ClientInv ==
    /\ torn => drains
    /\ client \in {"send", "finishing"} /\ chunk = 0 /\ ~drains => info \notin 1..Size
    /\ client = "finishing" \/ Awaited => position > 0 \/ Size = 0

UploadIInv ==
    /\ UploadTypeOK /\ OneHandler /\ InfoHonest /\ Intact /\ ClientInv
    /\ \A r \in Requests : HandlerInv(r)

\* The client has sent nothing, and what is on the disk is a leftover.
LEMMA InitInv == Init => UploadIInv
<1> SUFFICES ASSUME Init PROVE UploadIInv
  OBVIOUS
<1>1. UploadTypeOK
  BY TypeInit DEF TypeInv
<1>2. InfoHonest /\ (torn => drains) /\ (~drains => info \notin 1..Size)
  <2>1. CASE LeftByDrain /\ drains = TRUE
    BY <2>1, Leftovers DEF InfoHonest
  <2>2. CASE info = NoInfo /\ torn = FALSE
    BY <2>2, UploadAssumption DEF InfoHonest, NoInfo
  <2> QED
    BY <2>1, <2>2 DEF Init
<1>3. client = "send" /\ \A r \in Requests : handler[r].at = "none" /\ handler[r] = NoHandler
  BY DEF Init, NoHandler
<1>4. OneHandler /\ Intact /\ ClientInv
  BY <1>2, <1>3 DEF OneHandler, Intact, ClientInv, Awaited
<1>5. \A r \in Requests : HandlerInv(r)
  BY <1>3, UploadAssumption DEF HandlerInv, NoHandler
<1> QED
  BY <1>1, <1>2, <1>4, <1>5 DEF UploadIInv

-----------------------------------------------------------------------------
(* Two kinds of steps. *)

LEMMA HandlerType ==
  ASSUME UploadIInv, NEW r \in Requests
  PROVE  /\ handler[r].at \in HandlerSteps /\ handler[r].offset \in 0..Size
         /\ handler[r].body \in 0..Size /\ handler[r].end \in 0..Size
         /\ handler[r] \in Handlers
BY DEF UploadIInv, UploadTypeOK, Handlers

\* A step of the client, or a crash: the disk stays, and handlers only begin or
\* end.
LEMMA ClientStep ==
  ASSUME UploadIInv, UNCHANGED Disk, UNCHANGED Sender, UploadTypeOK', OneHandler',
         Intact', ClientInv',
         \A u \in Requests :
           \/ handler'[u] = handler[u]
           \/ /\ handler'[u].at \in {"none", "begin"}
              /\ handler'[u].offset + handler'[u].body <= Size
              /\ handler'[u].at = "begin" /\ handler'[u].offset = 0 /\ ~drains
                   => info \notin 1..Size
  PROVE  UploadIInv'
<1>1. /\ exists' = exists /\ data' = data /\ fresh' = fresh
      /\ info' = info /\ summed' = summed /\ torn' = torn /\ drains' = drains
  BY DEF Disk, Sender
<1>2. ASSUME NEW u \in Requests PROVE HandlerInv(u)'
  <2>1. HandlerInv(u)
    BY DEF UploadIInv
  <2>2. CASE handler'[u] = handler[u]
    BY <1>1, <2>1, <2>2 DEF HandlerInv, Below, Units
  <2>3. CASE /\ handler'[u].at \in {"none", "begin"}
             /\ handler'[u].offset + handler'[u].body <= Size
             /\ handler'[u].at = "begin" /\ handler'[u].offset = 0 /\ ~drains
                  => info \notin 1..Size
    BY <1>1, <2>3 DEF HandlerInv
  <2> QED
    BY <2>2, <2>3
<1>3. InfoHonest'
  BY <1>1 DEF UploadIInv, InfoHonest, Below, Units
<1> QED
  BY <1>2, <1>3 DEF UploadIInv

\* A step of a handler: no other is at work, and the client has not accepted.
LEMMA HandlerStep ==
  ASSUME UploadIInv, NEW r \in Requests, handler[r].at # "none",
         UNCHANGED <<Sender, client, request, position, chunk, timeouts>>,
         NEW h \in Handlers, handler' = [handler EXCEPT ![r] = h],
         h.whole = handler[r].whole,
         exists' \in BOOLEAN, data' \subseteq Units, fresh' \in BOOLEAN,
         info' \in 0..(Size + 2), summed' \in BOOLEAN,
         torn' \in BOOLEAN, torn' => drains, crashes' = crashes,
         faults' = faults \/ (faults < MaxFaults /\ faults' = faults + 1),
         HandlerInv(r)', InfoHonest'
  PROVE  UploadIInv'
<1>1. /\ client \in {"waiting", "head", "failed"}
      /\ \A u \in Requests : u # r => handler[u].at = "none"
      /\ r = request
  BY DEF UploadIInv, OneHandler
<1>2. /\ handler'[r] = h /\ handler' \in [Requests -> Handlers]
      /\ \A u \in Requests : u # r => handler'[u] = handler[u]
  BY DEF UploadIInv, UploadTypeOK
<1>3. UploadTypeOK'
  <2>1. faults' \in 0..MaxFaults
    BY UploadAssumption DEF UploadIInv, UploadTypeOK
  <2> QED
    BY <1>2, <2>1 DEF UploadIInv, UploadTypeOK, Sender
<1>4. OneHandler' /\ Intact'
  BY <1>1, <1>2 DEF OneHandler, Intact
<1>5. ClientInv'
  BY <1>1, <1>2 DEF UploadIInv, ClientInv, Awaited, Sender
<1>6. ASSUME NEW u \in Requests, u # r PROVE HandlerInv(u)'
  <2>1. handler'[u] = handler[u] /\ handler[u].at = "none" /\ HandlerInv(u)
    BY <1>1, <1>2, <1>6 DEF UploadIInv
  <2> QED
    BY <2>1 DEF HandlerInv
<1> QED
  BY <1>3, <1>4, <1>5, <1>6 DEF UploadIInv

-----------------------------------------------------------------------------
(* The client. *)

LEMMA SendInv ==
  ASSUME UploadIInv, NEW r \in Requests, Send(r)
  PROVE  UploadIInv'
<1>1. PICK read \in chunk..ChunkEnd :
        /\ position' = read
        /\ handler' = [handler EXCEPT ![r] =
             [NoHandler EXCEPT !.at = "begin", !.offset = chunk,
                               !.body = read - chunk,
                               !.whole = (read = ChunkEnd),
                               !.last = seekable]]
  BY DEF Send
<1> DEFINE h == [NoHandler EXCEPT !.at = "begin", !.offset = chunk,
                                  !.body = read - chunk,
                                  !.whole = (read = ChunkEnd),
                                  !.last = seekable]
<1>2. /\ client = "send" /\ client' = "waiting" /\ request' = r
      /\ UNCHANGED <<Disk, Sender, chunk, crashes, timeouts, faults>>
  BY DEF Send
<1>3. /\ read \in 0..Size /\ read - chunk \in 0..Size
      /\ chunk + (read - chunk) <= Size
  BY ChunkEndType DEF UploadIInv
<1>4. h \in Handlers
  <2>1. chunk \in 0..Size /\ seekable \in BOOLEAN
    BY DEF UploadIInv, UploadTypeOK
  <2>2. (read = ChunkEnd) \in BOOLEAN /\ "begin" \in HandlerSteps
    BY DEF HandlerSteps
  <2> QED
    BY <1>3, <2>1, <2>2, NoHandlerType DEF Handlers
<1>5. h.at = "begin" /\ h.offset = chunk /\ h.body = read - chunk
  BY DEF NoHandler
<1> HIDE DEF h
<1>6. \A u \in Requests : handler[u].at = "none"
  BY <1>2 DEF UploadIInv, OneHandler
<1>7. /\ handler' = [handler EXCEPT ![r] = h]
      /\ handler' \in [Requests -> Handlers]
      /\ handler'[r] = h /\ \A u \in Requests : u # r => handler'[u] = handler[u]
  BY <1>1, <1>4 DEF h, UploadIInv, UploadTypeOK
<1>8. UploadTypeOK'
  BY <1>1, <1>2, <1>3, <1>7 DEF UploadIInv, UploadTypeOK, Disk, Sender
<1>9. OneHandler' /\ Intact'
  BY <1>2, <1>6, <1>7 DEF OneHandler, Intact
<1>10. ClientInv'
  <2>1. h.whole => position' > 0 \/ Size = 0
    <3>1. chunk \in 0..Size
      BY DEF UploadIInv, UploadTypeOK
    <3>2. ChunkEnd > 0 \/ Size = 0
      BY <3>1, UploadAssumption DEF ChunkEnd
    <3>3. h.whole = (read = ChunkEnd)
      BY DEF h, NoHandler
    <3>4. h.whole => read = ChunkEnd
      BY <3>3, Zenon
    <3> QED
      BY <1>1, <3>2, <3>4
  <2> QED
    BY <1>2, <1>7, <2>1 DEF UploadIInv, ClientInv, Awaited, Disk, Sender
<1>11. h.offset = 0 /\ ~drains => info \notin 1..Size
  BY <1>2, <1>5 DEF UploadIInv, ClientInv
<1> QED
  BY <1>2, <1>3, <1>5, <1>7, <1>8, <1>9, <1>10, <1>11, ClientStep

LEMMA SendFinishInv ==
  ASSUME UploadIInv, NEW r \in Requests, SendFinish(r)
  PROVE  UploadIInv'
<1> DEFINE h == [NoHandler EXCEPT !.at = "begin", !.offset = chunk, !.last = TRUE]
<1>1. /\ client = "finishing" /\ client' = "waiting" /\ request' = r
      /\ handler' = [handler EXCEPT ![r] = h]
      /\ UNCHANGED <<Disk, Sender, position, chunk, crashes, timeouts, faults>>
  BY DEF SendFinish
<1>2. chunk \in 0..Size
  BY DEF UploadIInv, UploadTypeOK
<1>3. h \in Handlers
  <2>1. "begin" \in HandlerSteps
    BY DEF HandlerSteps
  <2> QED
    BY <1>2, <2>1, NoHandlerType DEF Handlers
<1>4. h.at = "begin" /\ h.offset = chunk /\ h.offset + h.body <= Size
  BY <1>2, UploadAssumption DEF NoHandler
<1> HIDE DEF h
<1>5. \A u \in Requests : handler[u].at = "none"
  BY <1>1 DEF UploadIInv, OneHandler
<1>6. /\ handler' \in [Requests -> Handlers]
      /\ handler'[r] = h /\ \A u \in Requests : u # r => handler'[u] = handler[u]
  BY <1>1, <1>3 DEF UploadIInv, UploadTypeOK
<1>7. UploadTypeOK'
  BY <1>1, <1>6 DEF UploadIInv, UploadTypeOK, Disk, Sender
<1>8. OneHandler' /\ Intact'
  BY <1>1, <1>5, <1>6 DEF OneHandler, Intact
<1>9. /\ ClientInv'
      /\ h.offset = 0 /\ ~drains => info \notin 1..Size
  BY <1>1, <1>4 DEF UploadIInv, ClientInv, Awaited, Disk, Sender
<1> QED
  BY <1>1, <1>4, <1>6, <1>7, <1>8, <1>9, ClientStep

\* The client goes to look for the offset, looks, or ends: no handler changes.
LEMMA ClientAloneInv ==
  ASSUME UploadIInv, ~Overlap, SendLost \/ GiveUp \/ Broken \/ Head \/ Abandon
  PROVE  UploadIInv'
<1>1. /\ UNCHANGED Disk /\ handler' = handler /\ UNCHANGED Sender
      /\ request' = request /\ crashes' = crashes /\ faults' = faults
  BY DEF SendLost, GiveUp, Broken, Head, Abandon
<1>2. timeouts' \in 0..MaxTimeouts
  BY UploadAssumption
     DEF SendLost, GiveUp, Broken, Head, Abandon, UploadIInv, UploadTypeOK
<1>3. position' \in 0..Size /\ chunk' \in 0..Size
  <2>1. CASE SendLost
    BY <2>1, ChunkEndType DEF SendLost, UploadIInv, UploadTypeOK
  <2>2. CASE GiveUp \/ Broken \/ Abandon
    BY <2>2 DEF GiveUp, Broken, Abandon, UploadIInv, UploadTypeOK
  <2>3. CASE Head
    <3>1. ReadOffset \in 0..Size
      BY <2>3, UploadAssumption
         DEF Head, ReadOffset, NoInfo, TornInfo, UploadIInv, UploadTypeOK
    <3> QED
      BY <2>3, <3>1 DEF Head
  <2> QED
    BY <2>1, <2>2, <2>3
<1>4. /\ client' \in {"head", "send", "failed"}
      /\ client' = "send" => \A u \in Requests : handler[u].at = "none"
      /\ client' = "head" => client \in {"send", "finishing", "waiting"}
      /\ client' = "failed" => client = "head"
  BY DEF SendLost, GiveUp, Broken, Head, Abandon, Idle
<1>5. UploadTypeOK'
  BY <1>1, <1>2, <1>3, <1>4 DEF UploadIInv, UploadTypeOK, Disk, Sender
<1>6. OneHandler' /\ Intact'
  BY <1>1, <1>4 DEF UploadIInv, OneHandler, Intact
<1>7. client' = "send" /\ chunk' = 0 => info \notin 1..Size
  BY UploadAssumption
     DEF SendLost, GiveUp, Broken, Head, Abandon, ReadOffset, NoInfo, UploadIInv
<1>8. ClientInv'
  BY <1>1, <1>4, <1>7 DEF UploadIInv, ClientInv, Awaited, Disk, Sender
<1> QED
  BY <1>1, <1>5, <1>6, <1>8, ClientStep

LEMMA AnswerInv ==
  ASSUME UploadIInv, NEW r \in Requests, Answer(r)
  PROVE  UploadIInv'
<1> DEFINE h == handler[r]
<1>1. /\ h.at = "answered" /\ handler' = [handler EXCEPT ![r] = NoHandler]
      /\ UNCHANGED <<Disk, Sender, request, position, crashes, timeouts, faults>>
  BY DEF Answer
<1>2. /\ r = request /\ client \in {"waiting", "head", "failed"}
      /\ \A u \in Requests : u # r => handler[u].at = "none"
  BY <1>1 DEF UploadIInv, OneHandler
<1>3. /\ NoHandler.at = "none" /\ NoHandler.offset + NoHandler.body <= Size
      /\ handler' \in [Requests -> Handlers] /\ handler'[r] = NoHandler
      /\ \A u \in Requests : u # r => handler'[u] = handler[u]
  <2>1. NoHandler.at = "none" /\ NoHandler.offset + NoHandler.body <= Size
    BY UploadAssumption DEF NoHandler
  <2> QED
    BY <1>1, <2>1, NoHandlerType DEF UploadIInv, UploadTypeOK
<1>4. /\ client' \in {"waiting", "head", "failed", "done", "finishing", "send"}
      /\ client' = "done" => h.result = "sum"
      /\ chunk' \in 0..Size
  BY <1>2 DEF Answer, AfterAnswer, UploadIInv, UploadTypeOK
<1>5. UploadTypeOK'
  BY <1>1, <1>3, <1>4 DEF UploadIInv, UploadTypeOK, Disk, Sender
<1>6. OneHandler'
  BY <1>2, <1>3 DEF OneHandler
<1>7. Intact'
  <2>1. h.result = "sum" => (exists /\ data = Units) \/ (drains /\ torn)
    BY <1>1 DEF UploadIInv, HandlerInv, ClientInv
  <2> QED
    BY <1>1, <1>4, <2>1 DEF Intact, Disk, Units, Sender
<1>8. ClientInv'
  <2>1. client' \in {"finishing", "send"} =>
          chunk' = position /\ (position > 0 \/ Size = 0)
    BY <1>1, <1>2 DEF Answer, AfterAnswer, UploadIInv, ClientInv, Awaited
  <2>2. ~Awaited'
    BY <1>1, <1>2, <1>3 DEF Awaited
  <2>3. client' \in {"send", "finishing"} /\ chunk' = 0 => info \notin 1..Size
    <3>1. position \in 0..Size
      BY DEF UploadIInv, UploadTypeOK
    <3> QED
      BY <2>1, <3>1, UploadAssumption
  <2> QED
    BY <1>1, <2>1, <2>2, <2>3 DEF UploadIInv, ClientInv, Disk, Sender
<1> QED
  BY <1>1, <1>3, <1>5, <1>6, <1>7, <1>8, ClientStep

LEMMA CrashInv ==
  ASSUME UploadIInv, Crash
  PROVE  UploadIInv'
<1>1. /\ handler' = [r \in Requests |-> NoHandler]
      /\ crashes < MaxCrashes /\ crashes' = crashes + 1 /\ ~Idle
      /\ UNCHANGED <<Disk, ClientVars, faults>>
  BY DEF Crash
<1>2. /\ NoHandler.at = "none" /\ NoHandler.offset + NoHandler.body <= Size
      /\ handler' \in [Requests -> Handlers]
      /\ \A u \in Requests : handler'[u] = NoHandler
  <2>1. NoHandler.at = "none" /\ NoHandler.offset + NoHandler.body <= Size
    BY UploadAssumption DEF NoHandler
  <2> QED
    BY <1>1, <2>1, NoHandlerType
<1>3. UploadTypeOK'
  <2>1. crashes' \in 0..MaxCrashes
    BY <1>1, UploadAssumption DEF UploadIInv, UploadTypeOK
  <2> QED
    BY <1>1, <1>2, <2>1 DEF UploadIInv, UploadTypeOK, Disk, ClientVars, Sender
<1>4. OneHandler' /\ Intact'
  BY <1>1, <1>2 DEF UploadIInv, OneHandler, Intact, Disk, ClientVars, Sender, Units
<1>5. ClientInv'
  <2>1. request' \in Requests
    BY <1>3 DEF UploadTypeOK
  <2>2. ~Awaited'
    BY <1>2, <2>1 DEF Awaited
  <2> QED
    BY <1>1, <2>2 DEF UploadIInv, ClientInv, Disk, ClientVars, Sender
<1> QED
  BY <1>1, <1>2, <1>3, <1>4, <1>5, ClientStep DEF ClientVars

-----------------------------------------------------------------------------
(* The handler. *)

LEMMA CheckInv ==
  ASSUME UploadIInv, NEW r \in Requests, Check(r)
  PROVE  UploadIInv'
<1> DEFINE h == [handler[r] EXCEPT !.at = "checked"]
<1>1. /\ handler[r].at = "begin"
      /\ handler' = [handler EXCEPT ![r].at = "checked"]
      /\ exists' = exists /\ data' = data /\ fresh' = fresh
      /\ info' = info /\ summed' = summed /\ torn' = torn
      /\ UNCHANGED <<ClientVars, Bounds>>
  BY DEF Check, Step, Disk
<1>2. handler' = [handler EXCEPT ![r] = h] /\ h \in Handlers
  BY <1>1, HandlerType DEF Handlers, HandlerSteps, UploadIInv, UploadTypeOK
<1>3. /\ h.at = "checked" /\ h.offset = handler[r].offset /\ h.body = handler[r].body
      /\ h.whole = handler[r].whole
  BY HandlerType DEF Handlers
<1> HIDE DEF h
<1>4. handler'[r] = h
  BY <1>2 DEF UploadIInv, UploadTypeOK
<1>5. HandlerInv(r)'
  BY <1>1, <1>3, <1>4 DEF UploadIInv, HandlerInv, ClientVars, Sender
<1>6. InfoHonest'
  BY <1>1 DEF UploadIInv, InfoHonest, Below, Units
<1> QED
  BY <1>1, <1>2, <1>3, <1>5, <1>6, HandlerStep
     DEF ClientVars, Bounds, UploadIInv, UploadTypeOK, ClientInv

LEMMA CreateInv ==
  ASSUME UploadIInv, NEW r \in Requests, Create(r)
  PROVE  UploadIInv'
<1> DEFINE h == [handler[r] EXCEPT !.at = "created"]
<1>1. /\ handler[r].at = "checked" /\ handler[r].offset = 0
      /\ handler' = [handler EXCEPT ![r].at = "created"]
      /\ exists' = TRUE /\ data' = {} /\ fresh' = TRUE /\ torn' = (info \in 1..Size)
      /\ info' = info /\ summed' = summed
      /\ UNCHANGED <<ClientVars, Bounds>>
  BY DEF Create, Step
<1>2. handler' = [handler EXCEPT ![r] = h] /\ h \in Handlers
  BY <1>1, HandlerType DEF Handlers, HandlerSteps, UploadIInv, UploadTypeOK
<1>3. /\ h.at = "created" /\ h.offset = handler[r].offset /\ h.body = handler[r].body
      /\ h.whole = handler[r].whole
  BY HandlerType DEF Handlers
<1> HIDE DEF h
<1>4. handler'[r] = h
  BY <1>2 DEF UploadIInv, UploadTypeOK
<1>5. HandlerInv(r)'
  BY <1>1, <1>3, <1>4 DEF UploadIInv, HandlerInv
<1>6. ~torn' => info \notin 1..Size
  BY <1>1, Zenon
<1>7. InfoHonest'
  <2>1. info <= Size /\ ~torn' => info = 0
    BY <1>6, UploadAssumption DEF UploadIInv, UploadTypeOK
  <2> QED
    BY <1>1, <2>1, BelowAll DEF InfoHonest, Below, Units
<1>8. torn' \in BOOLEAN /\ (torn' => drains)
  <2>1. info \in 1..Size => drains
    BY <1>1 DEF UploadIInv, HandlerInv
  <2>2. (info \in 1..Size) \in BOOLEAN
    OBVIOUS
  <2>3. torn' = (info \in 1..Size)
    BY <1>1
  <2>4. torn' => info \in 1..Size
    BY <2>3, Zenon
  <2> QED
    BY <2>1, <2>2, <2>3, <2>4
<1> QED
  BY <1>1, <1>2, <1>3, <1>5, <1>7, <1>8, HandlerStep
     DEF ClientVars, Bounds, UploadIInv, UploadTypeOK, ClientInv

LEMMA ResetInfoInv ==
  ASSUME UploadIInv, NEW r \in Requests, ResetInfo(r)
  PROVE  UploadIInv'
<1> DEFINE h == [handler[r] EXCEPT !.at = "resetting"]
<1>1. /\ handler[r].at = "created"
      /\ handler' = [handler EXCEPT ![r].at = "resetting"]
      /\ exists' = exists /\ data' = data /\ fresh' = fresh
      /\ info' = TornInfo /\ summed' = summed /\ torn' = FALSE
      /\ UNCHANGED <<ClientVars, Bounds>>
  BY DEF ResetInfo, Step
<1>2. handler' = [handler EXCEPT ![r] = h] /\ h \in Handlers
  BY <1>1, HandlerType DEF Handlers, HandlerSteps, UploadIInv, UploadTypeOK
<1>3. /\ h.at = "resetting" /\ h.offset = handler[r].offset /\ h.body = handler[r].body
      /\ h.whole = handler[r].whole
  BY HandlerType DEF Handlers
<1> HIDE DEF h
<1>4. handler'[r] = h
  BY <1>2 DEF UploadIInv, UploadTypeOK
<1>5. HandlerInv(r)'
  BY <1>1, <1>3, <1>4 DEF UploadIInv, HandlerInv
<1>6. info' \in 0..(Size + 2) /\ InfoHonest'
  BY <1>1, UploadAssumption DEF InfoHonest, TornInfo
<1> QED
  BY <1>1, <1>2, <1>3, <1>5, <1>6, HandlerStep
     DEF ClientVars, Bounds, UploadIInv, UploadTypeOK, ClientInv

LEMMA InfoResetInv ==
  ASSUME UploadIInv, NEW r \in Requests, InfoReset(r)
  PROVE  UploadIInv'
<1> DEFINE h == [handler[r] EXCEPT !.at = "ready"]
<1>1. /\ handler[r].at = "resetting"
      /\ handler' = [handler EXCEPT ![r].at = "ready"]
      /\ exists' = exists /\ data' = data /\ fresh' = fresh
      /\ info' = 0 /\ summed' = TRUE /\ torn' = torn
      /\ UNCHANGED <<ClientVars, Bounds>>
  BY DEF InfoReset, Step
<1>2. handler' = [handler EXCEPT ![r] = h] /\ h \in Handlers
  BY <1>1, HandlerType DEF Handlers, HandlerSteps, UploadIInv, UploadTypeOK
<1>3. /\ h.at = "ready" /\ h.offset = handler[r].offset /\ h.body = handler[r].body
      /\ h.whole = handler[r].whole
  BY HandlerType DEF Handlers
<1> HIDE DEF h
<1>4. handler'[r] = h
  BY <1>2 DEF UploadIInv, UploadTypeOK
<1>5. HandlerInv(r)'
  BY <1>1, <1>3, <1>4 DEF UploadIInv, HandlerInv
<1>6. info' \in 0..(Size + 2) /\ InfoHonest'
  BY <1>1, BelowAll, UploadAssumption DEF InfoHonest, Below, Units
<1> QED
  BY <1>1, <1>2, <1>3, <1>5, <1>6, HandlerStep
     DEF ClientVars, Bounds, UploadIInv, UploadTypeOK, ClientInv

\* Answers that leave the disk as it was.
LEMMA RefuseInv ==
  ASSUME UploadIInv, NEW r \in Requests,
         Disk' = Disk, handler[r].at # "none",
         UNCHANGED ClientVars, crashes' = crashes,
         faults' = faults \/ (faults < MaxFaults /\ faults' = faults + 1),
         NEW result \in {"refused", "error"},
         handler' = [handler EXCEPT ![r].at = "answered", ![r].result = result]
  PROVE  UploadIInv'
<1> DEFINE h == [handler[r] EXCEPT !.at = "answered", !.result = result]
<1>1. handler' = [handler EXCEPT ![r] = h] /\ h \in Handlers
  BY HandlerType DEF Handlers, HandlerSteps, Results, UploadIInv, UploadTypeOK
<1>2. /\ h.at = "answered" /\ h.result = result
      /\ h.offset = handler[r].offset /\ h.body = handler[r].body
      /\ h.whole = handler[r].whole
  BY HandlerType DEF Handlers
<1> HIDE DEF h
<1>3. /\ exists' = exists /\ data' = data /\ fresh' = fresh
      /\ info' = info /\ summed' = summed /\ torn' = torn
  BY DEF Disk
<1>4. handler'[r] = h
  BY <1>1 DEF UploadIInv, UploadTypeOK
<1>5. HandlerInv(r)'
  BY <1>2, <1>4 DEF UploadIInv, HandlerInv
<1>6. InfoHonest'
  BY <1>3 DEF UploadIInv, InfoHonest, Below, Units
<1> QED
  BY <1>1, <1>2, <1>3, <1>5, <1>6, HandlerStep DEF ClientVars, UploadIInv, UploadTypeOK, ClientInv

LEMMA ReadInfoInv ==
  ASSUME UploadIInv, NEW r \in Requests, ReadInfo(r)
  PROVE  UploadIInv'
<1>1. /\ handler[r].at = "checked" /\ handler[r].offset > 0
      /\ UNCHANGED <<Disk, ClientVars, Bounds>>
  BY DEF ReadInfo, Reply
<1>2. CASE ReadOffset = handler[r].offset
  <2> DEFINE h == [handler[r] EXCEPT !.at = "ready", !.summed = summed]
  <2>1. handler' = [handler EXCEPT ![r] = h] /\ h \in Handlers
    BY <1>2, HandlerType
       DEF ReadInfo, Handlers, HandlerSteps, UploadIInv, UploadTypeOK
  <2>2. /\ h.at = "ready" /\ h.offset = handler[r].offset
        /\ h.body = handler[r].body /\ h.whole = handler[r].whole
    BY HandlerType DEF Handlers
  <2> HIDE DEF h
  <2>3. /\ exists' = exists /\ data' = data /\ fresh' = fresh
        /\ info' = info /\ summed' = summed /\ torn' = torn
    BY <1>1 DEF Disk
  <2>4. info = handler[r].offset
    BY <1>1, <1>2, HandlerType, UploadAssumption DEF ReadOffset, NoInfo
  <2>5. handler'[r] = h
    BY <2>1 DEF UploadIInv, UploadTypeOK
  <2>6. HandlerInv(r)'
    BY <2>2, <2>3, <2>4, <2>5 DEF UploadIInv, HandlerInv
  <2>7. InfoHonest'
    BY <2>3 DEF UploadIInv, InfoHonest, Below, Units
  <2> QED
    BY <1>1, <2>1, <2>2, <2>3, <2>6, <2>7, HandlerStep
       DEF ClientVars, Bounds, UploadIInv, UploadTypeOK, ClientInv
<1>3. CASE ReadOffset # handler[r].offset
  <2>1. handler' = [handler EXCEPT ![r].at = "answered", ![r].result = "error"]
    BY <1>3 DEF ReadInfo, Reply
  <2> QED
    BY <1>1, <2>1, RefuseInv DEF Bounds
<1> QED
  BY <1>2, <1>3

LEMMA OpenFailsInv ==
  ASSUME UploadIInv, NEW r \in Requests, OpenFails(r)
  PROVE  UploadIInv'
<1> DEFINE h == [handler[r] EXCEPT !.at = "answered", !.result = "error"]
<1>1. /\ handler[r].at = "ready" /\ info' = NoInfo
      /\ handler' = [handler EXCEPT ![r].at = "answered", ![r].result = "error"]
      /\ UNCHANGED <<exists, data, fresh, summed, torn, ClientVars, Bounds>>
  BY DEF OpenFails, Reply
<1>2. handler' = [handler EXCEPT ![r] = h] /\ h \in Handlers
  BY <1>1, HandlerType
     DEF Handlers, HandlerSteps, Results, UploadIInv, UploadTypeOK
<1>3. /\ h.at = "answered" /\ h.result = "error"
      /\ h.offset = handler[r].offset /\ h.body = handler[r].body
      /\ h.whole = handler[r].whole
  BY HandlerType DEF Handlers
<1> HIDE DEF h
<1>4. handler'[r] = h
  BY <1>2 DEF UploadIInv, UploadTypeOK
<1>5. HandlerInv(r)'
  BY <1>3, <1>4 DEF UploadIInv, HandlerInv
<1>6. info' \in 0..(Size + 2) /\ InfoHonest'
  BY <1>1, UploadAssumption DEF InfoHonest, NoInfo
<1> QED
  BY <1>1, <1>2, <1>3, <1>5, <1>6, HandlerStep
     DEF ClientVars, Bounds, UploadIInv, UploadTypeOK, ClientInv

\* n units reach the disk, of whatever was in the body.
LEMMA WriteInv ==
  ASSUME UploadIInv, NEW r \in Requests, handler[r].at = "ready", exists,
         NEW n \in 0..handler[r].body, NEW seen \in BOOLEAN,
         Written(r, n), Copied(r, n, seen),
         UNCHANGED <<exists, info, summed, torn, ClientVars, crashes>>,
         faults' = faults \/ (faults < MaxFaults /\ faults' = faults + 1)
  PROVE  UploadIInv'
<1> DEFINE h == [handler[r] EXCEPT !.at = "written",
                                   !.end = handler[r].offset + n,
                                   !.summed = @ /\ seen]
<1>1. /\ handler[r].offset \in 0..Size /\ handler[r].body \in 0..Size
      /\ handler[r].offset + handler[r].body <= Size
      /\ info = handler[r].offset
  BY HandlerType DEF UploadIInv, HandlerInv
<1>2. handler[r].offset + n \in 0..Size /\ n \in Nat
  BY <1>1, UploadAssumption
<1>3. handler' = [handler EXCEPT ![r] = h]
  BY DEF Copied, UploadIInv, UploadTypeOK
<1>4. h \in Handlers
  <2>1. (handler[r].summed /\ seen) \in BOOLEAN /\ "written" \in HandlerSteps
    BY DEF HandlerSteps
  <2> QED
    BY <1>2, <2>1, HandlerType DEF Handlers
<1>5. /\ h.at = "written" /\ h.end = handler[r].offset + n
      /\ h.offset = handler[r].offset /\ h.body = handler[r].body
      /\ h.whole = handler[r].whole
  BY HandlerType DEF Handlers
<1> HIDE DEF h
<1>6. handler'[r] = h
  BY <1>3 DEF UploadIInv, UploadTypeOK
<1>7. torn \/ Below(info) \subseteq data
  BY <1>1 DEF UploadIInv, InfoHonest
<1>8. torn \/ Below(handler[r].offset + n) \subseteq data'
  BY <1>1, <1>2, <1>7, BelowGrows DEF Written
<1>9. HandlerInv(r)'
  BY <1>1, <1>5, <1>6, <1>8 DEF HandlerInv, Below, Units
<1>10. InfoHonest'
  BY <1>7 DEF Written, InfoHonest, Below, Units
<1>11. data' \subseteq Units /\ fresh' \in BOOLEAN
  BY DEF Written, Covered, UploadIInv, UploadTypeOK
<1> QED
  BY <1>3, <1>4, <1>5, <1>9, <1>10, <1>11, HandlerStep
     DEF ClientVars, UploadIInv, UploadTypeOK, ClientInv

LEMMA CopyInv ==
  ASSUME UploadIInv, NEW r \in Requests, Copy(r) \/ CopyToFullDisk(r)
  PROVE  UploadIInv'
<1>1. handler[r].at = "ready" /\ exists
  BY DEF Copy, CopyToFullDisk
<1>2. PICK n \in 0..handler[r].body, seen \in BOOLEAN :
        Written(r, n) /\ Copied(r, n, seen)
  BY DEF Copy, CopyToFullDisk
<1>3. /\ UNCHANGED <<exists, info, summed, torn, ClientVars, crashes>>
      /\ faults' = faults \/ (faults < MaxFaults /\ faults' = faults + 1)
  BY DEF Copy, CopyToFullDisk, Bounds
<1> QED
  BY <1>1, <1>2, <1>3, WriteInv

LEMMA DiskFailsInv ==
  ASSUME UploadIInv, NEW r \in Requests, DiskFails(r)
  PROVE  UploadIInv'
<1>1. /\ handler[r].at # "none"
      /\ faults < MaxFaults /\ faults' = faults + 1
      /\ handler' = [handler EXCEPT ![r].at = "answered", ![r].result = "error"]
      /\ UNCHANGED <<Disk, ClientVars, crashes>>
  BY DEF DiskFails
<1> QED
  BY <1>1, RefuseInv

LEMMA FinishInv ==
  ASSUME UploadIInv, NEW r \in Requests, Finish(r)
  PROVE  UploadIInv'
<1> DEFINE result == IF info = NoInfo THEN "error"
                     ELSE IF handler[r].summed THEN "sum" ELSE "wrongsum"
           h == [handler[r] EXCEPT !.at = "answered", !.result = result]
<1>1. /\ handler[r].at = "written" /\ handler[r].end = Size /\ info' = NoInfo
      /\ handler' = [handler EXCEPT ![r].at = "answered", ![r].result = result]
      /\ UNCHANGED <<exists, data, fresh, summed, torn, ClientVars, Bounds>>
  BY DEF Finish, Reply
<1>2. result \in Results
  BY DEF Results
<1> HIDE DEF result
<1>3. handler' = [handler EXCEPT ![r] = h] /\ h \in Handlers
  BY <1>1, <1>2, HandlerType DEF Handlers, HandlerSteps, UploadIInv, UploadTypeOK
<1>4. /\ h.at = "answered" /\ h.offset = handler[r].offset
      /\ h.body = handler[r].body /\ h.whole = handler[r].whole
  BY HandlerType DEF Handlers
<1> HIDE DEF h
<1>5. handler'[r] = h
  BY <1>3 DEF UploadIInv, UploadTypeOK
<1>6. exists /\ (torn \/ data = Units)
  <2>1. exists /\ (torn \/ Below(Size) \subseteq data)
    BY <1>1 DEF UploadIInv, HandlerInv
  <2> QED
    BY <2>1, BelowAll DEF UploadIInv, UploadTypeOK
<1>7. HandlerInv(r)'
  BY <1>1, <1>4, <1>5, <1>6 DEF UploadIInv, HandlerInv, Units
<1>8. info' \in 0..(Size + 2) /\ InfoHonest'
  BY <1>1, UploadAssumption DEF InfoHonest, NoInfo
<1> QED
  BY <1>1, <1>3, <1>4, <1>7, <1>8, HandlerStep
     DEF ClientVars, Bounds, UploadIInv, UploadTypeOK, ClientInv

LEMMA SaveInfoInv ==
  ASSUME UploadIInv, NEW r \in Requests, SaveInfo(r)
  PROVE  UploadIInv'
<1> DEFINE h == [handler[r] EXCEPT !.at = "saving"]
<1>1. /\ handler[r].at = "written"
      /\ handler' = [handler EXCEPT ![r].at = "saving"]
      /\ exists' = exists /\ data' = data /\ fresh' = fresh
      /\ info' = TornInfo /\ summed' = summed /\ torn' = torn
      /\ UNCHANGED <<ClientVars, Bounds>>
  BY DEF SaveInfo, Step
<1>2. handler' = [handler EXCEPT ![r] = h] /\ h \in Handlers
  BY <1>1, HandlerType DEF Handlers, HandlerSteps, UploadIInv, UploadTypeOK
<1>3. /\ h.at = "saving" /\ h.offset = handler[r].offset
      /\ h.body = handler[r].body /\ h.end = handler[r].end
      /\ h.whole = handler[r].whole
  BY HandlerType DEF Handlers
<1> HIDE DEF h
<1>4. handler'[r] = h
  BY <1>2 DEF UploadIInv, UploadTypeOK
<1>5. HandlerInv(r)'
  BY <1>1, <1>3, <1>4 DEF UploadIInv, HandlerInv, Below, Units
<1>6. info' \in 0..(Size + 2) /\ InfoHonest'
  BY <1>1, UploadAssumption DEF InfoHonest, TornInfo
<1> QED
  BY <1>1, <1>2, <1>3, <1>5, <1>6, HandlerStep
     DEF ClientVars, Bounds, UploadIInv, UploadTypeOK, ClientInv

LEMMA InfoSavedInv ==
  ASSUME UploadIInv, NEW r \in Requests, InfoSaved(r)
  PROVE  UploadIInv'
<1> DEFINE h == [handler[r] EXCEPT !.at = "answered", !.result = "ok"]
<1>1. /\ handler[r].at = "saving"
      /\ info' = handler[r].end /\ summed' = handler[r].summed
      /\ handler' = [handler EXCEPT ![r].at = "answered", ![r].result = "ok"]
      /\ UNCHANGED <<exists, data, fresh, torn, ClientVars, Bounds>>
  BY DEF InfoSaved, Reply
<1>2. handler' = [handler EXCEPT ![r] = h] /\ h \in Handlers
  BY <1>1, HandlerType
     DEF Handlers, HandlerSteps, Results, UploadIInv, UploadTypeOK
<1>3. /\ h.at = "answered" /\ h.result = "ok"
      /\ h.offset = handler[r].offset /\ h.body = handler[r].body
      /\ h.whole = handler[r].whole
  BY HandlerType DEF Handlers
<1> HIDE DEF h
<1>4. handler'[r] = h
  BY <1>2 DEF UploadIInv, UploadTypeOK
<1>5. HandlerInv(r)'
  BY <1>3, <1>4 DEF UploadIInv, HandlerInv
<1>6. torn \/ Below(handler[r].end) \subseteq data
  BY <1>1 DEF UploadIInv, HandlerInv
<1>7. InfoHonest'
  BY <1>1, <1>6 DEF InfoHonest, Below, Units
<1>8. info' \in 0..(Size + 2) /\ summed' \in BOOLEAN
  <2>1. handler[r].end \in 0..Size
    BY HandlerType
  <2>2. handler[r].summed \in BOOLEAN
    BY HandlerType DEF Handlers
  <2> QED
    BY <1>1, <2>1, <2>2, UploadAssumption
<1> QED
  BY <1>1, <1>2, <1>3, <1>5, <1>7, <1>8, HandlerStep
     DEF ClientVars, Bounds, UploadIInv, UploadTypeOK, ClientInv

-----------------------------------------------------------------------------
(* The specification. *)

LEMMA NextInv ==
  ASSUME ~Overlap
  PROVE  UploadIInv /\ [Next]_vars => UploadIInv'
<1> SUFFICES ASSUME UploadIInv, [Next]_vars PROVE UploadIInv'
  OBVIOUS
<1>1. CASE ClientNext
  BY <1>1, ClientAloneInv, SendInv, SendFinishInv DEF ClientNext
<1>2. CASE SendLost \/ GiveUp \/ Abandon
  BY <1>2, ClientAloneInv
<1>3. CASE Crash
  BY <1>3, CrashInv
<1>4. ASSUME NEW r \in Requests, HandlerNext(r) PROVE UploadIInv'
  <2>1. CASE Refuse(r)
    <3>1. /\ handler[r].at = "begin" /\ UNCHANGED <<Disk, ClientVars, Bounds>>
          /\ handler' = [handler EXCEPT ![r].at = "answered",
                                        ![r].result = "refused"]
      BY <2>1 DEF Refuse, Reply
    <3> QED
      BY <3>1, RefuseInv DEF Bounds
  <2> QED
    BY <1>4, <2>1, CheckInv, CreateInv, ResetInfoInv, InfoResetInv, ReadInfoInv,
       OpenFailsInv, DiskFailsInv, CopyInv, FinishInv, SaveInfoInv,
       InfoSavedInv, AnswerInv DEF HandlerNext
<1>5. CASE UNCHANGED vars
  <2>1. UNCHANGED Disk /\ UNCHANGED Sender /\ handler' = handler
    BY <1>5 DEF vars, Disk, Sender
  <2>2. UploadTypeOK' /\ OneHandler' /\ Intact' /\ ClientInv'
    BY <1>5 DEF vars, UploadIInv, UploadTypeOK, OneHandler, Intact, ClientInv, Awaited, Units
  <2> QED
    BY <2>1, <2>2, ClientStep
<1> QED
  BY <1>1, <1>2, <1>3, <1>4, <1>5 DEF Next

\* What sendFile accepts, because the digests agree, is on the disk, whatever has
\* crashed, been lost or been cut short; but for a drain, when it or an earlier
\* one was interrupted between the two files of createFile.
THEOREM AcceptedIsIntact ==
  ASSUME ~Overlap
  PROVE  Spec => []Intact
<1>1. UploadIInv => Intact
  BY DEF UploadIInv
<1> QED
  BY <1>1, InitInv, NextInv, PTL DEF Spec

\* The .info file, from which the next request goes on, never promises what the
\* .fid file does not hold, but for that interruption.
THEOREM InfoIsHonest ==
  ASSUME ~Overlap
  PROVE  Spec => []InfoHonest
<1>1. UploadIInv => InfoHonest
  BY DEF UploadIInv
<1> QED
  BY <1>1, InitInv, NextInv, PTL DEF Spec

-----------------------------------------------------------------------------
(* An upload whose digest goes back has been written since sendFile began,   *)
(* however much of it an earlier drain has left, and however requests        *)
(* overlap.                                                                  *)

\* A handler that knows so.
Touched(r) ==
    LET h == handler[r] IN
    \/ h.at \in {"created", "resetting"}
    \/ h.at = "ready" /\ h.offset = Size
    \/ h.at \in {"written", "saving"} /\ h.end = Size
    \/ h.at = "answered" /\ h.result = "sum"

FreshInv == (info = Size \/ \E r \in Requests : Touched(r)) => fresh

LEMMA FreshInit == Init => FreshInv
<1> SUFFICES ASSUME Init PROVE FreshInv
  OBVIOUS
<1>1. info # Size
  <2>1. CASE info = NoInfo
    BY <2>1, UploadAssumption DEF NoInfo
  <2>2. CASE LeftByDrain
    BY <2>2, UploadAssumption DEF LeftByDrain, NoInfo, TornInfo
  <2> QED
    BY <2>1, <2>2 DEF Init
<1>2. \A r \in Requests : ~Touched(r)
  BY DEF Init, Touched, NoHandler
<1> QED
  BY <1>1, <1>2 DEF FreshInv

\* Handler r goes on and leaves the .fid file alone.
LEMMA UntouchedStep ==
  ASSUME TypeInv, FreshInv, ~fresh, NEW r \in Requests, NEW h \in Handlers,
         handler' = [handler EXCEPT ![r] = h],
         h.at \notin {"created", "resetting"},
         h.at = "ready" => h.offset # Size,
         h.at \in {"written", "saving"} => h.end # Size,
         h.at = "answered" => h.result # "sum",
         info' # Size
  PROVE  FreshInv'
<1>1. /\ handler'[r] = h
      /\ \A u \in Requests : u # r => handler'[u] = handler[u]
  BY DEF TypeInv, UploadTypeOK
<1>2. \A u \in Requests : ~Touched(u)
  BY DEF FreshInv
<1>3. \A u \in Requests : ~Touched(u)'
  BY <1>1, <1>2 DEF Touched
<1> QED
  BY <1>3 DEF FreshInv

\* A request that has been sent is not looked at yet.
LEMMA SendsBegin ==
  ASSUME TypeInv, NEW r \in Requests, Send(r) \/ SendFinish(r)
  PROVE  /\ handler'[r].at = "begin"
         /\ \A u \in Requests : u # r => handler'[u] = handler[u]
         /\ UNCHANGED Disk
<1>0. handler \in [Requests -> Handlers]
  BY DEF TypeInv, UploadTypeOK
<1>1. CASE Send(r)
  <2>1. PICK read \in chunk..ChunkEnd :
          handler' = [handler EXCEPT ![r] =
            [NoHandler EXCEPT !.at = "begin", !.offset = chunk,
                              !.body = read - chunk,
                              !.whole = (read = ChunkEnd),
                              !.last = seekable]]
    BY <1>1 DEF Send
  <2> DEFINE h == [NoHandler EXCEPT !.at = "begin", !.offset = chunk,
                                    !.body = read - chunk,
                                    !.whole = (read = ChunkEnd),
                                    !.last = seekable]
  <2>2. h.at = "begin" /\ handler' = [handler EXCEPT ![r] = h]
    BY <2>1 DEF NoHandler
  <2> HIDE DEF h
  <2> QED
    BY <1>0, <1>1, <2>2 DEF Send
<1>2. CASE SendFinish(r)
  BY <1>0, <1>2 DEF SendFinish, NoHandler
<1> QED
  BY <1>1, <1>2

\* What the client does, and a crash, leave the disk alone.
LEMMA ClientWritesNothing ==
  (ClientNext \/ SendLost \/ GiveUp \/ Abandon \/ Crash) => UNCHANGED Disk
BY DEF ClientNext, Broken, Head, Send, SendFinish, SendLost, GiveUp, Abandon, Crash

LEMMA FreshStays ==
  ASSUME TypeInv, [Next]_vars
  PROVE  fresh => fresh'
<1>1. CASE ClientNext \/ SendLost \/ GiveUp \/ Abandon \/ Crash
  <2>1. UNCHANGED Disk
    BY <1>1, ClientWritesNothing
  <2> QED
    BY <2>1 DEF Disk
<1>2. ASSUME NEW r \in Requests, HandlerNext(r) PROVE fresh => fresh'
  <2>1. CASE Create(r)
    BY <2>1 DEF Create
  <2>2. CASE Copy(r) \/ CopyToFullDisk(r)
    BY <2>2 DEF Copy, CopyToFullDisk, Written
  <2>3. CASE Check(r) \/ Refuse(r) \/ ReadInfo(r) \/ DiskFails(r) \/ Answer(r)
    BY <2>3 DEF Check, Refuse, ReadInfo, DiskFails, Answer, Disk
  <2>4. CASE ResetInfo(r) \/ InfoReset(r) \/ OpenFails(r) \/ Finish(r) \/ SaveInfo(r)
             \/ InfoSaved(r)
    BY <2>4 DEF ResetInfo, InfoReset, OpenFails, Finish, SaveInfo, InfoSaved
  <2> QED
    BY <1>2, <2>1, <2>2, <2>3, <2>4 DEF HandlerNext
<1>3. CASE UNCHANGED vars
  BY <1>3 DEF vars
<1> QED
  BY <1>1, <1>2, <1>3 DEF Next

LEMMA FreshKept ==
  ASSUME TypeInv, FreshInv, [Next]_vars
  PROVE  FreshInv'
<1> SUFFICES ASSUME ~fresh' PROVE FreshInv'
  BY DEF FreshInv
<1>1. ~fresh /\ info # Size /\ \A r \in Requests : ~Touched(r)
  BY FreshStays DEF FreshInv
<1>2. CASE \/ SendLost \/ GiveUp \/ Broken \/ Head \/ Abandon \/ UNCHANGED vars
  <2>1. handler' = handler /\ info' = info
    BY <1>2 DEF SendLost, GiveUp, Broken, Head, Abandon, Disk, vars
  <2>2. \A r \in Requests : ~Touched(r)'
    BY <1>1, <2>1 DEF Touched
  <2> QED
    BY <1>1, <2>1, <2>2 DEF FreshInv
<1>3. CASE Crash
  <2>1. handler' = [r \in Requests |-> NoHandler] /\ info' = info
    BY <1>3 DEF Crash, Disk
  <2>2. \A r \in Requests : ~Touched(r)'
    BY <2>1 DEF Touched, NoHandler
  <2> QED
    BY <1>1, <2>1, <2>2 DEF FreshInv
<1>4. ASSUME NEW r \in Requests, Send(r) \/ SendFinish(r) PROVE FreshInv'
  <2>1. /\ handler'[r].at = "begin" /\ info' = info
        /\ \A u \in Requests : u # r => handler'[u] = handler[u]
    BY <1>4, SendsBegin DEF Disk
  <2>2. \A u \in Requests : ~Touched(u)'
    BY <1>1, <2>1 DEF Touched
  <2> QED
    BY <1>1, <2>1, <2>2 DEF FreshInv
<1>5. ASSUME NEW r \in Requests, HandlerNext(r) PROVE FreshInv'
  <2>0. handler[r] \in Handlers /\ handler \in [Requests -> Handlers]
    BY DEF TypeInv, UploadTypeOK
  <2>1. CASE Check(r)
    <3> DEFINE h == [handler[r] EXCEPT !.at = "checked"]
    <3>1. handler' = [handler EXCEPT ![r] = h] /\ info' = info
      BY <2>0, <2>1 DEF Check, Step, Disk
    <3>2. h \in Handlers /\ h.at = "checked"
      BY <2>0 DEF Handlers, HandlerSteps
    <3> HIDE DEF h
    <3> QED
      BY <1>1, <3>1, <3>2, UntouchedStep
  <2>2. CASE Refuse(r) \/ DiskFails(r) \/ OpenFails(r)
             \/ (ReadInfo(r) /\ ReadOffset # handler[r].offset)
    <3>1. PICK result \in {"refused", "error"} :
            /\ handler' = [handler EXCEPT ![r].at = "answered", ![r].result = result]
            /\ info' = info \/ info' = NoInfo
      BY <2>2 DEF Refuse, DiskFails, OpenFails, ReadInfo, Reply, Disk
    <3> DEFINE h == [handler[r] EXCEPT !.at = "answered", !.result = result]
    <3>2. handler' = [handler EXCEPT ![r] = h]
      BY <2>0, <3>1
    <3>3. h \in Handlers /\ h.at = "answered" /\ h.result # "sum"
      BY <2>0 DEF Handlers, HandlerSteps, Results
    <3>4. info' # Size
      BY <1>1, <3>1, UploadAssumption DEF NoInfo
    <3> HIDE DEF h
    <3> QED
      BY <1>1, <3>2, <3>3, <3>4, UntouchedStep
  <2>3. CASE ReadInfo(r) /\ ReadOffset = handler[r].offset
    <3> DEFINE h == [handler[r] EXCEPT !.at = "ready", !.summed = summed]
    <3>1. handler' = [handler EXCEPT ![r] = h] /\ info' = info
      BY <2>0, <2>3 DEF ReadInfo, Disk
    <3>2. handler[r].offset # Size
      BY <1>1, <2>0, <2>3, UploadAssumption DEF ReadInfo, ReadOffset, Handlers
    <3>3. summed \in BOOLEAN
      BY DEF TypeInv, UploadTypeOK
    <3>4. h \in Handlers /\ h.at = "ready" /\ h.offset = handler[r].offset
      BY <2>0, <3>3 DEF Handlers, HandlerSteps
    <3> HIDE DEF h
    <3> QED
      BY <1>1, <3>1, <3>2, <3>4, UntouchedStep
  <2>4. CASE Copy(r) \/ CopyToFullDisk(r)
    <3>1. PICK n \in 0..handler[r].body, seen \in BOOLEAN :
            Written(r, n) /\ Copied(r, n, seen)
      BY <2>4 DEF Copy, CopyToFullDisk
    <3>2. handler[r].at = "ready" /\ info' = info
      BY <2>4 DEF Copy, CopyToFullDisk
    <3>3. n = 0
      <4>1. ~(n > 0)
        BY <3>1, Zenon DEF Written
      <4> QED
        BY <2>0, <4>1 DEF Handlers
    <3>4. handler[r].offset # Size
      BY <1>1, <3>2 DEF Touched
    <3> DEFINE h == [handler[r] EXCEPT !.at = "written", !.end = handler[r].offset + n,
                                       !.summed = @ /\ seen]
    <3>5. handler' = [handler EXCEPT ![r] = h]
      BY <2>0, <3>1 DEF Copied
    <3>6. (handler[r].summed /\ seen) \in BOOLEAN /\ handler[r].offset + n = handler[r].offset
      BY <2>0, <3>3, UploadAssumption DEF Handlers
    <3>7. h \in Handlers /\ h.at = "written" /\ h.end = handler[r].offset
      BY <2>0, <3>6 DEF Handlers, HandlerSteps
    <3> HIDE DEF h
    <3> QED
      BY <1>1, <3>2, <3>4, <3>5, <3>7, UntouchedStep
  <2>5. CASE SaveInfo(r)
    <3> DEFINE h == [handler[r] EXCEPT !.at = "saving"]
    <3>1. /\ handler[r].at = "written" /\ info' = TornInfo
          /\ handler' = [handler EXCEPT ![r] = h]
      BY <2>0, <2>5 DEF SaveInfo, Step
    <3>2. handler[r].end # Size /\ info' # Size
      BY <1>1, <3>1, UploadAssumption DEF Touched, TornInfo
    <3>3. h \in Handlers /\ h.at = "saving" /\ h.end = handler[r].end
      BY <2>0 DEF Handlers, HandlerSteps
    <3> HIDE DEF h
    <3> QED
      BY <1>1, <3>1, <3>2, <3>3, UntouchedStep
  <2>6. CASE InfoSaved(r)
    <3> DEFINE h == [handler[r] EXCEPT !.at = "answered", !.result = "ok"]
    <3>1. /\ handler[r].at = "saving" /\ info' = handler[r].end
          /\ handler' = [handler EXCEPT ![r] = h]
      BY <2>0, <2>6 DEF InfoSaved, Reply
    <3>2. handler[r].end # Size
      BY <1>1, <3>1 DEF Touched
    <3>3. h \in Handlers /\ h.at = "answered" /\ h.result = "ok"
      BY <2>0 DEF Handlers, HandlerSteps, Results
    <3> HIDE DEF h
    <3> QED
      BY <1>1, <3>1, <3>2, <3>3, UntouchedStep
  <2>7. CASE Answer(r)
    <3>1. handler' = [handler EXCEPT ![r] = NoHandler] /\ info' = info
      BY <2>7 DEF Answer, Disk
    <3>2. NoHandler.at = "none"
      BY DEF NoHandler
    <3> QED
      BY <1>1, <3>1, <3>2, NoHandlerType, UntouchedStep
  <2>8. CASE Create(r) \/ ResetInfo(r) \/ InfoReset(r) \/ Finish(r)
    BY <1>1, <2>8 DEF Create, ResetInfo, InfoReset, Finish, Reply, Step, Touched
  <2> QED
    BY <1>5, <2>1, <2>2, <2>3, <2>4, <2>5, <2>6, <2>7, <2>8 DEF HandlerNext
<1> QED
  BY <1>2, <1>3, <1>4, <1>5 DEF Next, ClientNext

-----------------------------------------------------------------------------
(* What module Efes sees of a step. *)

Ended == client \in {"failed", "done"}

\* The steps at which a handler may still write.
Work == HandlerSteps \ {"none", "begin", "answered"}

AnyAt(steps) == \E r \in Requests : handler[r].at \in steps

\* A step that writes the .fid file, and one that does not.
Writes == CopyOnDisk' \in {"partial", "full"} /\ AgedCopies' = {} /\ fresh'
Leaves == UNCHANGED <<CopyOnDisk, AgedCopies, fresh>>

LEMMA LeavesTheDisk == UNCHANGED Disk => Leaves
BY DEF Disk, Leaves, CopyOnDisk, AgedCopies, Units

\* Only a handler at work writes, and it is at work afterwards.
LEMMA HandlerWrites ==
  ASSUME TypeInv, NEW r \in Requests, HandlerNext(r)
  PROVE  \/ Leaves
         \/ Writes /\ AnyAt(Work) /\ AnyAt(Work)' /\ client' = client
<1>0. handler \in [Requests -> Handlers] /\ handler[r] \in Handlers
  BY DEF TypeInv, UploadTypeOK
<1>1. CASE Create(r)
  <2>1. Writes
    BY <1>1 DEF Create, Writes, CopyOnDisk, AgedCopies
  <2>2. handler[r].at = "checked" /\ handler'[r].at = "created" /\ client' = client
    BY <1>0, <1>1 DEF Create, Step, ClientVars, Handlers
  <2> QED
    BY <2>1, <2>2 DEF AnyAt, Work, HandlerSteps
<1>2. CASE Copy(r) \/ CopyToFullDisk(r)
  <2>1. PICK n \in 0..handler[r].body, seen \in BOOLEAN :
          Written(r, n) /\ Copied(r, n, seen)
    BY <1>2 DEF Copy, CopyToFullDisk
  <2>2. /\ handler[r].at = "ready" /\ handler'[r].at = "written"
        /\ exists /\ exists' = exists /\ client' = client
    BY <1>0, <1>2, <2>1 DEF Copy, CopyToFullDisk, Copied, ClientVars, Handlers
  <2>3. CASE n = 0
    <3>1. Covered(r, n) = {}
      BY <1>0, <2>3 DEF Covered, Units, Handlers
    <3>2. data' = data
      BY <2>1, <3>1 DEF Written
    <3>3. fresh' = fresh
      <4>1. fresh \in BOOLEAN /\ ~(n > 0)
        BY <2>3 DEF TypeInv, UploadTypeOK
      <4> QED
        BY <2>1, <4>1, Zenon DEF Written
    <3> QED
      BY <2>2, <3>2, <3>3 DEF Leaves, CopyOnDisk, AgedCopies, Units
  <2>4. CASE n # 0
    <3>1. fresh'
      <4>1. n > 0
        BY <1>0, <2>4 DEF Handlers
      <4> QED
        BY <2>1, <4>1, Zenon DEF Written
    <3>2. Writes
      BY <2>2, <3>1 DEF Writes, CopyOnDisk, AgedCopies
    <3> QED
      BY <2>2, <3>2 DEF AnyAt, Work, HandlerSteps
  <2> QED
    BY <2>3, <2>4
<1>3. CASE Check(r) \/ Refuse(r) \/ ReadInfo(r) \/ DiskFails(r) \/ Answer(r)
  <2>1. UNCHANGED Disk
    BY <1>3 DEF Check, Refuse, ReadInfo, DiskFails, Answer
  <2> QED
    BY <2>1, LeavesTheDisk
<1>4. CASE \/ ResetInfo(r) \/ InfoReset(r) \/ OpenFails(r) \/ Finish(r)
           \/ SaveInfo(r) \/ InfoSaved(r)
  <2>1. UNCHANGED <<exists, data, fresh>>
    BY <1>4 DEF ResetInfo, InfoReset, OpenFails, Finish, SaveInfo, InfoSaved
  <2> QED
    BY <2>1 DEF Leaves, CopyOnDisk, AgedCopies, Units
<1> QED
  BY <1>1, <1>2, <1>3, <1>4 DEF HandlerNext

LEMMA StepWrites ==
  ASSUME TypeInv, [Next]_vars
  PROVE  \/ Leaves
         \/ Writes /\ AnyAt(Work) /\ AnyAt(Work)' /\ client' = client
<1>1. CASE ClientNext \/ SendLost \/ GiveUp \/ Abandon \/ Crash
  BY <1>1, ClientWritesNothing, LeavesTheDisk
<1>2. CASE UNCHANGED vars
  BY <1>2, LeavesTheDisk DEF vars, Disk
<1> QED
  BY <1>1, <1>2, HandlerWrites DEF Next

LEMMA HandlerKeepsClient ==
  ASSUME NEW r \in Requests, HandlerNext(r), ~Answer(r)
  PROVE  client' = client
BY DEF HandlerNext, Check, Create, ResetInfo, InfoReset, ReadInfo, OpenFails, Refuse,
       DiskFails, CopyToFullDisk, Copy, Finish, SaveInfo, InfoSaved, Step, Reply,
       ClientVars

\* A handler that has ended begins nothing.
LEMMA HandlerGoesOn ==
  ASSUME TypeInv, NEW r \in Requests, HandlerNext(r)
  PROVE  /\ handler'[r].at \notin {"none", "answered"} =>
              handler[r].at \notin {"none", "answered"}
         /\ \A u \in Requests : u # r => handler'[u] = handler[u]
<1>1. CASE Answer(r)
  BY <1>1 DEF Answer, NoHandler, TypeInv, UploadTypeOK
<1>2. CASE ~Answer(r)
  <2>1. PICK at \in HandlerSteps, end \in 0..Size, seen \in BOOLEAN, result \in Results :
          /\ handler' = [handler EXCEPT ![r].at = at, ![r].end = end,
                                        ![r].summed = seen, ![r].result = result]
          /\ info' \in {info, 0, NoInfo, TornInfo, end}
    BY <1>2, HandlerNextShape
  <2>2. \A u \in Requests : u # r => handler'[u] = handler[u]
    BY <2>1 DEF TypeInv, UploadTypeOK
  <2>3. handler[r].at \notin {"none", "answered"}
    BY <1>2 DEF HandlerNext, Check, Create, ResetInfo, InfoReset, ReadInfo, OpenFails,
                Refuse, DiskFails, CopyToFullDisk, Copy, Finish, SaveInfo, InfoSaved,
                Step, Reply
  <2> QED
    BY <2>2, <2>3
<1> QED
  BY <1>1, <1>2

\* When sendFile has returned, it does not go on.
LEMMA EndedStays ==
  ASSUME TypeInv, [Next]_vars, Ended
  PROVE  /\ client' = client
         /\ AnyAt(HandlerSteps \ {"none", "answered"})'
              => AnyAt(HandlerSteps \ {"none", "answered"})
<1>1. CASE UNCHANGED vars
  BY <1>1 DEF vars, AnyAt
<1>2. CASE Crash
  BY <1>2 DEF Crash, ClientVars, AnyAt, NoHandler
<1>3. ~(ClientNext \/ SendLost \/ GiveUp \/ Abandon)
  BY DEF Ended, ClientNext, Broken, Head, Send, SendFinish, SendLost, GiveUp, Abandon
<1>4. ASSUME NEW r \in Requests, HandlerNext(r)
      PROVE  /\ client' = client
             /\ AnyAt(HandlerSteps \ {"none", "answered"})'
                  => AnyAt(HandlerSteps \ {"none", "answered"})
  <2>1. client' = client
    <3>1. CASE Answer(r)
      BY <3>1 DEF Answer, Ended
    <3> QED
      BY <1>4, <3>1, HandlerKeepsClient
  <2>2. \A u \in Requests : handler'[u].at \in HandlerSteps \ {"none", "answered"} =>
                              handler[u].at \in HandlerSteps \ {"none", "answered"}
    BY <1>4, HandlerGoesOn DEF TypeInv, UploadTypeOK, Handlers
  <2> QED
    BY <2>1, <2>2 DEF AnyAt
<1> QED
  BY <1>1, <1>2, <1>3, <1>4 DEF Next

\* sendFile returns when it gives up, or by the answer to its last request.
LEMMA Ends ==
  ASSUME TypeInv, [Next]_vars, ~Ended, Ended'
  PROVE  /\ Leaves /\ UNCHANGED Disk
         /\ AnyAt(Work)' => AnyAt(Work)
         /\ client' = "done" =>
              /\ client = "waiting"
              /\ handler[request].at = "answered" /\ handler[request].result = "sum"
<1>1. CASE Abandon
  BY <1>1, LeavesTheDisk DEF Abandon, AnyAt
<1>2. ASSUME NEW r \in Requests, Answer(r)
      PROVE  /\ UNCHANGED Disk
             /\ AnyAt(Work)' => AnyAt(Work)
             /\ client' = "done" =>
                  /\ client = "waiting"
                  /\ handler[request].at = "answered" /\ handler[request].result = "sum"
  <2>1. handler' = [handler EXCEPT ![r] = NoHandler] /\ UNCHANGED Disk
    BY <1>2 DEF Answer
  <2>2. \A u \in Requests : handler'[u].at \in Work => handler[u].at \in Work
    BY <2>1 DEF TypeInv, UploadTypeOK, NoHandler, Work
  <2>3. client' = "done" => /\ client = "waiting" /\ request = r
                           /\ handler[r].at = "answered" /\ handler[r].result = "sum"
    BY <1>2 DEF Answer, AfterAnswer, Ended
  <2> QED
    BY <2>1, <2>2, <2>3 DEF AnyAt
<1>3. ~(ClientNext \/ SendLost \/ GiveUp \/ Crash \/ UNCHANGED vars)
  BY DEF Ended, ClientNext, Broken, Head, Send, SendFinish, SendLost, GiveUp, Crash,
         ClientVars, vars
<1>4. \A r \in Requests : HandlerNext(r) => Answer(r)
  BY HandlerKeepsClient DEF Ended
<1> QED
  BY <1>1, <1>2, <1>3, <1>4, LeavesTheDisk DEF Next

\* The digest goes back only for a file that was written and, when requests do not
\* overlap and createFile was not torn, is complete.  Then no handler is left.
LEMMA SumIsFull ==
  ASSUME FreshInv, request \in Requests,
         handler[request].at = "answered", handler[request].result = "sum"
  PROVE  /\ fresh /\ AgedCopies = {}
         /\ UploadIInv /\ ~torn => CopyOnDisk = "full"
<1>1. fresh
  BY Zenon DEF FreshInv, Touched
<1>2. UploadIInv /\ ~torn => exists /\ data = Units
  BY DEF UploadIInv, HandlerInv
<1> QED
  BY <1>1, <1>2 DEF CopyOnDisk, AgedCopies

LEMMA DoneAlone ==
  UploadIInv /\ client = "done" =>
    ~AnyAt(Work) /\ ~AnyAt(HandlerSteps \ {"none", "answered"})
BY DEF UploadIInv, OneHandler, AnyAt, Work

-----------------------------------------------------------------------------
(* What module Efes sees of an upload. *)

SeenAs ==
  /\ client = "failed" => UploadStep = "none"
  /\ client = "done" => UploadStep = "sent"
  /\ ~Ended => UploadStep \in {"checked", "sending"} /\ StrayUpload = {}
  /\ ~Ended /\ AnyAt(Work) => UploadStep = "checked"
  /\ Ended => StrayUpload = IF AnyAt(Work) THEN {ThisCopy} ELSE {}

LEMMA SeenStep == SeenAs
BY DEF SeenAs, Ended, UploadStep, StrayUpload, LeftAt, AnyAt, Work, Saving

LEMMA EfesChecks ==
  ASSUME UploadStep = "sending", UploadStep' = "checked", Leaves,
         StrayUpload' = StrayUpload
  PROVE  System!PatchCheck(ThisCopy)
BY DEF Leaves, System!PatchCheck, System!HasTempfile, System!metaVars, ThisCopy

LEMMA EfesSaves ==
  ASSUME UploadStep = "checked", StrayUpload = {},
         \/ /\ Writes /\ UploadStep' \in {"checked", "sending"}
            /\ StrayUpload' = {}
         \/ Leaves /\ UploadStep' = "sending" /\ StrayUpload' = {}
         \/ /\ Leaves /\ CopyOnDisk = "full" /\ AgedCopies = {}
            /\ UploadStep' = "sent" /\ StrayUpload' = {}
         \/ /\ Overlap /\ Leaves /\ UploadStep' = "sent"
            /\ StrayUpload' \in {{}, {ThisCopy}}
  PROVE  System!PatchSave(ThisCopy)
<1>1. CASE Writes /\ UploadStep' \in {"checked", "sending"} /\ StrayUpload' = {}
  BY <1>1 DEF Writes, AgedCopies, System!PatchSave, System!WriteCopy,
              System!LeaveStray, System!metaVars, ThisCopy
<1>2. CASE Leaves /\ UploadStep' = "sending" /\ StrayUpload' = {}
  BY <1>2 DEF Leaves, System!PatchSave, System!LeaveStray, System!metaVars, ThisCopy
<1>3. CASE /\ Leaves /\ CopyOnDisk = "full" /\ AgedCopies = {}
           /\ UploadStep' = "sent" /\ StrayUpload' = {}
  BY <1>3 DEF Leaves, System!PatchSave, System!WriteCopy, System!LeaveStray,
              System!metaVars, ThisCopy
<1>4. CASE /\ Overlap /\ Leaves /\ UploadStep' = "sent"
           /\ StrayUpload' \in {{}, {ThisCopy}}
  BY <1>4 DEF Leaves, System!PatchSave, System!LeaveStray, System!metaVars, ThisCopy
<1> QED
  BY <1>1, <1>2, <1>3, <1>4

LEMMA EfesAbandons ==
  ASSUME UploadStep \in {"sending", "checked"}, UploadStep' = "none", Leaves,
         StrayUpload = {},
         \/ StrayUpload' = {}
         \/ StrayUpload' = {ThisCopy} /\ UploadStep = "checked"
  PROVE  System!Abandon(ThisCopy)
BY DEF Leaves, System!Abandon, System!LeaveStray, System!metaVars, ThisCopy

LEMMA EfesSavesLate ==
  ASSUME UploadStep' = UploadStep, StrayUpload = {ThisCopy},
         StrayUpload' \in {{}, {ThisCopy}}, Writes \/ Leaves
  PROVE  System!LateSave(ThisCopy)
BY DEF Writes, Leaves, AgedCopies, System!LateSave, System!WriteCopy,
       System!metaVars, ThisCopy

LEMMA EfesChecksLate ==
  ASSUME UploadStep' = UploadStep,
         UploadStep = "none" \/ (Overlap /\ UploadStep = "sent"),
         StrayUpload = {}, StrayUpload' = {ThisCopy}, Leaves
  PROVE  System!LateCheck(ThisCopy)
BY DEF Leaves, System!LateCheck, System!metaVars, ThisCopy

LEMMA UploadSeen ==
  ASSUME TypeInv, FreshInv, [Next]_vars, ~Overlap => UploadIInv /\ UploadIInv',
         ~drains
  PROVE  \/ UNCHANGED <<CopyOnDisk, AgedCopies, UploadStep, StrayUpload>>
         \/ System!PatchCheck(ThisCopy) \/ System!PatchSave(ThisCopy)
         \/ System!Abandon(ThisCopy)
         \/ System!LateCheck(ThisCopy) \/ System!LateSave(ThisCopy)
<1>0. SeenAs /\ SeenAs'
  BY SeenStep, PTL
<1>1. CASE Ended
  <2>1. client' = client
    BY <1>1, EndedStays
  <2>2. /\ Ended' /\ UploadStep' = UploadStep
        /\ UploadStep = "none" \/ (UploadStep = "sent" /\ client = "done")
    BY <1>0, <1>1, <2>1 DEF Ended, SeenAs
  <2>3. CASE AnyAt(Work)
    BY <1>0, <1>1, <2>2, <2>3, StepWrites, EfesSavesLate DEF SeenAs
  <2>4. CASE ~AnyAt(Work)
    <3>1. Leaves /\ StrayUpload = {}
      BY <1>1, <2>4, StepWrites, <1>0 DEF SeenAs
    <3>2. CASE ~AnyAt(Work)'
      BY <1>0, <2>2, <3>1, <3>2 DEF SeenAs, Leaves
    <3>3. CASE AnyAt(Work)'
      <4>1. client = "done" => Overlap
        <5>1. SUFFICES ASSUME ~Overlap, client' = "done" PROVE FALSE
          BY <2>1
        <5>2. (UploadIInv /\ client = "done" => ~AnyAt(Work))'
          BY DoneAlone, PTL
        <5> QED
          BY <3>3, <5>1, <5>2
      <4> QED
        BY <1>0, <2>2, <3>1, <3>3, <4>1, EfesChecksLate DEF SeenAs
    <3> QED
      BY <3>2, <3>3
  <2> QED
    BY <2>3, <2>4
<1>2. CASE ~Ended /\ ~Ended'
  <2>1. /\ UploadStep \in {"checked", "sending"} /\ StrayUpload = {}
        /\ UploadStep' \in {"checked", "sending"} /\ StrayUpload' = {}
    BY <1>0, <1>2 DEF SeenAs
  <2>2. CASE Leaves
    BY <2>1, <2>2, EfesChecks, EfesSaves DEF Leaves
  <2>3. CASE Writes /\ AnyAt(Work) /\ AnyAt(Work)'
    BY <1>2, <2>1, <2>3, <1>0, EfesSaves DEF SeenAs
  <2> QED
    BY <2>2, <2>3, StepWrites
<1>3. CASE ~Ended /\ client' = "failed"
  <2>1. Leaves /\ (AnyAt(Work)' => AnyAt(Work)) /\ Ended'
    BY <1>3, Ends DEF Ended
  <2> QED
    BY <1>0, <1>3, <2>1, EfesAbandons DEF SeenAs
<1>4. CASE ~Ended /\ client' = "done"
  <2>1. /\ Ended' /\ Leaves /\ UNCHANGED Disk /\ client = "waiting"
        /\ handler[request].at = "answered" /\ handler[request].result = "sum"
    BY <1>4, Ends DEF Ended
  <2>2. request \in Requests
    BY DEF TypeInv, UploadTypeOK
  <2>3. UploadStep = "checked" /\ StrayUpload = {}
    BY <1>4, <2>1, <2>2, <1>0 DEF SeenAs, UploadStep, Saving
  <2>4. UploadStep' = "sent" /\ StrayUpload' \in {{}, {ThisCopy}}
    BY <1>0, <1>4, <2>1 DEF SeenAs
  <2>5. CASE Overlap
    BY <2>1, <2>3, <2>4, <2>5, EfesSaves
  <2>6. CASE ~Overlap
    <3>0. ~torn
      BY <2>6 DEF UploadIInv, ClientInv
    <3>1. CopyOnDisk = "full" /\ AgedCopies = {}
      BY <2>1, <2>2, <2>6, <3>0, SumIsFull
    <3>2. StrayUpload' = {}
      <4>1. (UploadIInv /\ client = "done" => ~AnyAt(Work))'
        BY DoneAlone, PTL
      <4> QED
        BY <1>0, <1>4, <2>1, <2>6, <4>1 DEF SeenAs
    <3> QED
      BY <2>1, <2>3, <2>4, <3>1, <3>2, EfesSaves
  <2> QED
    BY <2>5, <2>6
<1> QED
  BY <1>1, <1>2, <1>3, <1>4 DEF Ended

\* All that holds of an upload, whether requests overlap or not.
SeenInv == TypeInv /\ FreshInv /\ (~Overlap => UploadIInv)

LEMMA SeenInvariant == Spec => []SeenInv
<1>1. Init => SeenInv
  BY TypeInit, FreshInit, InitInv DEF SeenInv
<1>2. SeenInv /\ [Next]_vars => SeenInv'
  <2> SUFFICES ASSUME SeenInv, [Next]_vars PROVE SeenInv'
    OBVIOUS
  <2>1. TypeInv' /\ FreshInv'
    BY NextType, FreshKept DEF SeenInv
  <2>2. ~Overlap => UploadIInv'
    BY NextInv DEF SeenInv
  <2> QED
    BY <2>1, <2>2 DEF SeenInv
<1> QED
  BY <1>1, <1>2, PTL DEF Spec

\* To module Efes, a client's upload is what its actions PatchCheck, PatchSave and
\* Abandon say, and LateCheck and LateSave when the client has gone: no crash, lost
\* answer, resumed or overlapping request or full disk makes the server write, or
\* the client believe, anything else.
THEOREM UploadIsAsInEfes == Spec => SavesAsInEfes
<1> DEFINE A == ~drains => \/ System!PatchCheck(ThisCopy) \/ System!PatchSave(ThisCopy)
                           \/ System!Abandon(ThisCopy)
                           \/ System!LateCheck(ThisCopy) \/ System!LateSave(ThisCopy)
<1>1. SeenInv /\ SeenInv' /\ [Next]_vars
        => [A]_<<CopyOnDisk, AgedCopies, UploadStep, StrayUpload>>
  BY UploadSeen DEF SeenInv
<1> QED
  BY <1>1, SeenInvariant, PTL DEF Spec, SavesAsInEfes

-----------------------------------------------------------------------------
(* What module Efes sees of a drain. *)

SeenDrainAs ==
  /\ ~Ended => /\ StrayDrain = {}
               /\ Drain!DrainTarget("source") = ThisCopy
               /\ Drain!DrainSource("source") = SourceCopy
               /\ DrainerState = [at |-> IF fresh THEN "sending" ELSE "opened",
                                  todo |-> {}, fid |-> 1, dest |-> "device"]
  /\ Ended => StrayDrain = IF AnyAt(HandlerSteps \ {"none", "answered"})
                             THEN {ThisCopy} ELSE {}

LEMMA SeenDrain == SeenDrainAs
BY DEF SeenDrainAs, Ended, StrayDrain, LeftAt, AnyAt, DrainerState, Drain!DrainTarget,
       Drain!DrainSource, ThisCopy, SourceCopy

LEMMA DrainWrites ==
  ASSUME ~Ended, ~Ended', client' = client, Writes
  PROVE  Drain!DrainWrite("source")
<1>1. ThisCopy # SourceCopy
  BY DEF ThisCopy, SourceCopy
<1>2. /\ DrainerState.at \in {"opened", "sending"}
      /\ DrainerState.fid = 1 /\ DrainerState.dest = "device"
      /\ DrainerState.todo = {}
      /\ DrainerState' = [DrainerState EXCEPT !.at = "sending"]
  BY DEF DrainerState, Ended, Writes
<1>3. Drain!DrainedContents("source") = "full"
  BY <1>1, SeenDrain DEF SeenDrainAs, Drain!DrainedContents
<1>4. Drain!DrainTarget("source") = ThisCopy /\ StrayDrain = {} /\ StrayDrain' = {}
  BY SeenDrain DEF SeenDrainAs, StrayDrain, LeftAt, Ended
<1>5. PICK content \in {"partial", "full"} : CopyOnDisk' = content
  BY DEF Writes
<1>6. Drain!WriteCopy(ThisCopy, content)
  <2>1. AgedCopies' = AgedCopies \ {ThisCopy}
    BY DEF Writes, AgedCopies
  <2> QED
    BY <1>1, <1>5, <2>1 DEF Drain!WriteCopy
<1>7. Drain!VisitsApart(ThisCopy)
  BY DEF Drain!VisitsApart
<1>8. Drain!DrainStep("source", [DrainerState EXCEPT !.at = "sending"])
  BY <1>2 DEF Drain!DrainStep
<1> QED
  BY <1>2, <1>3, <1>4, <1>5, <1>6, <1>7, <1>8 DEF Drain!DrainWrite, Drain!metaVars

\* sendFile returns without an error.
LEMMA DrainAccepts ==
  ASSUME ~Ended, fresh, client' = "done", StrayDrain' \in {{}, {ThisCopy}},
         ~Overlap => StrayDrain' = {}
  PROVE  Drain!DrainAccept("source")
<1>1. /\ DrainerState.at = "sending"
      /\ DrainerState' = [DrainerState EXCEPT !.at = "sent"]
  BY DEF DrainerState, Ended
<1>2. Drain!DrainStep("source", [DrainerState EXCEPT !.at = "sent"])
  BY <1>1 DEF Drain!DrainStep
<1>3. Drain!LeaveStray(ThisCopy, Overlap)
  BY SeenDrain DEF SeenDrainAs, Drain!LeaveStray
<1> QED
  BY <1>1, <1>2, <1>3, SeenDrain DEF SeenDrainAs, Drain!DrainAccept, Drain!metaVars

LEMMA DrainSents ==
  ASSUME ~Ended, Drain!DrainAccept("source"), Leaves, CopyOnDisk = "full",
         AgedCopies = {}
  PROVE  Drain!DrainSent("source")
<1>1. ThisCopy # SourceCopy
  BY DEF ThisCopy, SourceCopy
<1>2. Drain!DrainedContents("source") = "full"
  BY <1>1, SeenDrain DEF SeenDrainAs, Drain!DrainedContents
<1>3. Drain!WriteCopy(Drain!DrainTarget("source"), Drain!DrainedContents("source"))
  BY <1>1, <1>2, SeenDrain DEF SeenDrainAs, Drain!WriteCopy, Leaves
<1> QED
  BY <1>3 DEF Drain!DrainSent

LEMMA DrainErrors ==
  ASSUME ~Ended, Leaves, client' = "failed", StrayDrain' \in {{}, {ThisCopy}}
  PROVE  Drain!DrainError("source")
<1>1. /\ DrainerState.at \in {"opened", "sending"} /\ DrainerState.todo = {}
      /\ DrainerState' = [at |-> "loop", todo |-> {}, fid |-> 0, dest |-> "source"]
  BY DEF DrainerState, Ended
<1> DEFINE idle == [at |-> "off", todo |-> {}, fid |-> 0, dest |-> "source"]
<1>2. Drain!DrainNext("source") = DrainerState'
  <2>1. Drain!DrainNext("source") = [idle EXCEPT !.at = "loop", !.todo = {}]
    BY <1>1 DEF Drain!DrainNext, Drain!DrainIdle
  <2>2. [idle EXCEPT !.at = "loop", !.todo = {}]
          = [at |-> "loop", todo |-> {}, fid |-> 0, dest |-> "source"]
    <3>1. [idle EXCEPT !.at = "loop"]
            = [at |-> "loop", todo |-> {}, fid |-> 0, dest |-> "source"]
      OBVIOUS
    <3>2. [[at |-> "loop", todo |-> {}, fid |-> 0, dest |-> "source"] EXCEPT !.todo = {}]
            = [at |-> "loop", todo |-> {}, fid |-> 0, dest |-> "source"]
      OBVIOUS
    <3> QED
      BY <3>1, <3>2
  <2> QED
    BY <1>1, <2>1, <2>2, Zenon
<1>3. Drain!DrainStep("source", Drain!DrainNext("source"))
  BY <1>2 DEF Drain!DrainStep
<1>4. Drain!DrainLeaves("source")
  BY <1>1, SeenDrain DEF SeenDrainAs, Drain!DrainLeaves, Drain!LeaveStray
<1> QED
  BY <1>1, <1>3, <1>4 DEF Drain!DrainError, Drain!metaVars, Leaves

LEMMA DrainSavesLate ==
  ASSUME DrainerState' = DrainerState, StrayDrain = {ThisCopy},
         StrayDrain' \in {{}, {ThisCopy}}, Writes \/ Leaves
  PROVE  Drain!LateSave(ThisCopy)
<1>1. ThisCopy # SourceCopy
  BY DEF ThisCopy, SourceCopy
<1>2. CASE Leaves
  BY <1>2 DEF Leaves, Drain!LateSave, Drain!metaVars
<1>3. CASE Writes
  <2>1. PICK content \in {"partial", "full"} : CopyOnDisk' = content
    BY <1>3 DEF Writes
  <2>2. AgedCopies' = AgedCopies \ {ThisCopy}
    BY <1>3 DEF Writes, AgedCopies
  <2>3. Drain!WriteCopy(ThisCopy, content)
    BY <1>1, <2>1, <2>2 DEF Drain!WriteCopy
  <2> QED
    BY <2>3 DEF Drain!LateSave, Drain!metaVars
<1> QED
  BY <1>2, <1>3

LEMMA DrainSeen ==
  ASSUME TypeInv, FreshInv, [Next]_vars, ~Overlap => UploadIInv /\ UploadIInv'
  PROVE  \/ UNCHANGED <<CopyOnDisk, AgedCopies, DrainerState, StrayDrain>>
         \/ Drain!DrainWrite("source") \/ Drain!DrainSent("source")
         \/ Drain!DrainError("source") \/ Drain!LateSave(ThisCopy)
         \/ (torn \/ Overlap) /\ Drain!DrainSentTorn("source")
<1> DEFINE Left == AnyAt(HandlerSteps \ {"none", "answered"})
<1>0. /\ ~Ended' => StrayDrain' = {}
      /\ Ended' => StrayDrain' = IF Left' THEN {ThisCopy} ELSE {}
  <2>1. SeenDrainAs'
    BY SeenDrain, PTL
  <2> QED
    BY <2>1 DEF SeenDrainAs
<1>1. CASE Ended
  <2>1. client' = client /\ (Left' => Left)
    BY <1>1, EndedStays
  <2>2. DrainerState' = DrainerState /\ Ended'
    BY <1>1, <2>1 DEF DrainerState, Ended
  <2>3. CASE Left
    BY <1>0, <1>1, <2>2, <2>3, StepWrites, SeenDrain, DrainSavesLate DEF SeenDrainAs
  <2>4. CASE ~Left
    <3>1. Leaves
      BY <2>4, StepWrites DEF AnyAt, Work
    <3> QED
      BY <1>0, <1>1, <2>1, <2>2, <2>4, <3>1, SeenDrain DEF SeenDrainAs, Leaves
  <2> QED
    BY <2>3, <2>4
<1>2. CASE ~Ended /\ ~Ended'
  <2>1. CASE Leaves
    BY <1>0, <1>2, <2>1, SeenDrain DEF SeenDrainAs, Leaves, DrainerState, Ended
  <2>2. CASE Writes /\ client' = client
    BY <1>2, <2>2, DrainWrites
  <2> QED
    BY <2>1, <2>2, StepWrites
<1>3. CASE ~Ended /\ client' = "failed"
  <2>1. Leaves /\ Ended'
    BY <1>3, Ends DEF Ended
  <2> QED
    BY <1>0, <1>3, <2>1, DrainErrors
<1>4. CASE ~Ended /\ client' = "done"
  <2>1. /\ Ended' /\ Leaves /\ UNCHANGED Disk
        /\ handler[request].at = "answered" /\ handler[request].result = "sum"
    BY <1>4, Ends DEF Ended
  <2>2. request \in Requests
    BY DEF TypeInv, UploadTypeOK
  <2>3. fresh /\ AgedCopies = {} /\ (UploadIInv /\ ~torn => CopyOnDisk = "full")
    BY <2>1, <2>2, SumIsFull
  <2>4. ~Overlap => StrayDrain' = {}
    <3>1. (UploadIInv /\ client = "done" => ~Left)'
      BY DoneAlone, PTL
    <3> QED
      BY <1>0, <1>4, <2>1, <3>1
  <2>5. Drain!DrainAccept("source")
    BY <1>0, <1>4, <2>1, <2>3, <2>4, DrainAccepts
  <2>6. CASE torn \/ Overlap
    <3>1. UNCHANGED <<[p \in {SourceCopy, ThisCopy} |->
                         IF p = ThisCopy THEN CopyOnDisk ELSE "full"], AgedCopies>>
      BY <2>1 DEF Leaves
    <3> QED
      BY <2>5, <2>6, <3>1 DEF Drain!DrainSentTorn
  <2>7. CASE ~torn /\ ~Overlap
    BY <1>4, <2>1, <2>3, <2>5, <2>7, DrainSents
  <2> QED
    BY <2>6, <2>7
<1> QED
  BY <1>1, <1>2, <1>3, <1>4 DEF Ended

\* To module Efes, sendFile is for a drainer what its actions DrainWrite, DrainSent
\* and DrainError say, and LateSave when moveFile has gone on without a handler.
\* Whatever is lost, crashes or was left by earlier drains, moveFile goes on with
\* a copy that has been written since and is complete; but for requests that
\* overlap, and for a createFile that was torn: DrainSentTorn.
THEOREM DrainsAreAsInEfes == Spec => DrainsAsInEfes
<1> DEFINE A == drains => \/ Drain!DrainWrite("source") \/ Drain!DrainSent("source")
                          \/ Drain!DrainError("source") \/ Drain!LateSave(ThisCopy)
                          \/ (torn \/ Overlap) /\ Drain!DrainSentTorn("source")
<1>1. SeenInv /\ SeenInv' /\ [Next]_vars
        => [A]_<<CopyOnDisk, AgedCopies, DrainerState, StrayDrain>>
  BY DrainSeen DEF SeenInv
<1> QED
  BY <1>1, SeenInvariant, PTL DEF Spec, DrainsAsInEfes
=============================================================================
