----------------------------- MODULE EfesProofs -----------------------------
(***************************************************************************)
(* Proofs about module Efes, for any number of devices, keys, uploads,     *)
(* drains and restarts.  First what holds at any speed: no delete task is  *)
(* ever about a live file.  Then, under the timing assumption, that no     *)
(* acknowledged file is ever lost, and what follows from it and from its   *)
(* inductive invariant: every closed file has a home and never loses the   *)
(* last one, the disk cleaner and the drainer take nothing that is needed, *)
(* and clients see the key store of KeyStore.                              *)
(***************************************************************************)
EXTENDS Efes, MetadataProofs

-----------------------------------------------------------------------------
(* The inductive invariant behind DeleteTaskSafe. *)

Dead(f) == f < nextFid /\ ~Live(f)

\* No upload is in progress under f, now or later.
Past(f) == f \in Fids /\ f < nextFid /\ ~HasTempfile(f)

\* No transaction ever gives a file a second file_on row.
OneRow == \A p, q \in fileOn : p[1] = q[1] => p = q

NoDrains == drainer = [d \in Devices |-> DrainIdle(d)]

\* Older versions put a file on several devices.  The theorems below are about
\* systems without such files, or without drains: a delete task for a replica
\* that the device cleaner has dropped names a device to which a drain may
\* bring the file back.
ReplicasStay == Legacy = 0 \/ Drainable = {}

RowsInv == IF Drainable = {} THEN NoDrains ELSE OneRow

\* The database does not name the copy, and never will.  Where nobody drains, a
\* row that is gone does not come back; a drain may bring a file that lives to
\* any device, so there the fid must be dead.
Over(p) ==
    /\ Past(p[1]) /\ p \notin fileOn
    /\ Drainable # {} => ~Closed(p[1])

\* A task outlives everything that is said about its copy.
TasksInv == \A p \in pending \cup queue : Over(p)

TasksIInv == EfesTypeOK /\ MetaInv /\ RowsInv /\ TasksInv

-----------------------------------------------------------------------------
(* Every step of the system is a transaction of module Metadata, or leaves *)
(* the tables alone.                                                       *)

LEMMA KeyHasOneFid ==
  ASSUME MetaInv, NEW k \in Keys, NEW f \in FidsOfKey(k)
  PROVE  FidsOfKey(k) = {f}
BY DEF MetaInv, SchemaOK, FidsOfKey

LEMMA NextIsTransaction ==
  ASSUME EfesTypeOK, MetaInv, [Next]_vars
  PROVE  [MetaNext]_metaVars
<1> USE DEF MetaNext
<1>1. ASSUME NEW d \in Devices, CreateOpenSelect(d) \/ CreateOpenInsert(d)
      PROVE  [MetaNext]_metaVars
  BY <1>1 DEF CreateOpenSelect, CreateOpenInsert
<1>2. ASSUME NEW k \in Keys, DeleteKey(k) PROVE [MetaNext]_metaVars
  <2>1. PICK f \in FidsOfKey(k) : TRUE
    BY <1>2 DEF DeleteKey
  <2>2. FidsOfKey(k) = {f}
    BY <2>1, KeyHasOneFid
  <2>3. f \in Fids
    BY <2>1 DEF FidsOfKey
  <2> QED
    BY <1>2, <2>2, <2>3 DEF DeleteKey
<1>3. ASSUME NEW f \in Fids, DeleteFid(f) PROVE [MetaNext]_metaVars
  BY <1>3 DEF DeleteFid
<1>4. ASSUME NEW rows \in SUBSET tempfile, RemoveOldTempfiles(rows)
      PROVE  [MetaNext]_metaVars
  BY <1>4 DEF RemoveOldTempfiles
<1>5. ASSUME NEW p \in Copies, UploadNext(p) PROVE [MetaNext]_metaVars
  <2>1. p[1] \in Fids /\ p[2] \in Devices
    BY DEF Copies
  <2> QED
    BY <1>5, <2>1 DEF UploadNext, PatchCheck, PatchSave, Abandon, CreateClose
<1>6. ASSUME NEW p \in Copies,
             LateCheck(p) \/ LateSave(p) \/ Publish(p) \/ Consume(p) \/ Age(p)
      PROVE  [MetaNext]_metaVars
  BY <1>6 DEF LateCheck, LateSave, Publish, Consume, Age
<1>7. ASSUME NEW p \in Copies, CleanerNext(p) PROVE [MetaNext]_metaVars
  <2>1. CASE CheckFidMissing(p)
    BY <2>1 DEF CheckFidMissing
  <2>2. CASE CheckFidReplicated(p)
    <3>1. RowsOf({p[1]}) \ {p} \in SUBSET fileOn
      BY DEF RowsOf
    <3> QED
      BY <2>2, <3>1 DEF CheckFidReplicated
  <2>3. CASE \/ CleanStat(p) \/ CleanQueryFileOn(p) \/ CleanQueryTempfile(p)
             \/ CleanRemove(p) \/ CleanError(p)
    BY <2>3 DEF CleanStat, CleanQueryFileOn, CleanQueryTempfile, CleanRemove,
                CleanError, VisitStep
  <2> QED
    BY <1>7, <2>1, <2>2, <2>3 DEF CleanerNext
<1>8. ASSUME NEW d \in Devices, DrainStart(d) PROVE [MetaNext]_metaVars
  BY <1>8 DEF DrainStart
<1>9. ASSUME NEW d \in Devices, ServerRestart(d) PROVE [MetaNext]_metaVars
  BY <1>9 DEF ServerRestart
<1>10. CASE UNCHANGED vars
  BY <1>10 DEF vars
<1>11. ASSUME NEW d \in Devices, DrainerNext(d) PROVE [MetaNext]_metaVars
  <2>1. CASE DrainUpdate(d)
    <3> DEFINE f == drainer[d].fid
               e == drainer[d].dest
    <3>1. MoveRow(f, d, e) /\ e \in Devices
      BY <2>1 DEF DrainUpdate, EfesTypeOK, DrainState
    <3>2. CASE f \in Fids
      BY <3>1, <3>2
    <3>3. CASE f \notin Fids
      <4>1. <<f, d>> \notin fileOn
        BY <3>3 DEF EfesTypeOK, MetaTypeOK, Copies
      <4> QED
        BY <3>1, <4>1 DEF MoveRow, metaVars
    <3> QED
      BY <3>2, <3>3
  <2>2. CASE \/ DrainList(d) \/ DrainWrite(d) \/ DrainSent(d) \/ DrainSentTorn(d)
             \/ DrainRemove(d) \/ DrainError(d) \/ DrainExit(d)
             \/ \E f \in Fids : DrainSkip(d, f) \/ \E e \in Devices : DrainOpen(d, f, e)
    BY <2>2 DEF DrainList, DrainWrite, DrainSent, DrainSentTorn, DrainAccept,
         DrainRemove, DrainError, DrainExit, DrainSkip, DrainOpen
  <2> QED
    BY <1>11, <2>1, <2>2 DEF DrainerNext
<1> QED
  BY <1>1, <1>2, <1>3, <1>4, <1>5, <1>6, <1>7, <1>8, <1>9, <1>10, <1>11 DEF Next

-----------------------------------------------------------------------------
(* Types. *)

LEMMA EfesInitType == Init => EfesTypeOK
<1> SUFFICES ASSUME Init PROVE EfesTypeOK
  OBVIOUS
<1>1. MetaTypeOK
  BY MetaInitInv DEF Init, MetaInv
<1>2. /\ drainer \in [Devices -> DrainState]
      /\ \A d \in Devices : drainer[d].at = "off"
  BY MetadataAssumption DEF Init, DrainIdle, DrainState, DrainSteps
<1> QED
  BY <1>1, <1>2, EfesAssumption
     DEF Init, EfesTypeOK, MetaTypeOK, Contents, UploadSteps, VisitSteps

\* A drain process has a file from the moment that it opens one.
HasFile(state) == state.fid = 0 => state.at \in {"off", "listing", "loop"}

LEMMA DrainerType ==
  ASSUME EfesTypeOK, NEW d \in Devices, DrainStart(d) \/ DrainerNext(d)
  PROVE  /\ drainer' \in [Devices -> DrainState]
         /\ \A e \in Devices : HasFile(drainer'[e])
<1> DEFINE Typed == /\ drainer' \in [Devices -> DrainState]
                    /\ \A e \in Devices : HasFile(drainer'[e])
<1>1. ASSUME NEW state \in DrainState, DrainStep(d, state), HasFile(state)
      PROVE  Typed
  <2>1. drainer' = [drainer EXCEPT ![d] = state]
    BY <1>1 DEF DrainStep
  <2>2. \A e \in Devices : drainer'[e] = IF e = d THEN state ELSE drainer[e]
    BY <2>1 DEF EfesTypeOK
  <2>3. \A e \in Devices : drainer[e].fid = 0 => drainer[e].at \in {"off", "listing", "loop"}
    BY DEF EfesTypeOK
  <2>4. \A e \in Devices : HasFile(drainer[e])
    BY <2>3, Zenon DEF HasFile
  <2>5. \A e \in Devices : HasFile(drainer'[e])
    BY <1>1, <2>2, <2>4, Zenon
  <2>6. drainer' \in [Devices -> DrainState]
    <3> HIDE DEF DrainState
    <3> QED
      BY <1>1, <2>1 DEF EfesTypeOK
  <2> QED
    BY <2>5, <2>6
<1>2. /\ drainer[d] \in DrainState /\ DrainIdle(d) \in DrainState
      /\ HasFile(drainer[d]) /\ HasFile(DrainIdle(d))
  BY MetadataAssumption
     DEF EfesTypeOK, DrainIdle, DrainState, DrainSteps, HasFile
<1>3. DrainNext(d) \in DrainState /\ HasFile(DrainNext(d))
  BY <1>2 DEF DrainNext, DrainState, DrainSteps, HasFile
<1>4. \A step \in DrainSteps :
        /\ [drainer[d] EXCEPT !.at = step] \in DrainState
        /\ drainer[d].at \in {"opened", "sending", "sent"}
             => HasFile([drainer[d] EXCEPT !.at = step])
  BY <1>2 DEF DrainState, HasFile
<1>5. CASE DrainStart(d)
  <2> DEFINE state == [DrainIdle(d) EXCEPT !.at = "listing"]
  <2>1. DrainStep(d, state)
    BY <1>5 DEF DrainStart
  <2>2. state \in DrainState /\ state.at = "listing"
    BY <1>2 DEF DrainState, DrainSteps
  <2> HIDE DEF state
  <2> QED
    BY <1>1, <2>1, <2>2 DEF HasFile
<1>10. CASE DrainList(d)
  <2> DEFINE fids == {f \in Fids : <<f, d>> \in fileOn}
             state == [DrainIdle(d) EXCEPT !.at = "loop", !.todo = fids]
  <2>1. DrainStep(d, state)
    BY <1>10 DEF DrainList
  <2>2. fids \in SUBSET Fids
    OBVIOUS
  <2> HIDE DEF fids
  <2>3. state \in DrainState /\ state.at = "loop"
    BY <1>2, <2>2 DEF DrainState, DrainSteps
  <2> HIDE DEF state
  <2> QED
    BY <1>1, <2>1, <2>3 DEF HasFile
<1>6. ASSUME NEW f \in Fids, DrainSkip(d, f) PROVE Typed
  <2>1. /\ [drainer[d] EXCEPT !.todo = @ \ {f}] \in DrainState
        /\ HasFile([drainer[d] EXCEPT !.todo = @ \ {f}])
    BY <1>2 DEF DrainState, HasFile
  <2> QED
    BY <1>1, <1>6, <2>1 DEF DrainSkip
<1>7. ASSUME NEW f \in Fids, NEW e \in Devices, DrainOpen(d, f, e) PROVE Typed
  <2> DEFINE state == [at |-> "opened", todo |-> drainer[d].todo \ {f},
                       fid |-> f, dest |-> e]
  <2>1. /\ drainer[d].todo \ {f} \subseteq Fids /\ f \in 0..MaxFid /\ f # 0
        /\ "opened" \in DrainSteps
    BY <1>2 DEF DrainState, DrainSteps, Fids
  <2>2. state \in DrainState
    BY <2>1 DEF DrainState
  <2>3. HasFile(state)
    BY <2>1 DEF HasFile
  <2>4. DrainStep(d, state)
    BY <1>7 DEF DrainOpen
  <2> HIDE DEF state
  <2> QED
    BY <1>1, <2>2, <2>3, <2>4
<1>8. CASE DrainWrite(d) \/ DrainSent(d) \/ DrainSentTorn(d) \/ DrainUpdate(d)
  <2>1. CASE DrainWrite(d) \/ DrainSent(d) \/ DrainSentTorn(d)
    BY <1>1, <1>4, <2>1
       DEF DrainWrite, DrainSent, DrainSentTorn, DrainAccept, DrainSteps
  <2>2. CASE DrainUpdate(d)
    <3>1. /\ drainer[d].at = "sent"
          /\ \/ DrainStep(d, DrainNext(d))
             \/ DrainStep(d, [drainer[d] EXCEPT !.at = "moved"])
      BY <2>2 DEF DrainUpdate
    <3> QED
      BY <1>1, <1>3, <1>4, <3>1 DEF DrainSteps
  <2> QED
    BY <1>8, <2>1, <2>2
<1>9. CASE DrainRemove(d) \/ DrainError(d) \/ DrainExit(d)
  BY <1>1, <1>2, <1>3, <1>9 DEF DrainRemove, DrainError, DrainExit
<1> QED
  BY <1>5, <1>6, <1>7, <1>8, <1>9, <1>10 DEF DrainerNext

\* A drainer leaves a handler behind at its target only.
LEMMA DrainStray ==
  ASSUME EfesTypeOK, NEW d \in Devices,
         \/ DrainSent(d) \/ DrainSentTorn(d) \/ DrainError(d) \/ DrainExit(d)
  PROVE  /\ stray' \subseteq Copies
         /\ \A p \in stray' : p \in stray \/ p = DrainTarget(d)
<1>1. drainer[d].at \in {"opened", "sending"} => DrainTarget(d) \in Copies
  BY DEF EfesTypeOK, DrainState, DrainTarget, Copies, Fids
<1> QED
  BY <1>1 DEF EfesTypeOK, DrainSent, DrainSentTorn, DrainAccept, DrainError,
       DrainExit, DrainLeaves, LeaveStray

LEMMA EfesNextType ==
  ASSUME EfesTypeOK, MetaInv, MetaInv', [Next]_vars
  PROVE  EfesTypeOK'
<1> USE DEF EfesTypeOK, WriteCopy, RemoveCopy
<1>0. MetaTypeOK'
  BY DEF MetaInv
<1>1. ASSUME NEW d \in Devices, CreateOpenSelect(d) \/ CreateOpenInsert(d)
      PROVE  EfesTypeOK'
  BY <1>0, <1>1 DEF CreateOpenSelect, CreateOpenInsert, UploadSteps
<1>2. ASSUME NEW k \in Keys, DeleteKey(k) PROVE EfesTypeOK'
  BY <1>0, <1>2 DEF DeleteKey, RowsOf, MetaTypeOK
<1>3. ASSUME NEW f \in Fids, DeleteFid(f) PROVE EfesTypeOK'
  BY <1>0, <1>3 DEF DeleteFid, RowsOf, MetaTypeOK
<1>4. ASSUME NEW rows \in SUBSET tempfile, RemoveOldTempfiles(rows)
      PROVE  EfesTypeOK'
  BY <1>0, <1>4 DEF RemoveOldTempfiles, MetaTypeOK
<1>5. ASSUME NEW p \in Copies, UploadNext(p) PROVE EfesTypeOK'
  <2>1. CASE PatchCheck(p) \/ (Abandon(p) /\ CountStray)
    BY <1>0, <2>1, EfesAssumption
       DEF PatchCheck, Abandon, UploadSteps, LeaveStray, CountStray
  <2>2. CASE PatchSave(p) /\ CountStray
    BY <1>0, <2>2, EfesAssumption
       DEF PatchSave, UploadSteps, Contents, LeaveStray, CountStray
  <2>3. CASE \E k \in Keys : CreateClose(p, k)
    BY <1>0, <2>3 DEF CreateClose, UploadSteps, RowsOf, MetaTypeOK
  <2> QED
    BY <1>5, <2>1, <2>2, <2>3 DEF UploadNext
<1>6. ASSUME NEW p \in Copies,
             \/ (LateCheck(p) /\ CountStray) \/ LateSave(p)
             \/ Publish(p) \/ Consume(p) \/ Age(p)
      PROVE  EfesTypeOK'
  <2>1. CASE LateCheck(p) /\ CountStray
    BY <1>0, <2>1, EfesAssumption DEF LateCheck, CountStray
  <2>2. CASE LateSave(p)
    BY <1>0, <2>2 DEF LateSave, Contents
  <2>3. CASE Publish(p) \/ Consume(p) \/ Age(p)
    BY <1>0, <2>3 DEF Publish, Consume, Age, Contents, procVars
  <2> QED
    BY <1>6, <2>1, <2>2, <2>3
<1>7. ASSUME NEW p \in Copies, CleanerNext(p) PROVE EfesTypeOK'
  <2>1. CASE CheckFidMissing(p) \/ CheckFidReplicated(p)
    BY <1>0, <2>1 DEF CheckFidMissing, CheckFidReplicated, RowsOf, MetaTypeOK, procVars
  <2>2. CASE CleanStat(p) \/ CleanQueryFileOn(p) \/ CleanQueryTempfile(p)
    BY <1>0, <2>2 DEF CleanStat, CleanQueryFileOn, CleanQueryTempfile, VisitStep,
                      VisitSteps
  <2>3. CASE CleanRemove(p)
    BY <1>0, <2>3 DEF CleanRemove, VisitStep, VisitSteps, Contents
  <2>4. CASE CleanError(p)
    BY <1>0, <2>4, EfesAssumption DEF CleanError, VisitSteps
  <2> QED
    BY <1>7, <2>1, <2>2, <2>3, <2>4 DEF CleanerNext
<1>8. ASSUME NEW d \in Devices, DrainStart(d) \/ DrainerNext(d) PROVE EfesTypeOK'
  <2>1. /\ drainer' \in [Devices -> DrainState]
        /\ \A e \in Devices :
             drainer'[e].fid = 0 => drainer'[e].at \in {"off", "listing", "loop"}
    BY <1>8, DrainerType DEF HasFile
  <2>2. CASE DrainStart(d)
    BY <1>0, <2>1, <2>2, EfesAssumption DEF DrainStart, DrainStep
  <2>3. CASE \/ DrainWrite(d) \/ DrainRemove(d)
             \/ (DrainSent(d) \/ DrainSentTorn(d)) /\ CountStray
    <3>1. DrainedContents(d) \in Contents /\ {"absent", "partial"} \subseteq Contents
      BY DEF DrainedContents, Contents
    <3>2. \/ UNCHANGED <<disk, aged>>
          \/ \E p, content :
               /\ content \in Contents
               /\ disk' = [disk EXCEPT ![p] = content] /\ aged' = aged \ {p}
      BY <2>3, <3>1 DEF DrainWrite, DrainSent, DrainSentTorn, DrainRemove,
                        RemoveCopy, WriteCopy
    <3>3. disk' \in [Copies -> Contents] /\ aged' \subseteq Copies
      BY <1>0, <3>2
    <3>4. CASE DrainWrite(d) \/ DrainRemove(d)
      BY <1>0, <2>1, <3>3, <3>4 DEF DrainWrite, DrainRemove, DrainStep
    <3>5. CASE (DrainSent(d) \/ DrainSentTorn(d)) /\ CountStray
      <4>1. stray' \subseteq Copies /\ events' \in 0..MaxEvents
        BY <3>5, DrainStray, EfesAssumption DEF CountStray
      <4> QED
        BY <1>0, <2>1, <3>3, <3>5, <4>1
           DEF DrainSent, DrainSentTorn, DrainAccept, DrainStep
    <3> QED
      BY <2>3, <3>4, <3>5
  <2>4. CASE \/ DrainList(d) \/ DrainUpdate(d)
             \/ \E f \in Fids : DrainSkip(d, f) \/ \E e \in Devices : DrainOpen(d, f, e)
    BY <1>0, <2>1, <2>4 DEF DrainList, DrainUpdate, DrainSkip, DrainOpen, DrainStep
  <2>5. CASE (DrainError(d) \/ DrainExit(d)) /\ CountStray
    <3>1. stray' \subseteq Copies /\ events' \in 0..MaxEvents
      BY <2>5, DrainStray, EfesAssumption DEF CountStray
    <3> QED
      BY <1>0, <2>1, <2>5, <3>1 DEF DrainError, DrainExit, DrainStep
  <2> QED
    BY <1>8, <2>2, <2>3, <2>4, <2>5 DEF DrainerNext
<1>9. ASSUME NEW d \in Devices, ServerRestart(d) PROVE EfesTypeOK'
  BY <1>0, <1>9, EfesAssumption DEF ServerRestart, UploadSteps, VisitSteps
<1>10. CASE UNCHANGED vars
  BY <1>0, <1>10 DEF vars, procVars
<1> QED
  BY <1>1, <1>2, <1>3, <1>4, <1>5, <1>6, <1>7, <1>8, <1>9, <1>10 DEF Next

\* The invariant of the tables holds in the whole system.
LEMMA EfesKeepsMetaInv == Spec => [](EfesTypeOK /\ MetaInv)
<1>1. Init => EfesTypeOK /\ MetaInv
  BY EfesInitType, MetaInitInv DEF Init
<1>2. EfesTypeOK /\ MetaInv /\ [Next]_vars => (EfesTypeOK /\ MetaInv)'
  BY NextIsTransaction, MetaNextInv, EfesNextType
<1> QED
  BY <1>1, <1>2, PTL DEF Spec

\* Every variable of the system has its type in every reachable state.
THEOREM TypeCorrect == Spec => []EfesTypeOK
BY EfesKeepsMetaInv, PTL

-----------------------------------------------------------------------------
(* Delete tasks. *)

LEMMA OneRowKept ==
  ASSUME MetaInv, OneRow, [MetaNext]_metaVars
  PROVE  OneRow'
<1> USE DEF OneRow
<1>1. ASSUME NEW d \in Devices, InsertTempfile(d) \/ SetDrain(d) \/ SetAlive(d)
      PROVE  OneRow'
  BY <1>1 DEF InsertTempfile, SetDrain, SetAlive
<1>2. ASSUME NEW f \in Fids, DeleteFids({f}) PROVE OneRow'
  BY <1>2 DEF DeleteFids
<1>3. ASSUME NEW f \in Fids, NEW d \in Devices, NEW k \in Keys,
             CloseTempfile(f, d, k)
      PROVE  OneRow'
  <2>1. \A p \in fileOn : p[1] # f
    BY <1>3 DEF CloseTempfile, MetaInv, SchemaOK, OpenOrClosed, HasTempfile
  <2>2. \A p \in fileOn' : p \in fileOn \/ p = <<f, d>>
    BY <1>3 DEF CloseTempfile
  <2> QED
    BY <2>1, <2>2
<1>4. ASSUME NEW rows \in SUBSET tempfile, ExpireTempfiles(rows) PROVE OneRow'
  BY <1>4 DEF ExpireTempfiles
<1>5. ASSUME NEW f \in Fids, NEW src \in Devices, NEW dst \in Devices,
             MoveRow(f, src, dst)
      PROVE  OneRow'
  <2>1. CASE <<f, src>> \in fileOn /\ <<f, dst>> \notin fileOn
    <3>1. \A p \in fileOn : p[1] = f => p = <<f, src>>
      BY <2>1
    <3>2. \A p \in fileOn' : (p \in fileOn /\ p # <<f, src>>) \/ p = <<f, dst>>
      BY <1>5, <2>1 DEF MoveRow
    <3> QED
      BY <3>1, <3>2
  <2> QED
    BY <1>5, <2>1 DEF MoveRow
<1>6. ASSUME NEW rows \in SUBSET fileOn, DropRows(rows) PROVE OneRow'
  BY <1>6 DEF DropRows
<1>7. CASE UNCHANGED metaVars
  BY <1>7 DEF metaVars
<1> QED
  BY <1>1, <1>2, <1>3, <1>4, <1>5, <1>6, <1>7 DEF MetaNext

LEMMA NextFidGrows ==
  ASSUME MetaInv, [MetaNext]_metaVars
  PROVE  nextFid \in Nat /\ nextFid' \in Nat /\ nextFid <= nextFid'
<1>1. nextFid \in Nat
  BY MetadataAssumption DEF MetaInv, MetaTypeOK
<1>2. nextFid' = nextFid \/ nextFid' = nextFid + 1
  BY DEF MetaNext, metaVars, InsertTempfile, SetDrain, SetAlive, DeleteFids,
         CloseTempfile, ExpireTempfiles, MoveRow, DropRows
<1> QED
  BY <1>1, <1>2

LEMMA DeadKept ==
  ASSUME MetaInv, [MetaNext]_metaVars, NEW f \in Fids, Dead(f)
  PROVE  Dead(f)'
<1>1. ~Live(f)'
  BY DeadStaysDead DEF Dead
<1>2. f < nextFid'
  BY NextFidGrows DEF Dead, Fids
<1> QED
  BY <1>1, <1>2 DEF Dead

\* A fid with a row in one of the tables has been handed out, and is in one
\* state only.
LEMMA RowsAreLive ==
  ASSUME MetaInv
  PROVE  /\ \A p \in tempfile : /\ p[1] \in Fids /\ p[1] < nextFid
                                /\ HasTempfile(p[1]) /\ ~Closed(p[1])
         /\ \A p \in fileOn : /\ p[1] \in Fids /\ p[1] < nextFid
                              /\ Closed(p[1]) /\ ~HasTempfile(p[1])
<1>1. \A f \in Fids : Live(f) => f < nextFid
  BY MetadataAssumption DEF MetaInv, MetaTypeOK, OpenOrClosed, Fids
<1>2. \A p \in tempfile : p[1] \in Fids /\ HasTempfile(p[1])
  BY DEF MetaInv, MetaTypeOK, HasTempfile, Copies
<1>3. \A p \in fileOn : p[1] \in Fids /\ Closed(p[1])
  BY DEF MetaInv, MetaTypeOK, SchemaOK, Copies
<1> QED
  BY <1>1, <1>2, <1>3 DEF MetaInv, OpenOrClosed, Live

\* What a delete or an overwrite takes from file_on is dead afterwards.
LEMMA DeletedRowsDie ==
  ASSUME MetaInv, NEW fids, NEW p \in RowsOf(fids), [MetaNext]_metaVars,
         tempfile' \subseteq tempfile,
         \A r \in file' : r[1] \notin fids \/ HasTempfile(r[1])
  PROVE  Dead(p[1])'
<1>1. /\ p[1] \in Fids /\ p[1] < nextFid /\ ~HasTempfile(p[1]) /\ p[1] \in fids
  BY RowsAreLive DEF RowsOf
<1>2. ~HasTempfile(p[1])'
  BY <1>1 DEF HasTempfile
<1>3. ~Closed(p[1])'
  BY <1>1 DEF Closed
<1>4. p[1] < nextFid'
  BY <1>1, NextFidGrows DEF Fids
<1> QED
  BY <1>2, <1>3, <1>4 DEF Dead, Live

LEMMA ExpiredRowsDie ==
  ASSUME MetaInv, NEW rows, ExpireTempfiles(rows), NEW p \in rows
  PROVE  Dead(p[1])'
<1>1. p \in tempfile /\ p[1] < nextFid /\ ~Closed(p[1])
  BY RowsAreLive DEF ExpireTempfiles
<1>2. ~HasTempfile(p[1])'
  BY <1>1 DEF MetaInv, SchemaOK, ExpireTempfiles, HasTempfile
<1> QED
  BY <1>1, <1>2 DEF ExpireTempfiles, Dead, Live, Closed

LEMMA PastKept ==
  ASSUME MetaInv, [MetaNext]_metaVars, NEW f, Past(f)
  PROVE  Past(f)' /\ (Closed(f)' => Closed(f))
<1>1. nextFid \in Nat /\ f # nextFid /\ f < nextFid'
  BY NextFidGrows DEF Past, Fids
<1>2. ASSUME NEW d \in Devices, InsertTempfile(d) \/ SetDrain(d) \/ SetAlive(d)
      PROVE  ~HasTempfile(f)' /\ (Closed(f)' => Closed(f))
  BY <1>1, <1>2 DEF Past, HasTempfile, Closed, InsertTempfile, SetDrain, SetAlive
<1>3. ASSUME NEW g \in Fids, DeleteFids({g})
      PROVE  ~HasTempfile(f)' /\ (Closed(f)' => Closed(f))
  BY <1>3 DEF Past, HasTempfile, Closed, DeleteFids
<1>4. ASSUME NEW g \in Fids, NEW d \in Devices, NEW k \in Keys,
             CloseTempfile(g, d, k)
      PROVE  ~HasTempfile(f)' /\ (Closed(f)' => Closed(f))
  BY <1>4 DEF Past, HasTempfile, Closed, CloseTempfile
<1>5. ASSUME \/ \E rows \in SUBSET tempfile : ExpireTempfiles(rows)
             \/ \E g \in Fids, src, dst \in Devices : MoveRow(g, src, dst)
             \/ \E rows \in SUBSET fileOn : DropRows(rows)
             \/ UNCHANGED metaVars
      PROVE  ~HasTempfile(f)' /\ (Closed(f)' => Closed(f))
  BY <1>5 DEF Past, HasTempfile, Closed, ExpireTempfiles, MoveRow, DropRows, metaVars
<1> QED
  BY <1>1, <1>2, <1>3, <1>4, <1>5 DEF MetaNext, Past

-----------------------------------------------------------------------------
(* Which steps write what.                                                 *)

LEMMA DrainerEffect ==
  ASSUME EfesTypeOK, [Next]_vars
  PROVE  \/ drainer' = drainer
         \/ \E d \in Devices :
              /\ DrainStart(d) \/ DrainerNext(d)
              /\ \A e \in Devices \ {d} : drainer'[e] = drainer[e]
<1>1. ASSUME NEW d \in Devices, DrainStart(d) \/ DrainerNext(d)
      PROVE  \A e \in Devices \ {d} : drainer'[e] = drainer[e]
  BY <1>1 DEF EfesTypeOK, DrainStart, DrainerNext, DrainList, DrainOpen,
       DrainSkip, DrainWrite, DrainSent, DrainSentTorn, DrainAccept,
       DrainUpdate, DrainRemove, DrainError, DrainExit, DrainStep
<1>2. ASSUME NEW q \in Copies,
             \/ UploadNext(q) \/ LateCheck(q) \/ LateSave(q) \/ Publish(q)
             \/ Consume(q) \/ CleanerNext(q) \/ Age(q)
      PROVE  drainer' = drainer
  BY <1>2 DEF UploadNext, PatchCheck, PatchSave, Abandon, CreateClose,
       LateCheck, LateSave, Publish, Consume, Age, CleanerNext, CleanStat,
       CleanQueryFileOn, CleanQueryTempfile, CleanRemove, CleanError,
       CheckFidMissing, CheckFidReplicated, VisitStep, procVars
<1>3. CASE \/ \E d \in Devices : \/ CreateOpenSelect(d) \/ CreateOpenInsert(d)
                                 \/ ServerRestart(d)
           \/ \E k \in Keys : DeleteKey(k)
           \/ \E f \in Fids : DeleteFid(f)
           \/ \E rows \in SUBSET tempfile : RemoveOldTempfiles(rows)
           \/ UNCHANGED vars
  BY <1>3 DEF CreateOpenSelect, CreateOpenInsert, ServerRestart, DeleteKey,
       DeleteFid, RemoveOldTempfiles, vars, procVars
<1> QED
  BY <1>1, <1>2, <1>3 DEF Next

\* What changes in file_on.
LEMMA RowsEffect ==
  ASSUME EfesTypeOK, MetaInv, [Next]_vars, NEW p \in Copies
  PROVE  /\ p \in fileOn' /\ p \notin fileOn =>
              \/ \E k \in Keys : CreateClose(p, k)
              \/ \E d \in Devices : /\ DrainUpdate(d) /\ p = DrainTarget(d)
                                    /\ <<drainer[d].fid, d>> \in fileOn
         /\ p \in fileOn /\ p \notin fileOn' =>
              \/ ~Closed(p[1])'
              \/ \E d \in Devices : DrainUpdate(d) /\ p = <<drainer[d].fid, d>>
              \/ CheckFidMissing(p)
              \/ \E q \in fileOn' : q[1] = p[1] /\ CheckFidReplicated(q)
<1>0. p = <<p[1], p[2]>>
  BY DEF Copies
<1>1. ASSUME NEW fids \in SUBSET Fids, DeleteFids(fids)
      PROVE  fileOn' \subseteq fileOn /\ (p \in fileOn \ fileOn' => ~Closed(p[1])')
  BY <1>1 DEF DeleteFids, RowsOf, Closed
<1>2. \A k \in Keys : FidsOfKey(k) \in SUBSET Fids
  BY DEF FidsOfKey
<1>3. ASSUME NEW q \in Copies, NEW k \in Keys, CreateClose(q, k)
      PROVE  /\ p \in fileOn' /\ p \notin fileOn => p = q
             /\ p \in fileOn /\ p \notin fileOn' => ~Closed(p[1])'
  <2>1. q = <<q[1], q[2]>>
    BY DEF Copies
  <2>2. CloseTempfile(q[1], q[2], k)
    BY <1>3 DEF CreateClose
  <2>3. ASSUME p \in fileOn, p \notin fileOn' PROVE ~Closed(p[1])'
    <3>1. p[1] \in FidsOfKey(k)
      BY <2>2, <2>3 DEF CloseTempfile, RowsOf
    <3>2. p[1] # q[1]
      BY <2>1, <2>2, <2>3, RowsAreLive DEF CloseTempfile
    <3> QED
      BY <2>2, <3>1, <3>2 DEF CloseTempfile, Closed
  <2> QED
    BY <2>1, <2>2, <2>3 DEF CloseTempfile
<1>4. ASSUME NEW q \in Copies, CheckFidMissing(q)
      PROVE  fileOn' \subseteq fileOn /\ (p \in fileOn \ fileOn' => p = q)
  BY <1>4 DEF CheckFidMissing, DropRows
<1>5. ASSUME NEW q \in Copies, CheckFidReplicated(q)
      PROVE  /\ fileOn' \subseteq fileOn /\ q \in fileOn'
             /\ p \in fileOn \ fileOn' => q[1] = p[1]
  BY <1>5 DEF CheckFidReplicated, DropRows, RowsOf
<1>6. ASSUME NEW d \in Devices, DrainUpdate(d)
      PROVE  /\ p \in fileOn' /\ p \notin fileOn =>
                  p = DrainTarget(d) /\ <<drainer[d].fid, d>> \in fileOn
             /\ p \in fileOn /\ p \notin fileOn' => p = <<drainer[d].fid, d>>
  BY <1>6 DEF DrainUpdate, MoveRow, DrainTarget
<1>7. ASSUME NEW d \in Devices, DrainerNext(d), ~DrainUpdate(d)
      PROVE  fileOn' = fileOn
  BY <1>7 DEF DrainerNext, DrainList, DrainOpen, DrainSkip, DrainWrite,
       DrainSent, DrainSentTorn, DrainAccept, DrainRemove, DrainError,
       DrainExit, metaVars
<1>8. ASSUME NEW q \in Copies,
             \/ PatchCheck(q) \/ PatchSave(q) \/ Abandon(q)
             \/ LateCheck(q) \/ LateSave(q) \/ Publish(q) \/ Consume(q)
             \/ CleanStat(q) \/ CleanQueryFileOn(q) \/ CleanQueryTempfile(q)
             \/ CleanRemove(q) \/ CleanError(q) \/ Age(q)
      PROVE  fileOn' = fileOn
  BY <1>8 DEF PatchCheck, PatchSave, Abandon, LateCheck, LateSave, Publish, Consume, CleanStat,
       CleanQueryFileOn, CleanQueryTempfile, CleanRemove, CleanError, Age,
       VisitStep, metaVars
<1>9. ASSUME \/ \E d \in Devices : \/ CreateOpenSelect(d) \/ CreateOpenInsert(d)
                                   \/ DrainStart(d) \/ ServerRestart(d)
             \/ \E rows \in SUBSET tempfile : RemoveOldTempfiles(rows)
             \/ UNCHANGED vars
      PROVE  fileOn' = fileOn
  BY <1>9 DEF CreateOpenSelect, CreateOpenInsert, InsertTempfile, DrainStart,
       SetDrain, ServerRestart, SetAlive, RemoveOldTempfiles, ExpireTempfiles,
       vars, metaVars
<1>10. CASE (\E k \in Keys : DeleteKey(k)) \/ (\E f \in Fids : DeleteFid(f))
  BY <1>1, <1>2, <1>10 DEF DeleteKey, DeleteFid
<1>11. CASE \E q \in Copies : \/ UploadNext(q) \/ LateCheck(q) \/ LateSave(q)
                              \/ Publish(q) \/ Consume(q) \/ CleanerNext(q)
                              \/ Age(q)
  BY <1>3, <1>4, <1>5, <1>8, <1>11 DEF UploadNext, CleanerNext
<1> QED
  BY <1>6, <1>7, <1>9, <1>10, <1>11 DEF Next

\* A dead fid leaves no row behind.
DeadAreOver == \A p \in Copies : Dead(p[1]) => Over(p)

LEMMA DeadIsOver == MetaInv => DeadAreOver
BY RowsAreLive DEF DeadAreOver, Copies, Dead, Live, Over, Past

LEMMA DeadIsOverThen == MetaInv' => DeadAreOver'
BY DeadIsOver, PTL

\* What is over stays so, whatever runs.
LEMMA OverKept ==
  ASSUME EfesTypeOK, MetaInv, MetaInv', RowsInv, [Next]_vars, NEW p \in Copies, Over(p)
  PROVE  Over(p)'
<1>1. Past(p[1])' /\ (Closed(p[1])' => Closed(p[1]))
  BY NextIsTransaction, PastKept DEF Over
<1>2. p \notin fileOn'
  <2>1. CASE Drainable = {}
    <3>1. ASSUME NEW d \in Devices PROVE ~DrainUpdate(d)
      BY <2>1 DEF RowsInv, NoDrains, DrainIdle, DrainUpdate
    <3>2. ASSUME NEW k \in Keys PROVE ~CreateClose(p, k)
      BY DEF Over, Past, HasTempfile, Copies, CreateClose, CloseTempfile
    <3> QED
      BY <3>1, <3>2, RowsEffect DEF Over
  <2>2. CASE Drainable # {}
    <3>1. ~Closed(p[1])'
      BY <1>1, <2>2 DEF Over
    <3> QED
      BY <3>1 DEF MetaInv, SchemaOK
  <2> QED
    BY <2>1, <2>2
<1> QED
  BY <1>1, <1>2 DEF Over

LEMMA TasksNextInv ==
  ASSUME TasksIInv, MetaInv', [Next]_vars
  PROVE  TasksInv'
<1> USE DEF TasksIInv
<1>0. [MetaNext]_metaVars
  BY NextIsTransaction
<1>1. \A p \in pending \cup queue : Over(p)'
  BY OverKept DEF EfesTypeOK, TasksInv
<1>2. SUFFICES \A p \in (pending \cup queue)' : p \in pending \cup queue \/ Over(p)'
  BY <1>1 DEF TasksInv
<1>3. ASSUME NEW d \in Devices,
             \/ CreateOpenSelect(d) \/ CreateOpenInsert(d)
             \/ ServerRestart(d) \/ DrainStart(d) \/ DrainerNext(d)
      PROVE  pending' = pending /\ queue' = queue
  BY <1>3 DEF CreateOpenSelect, CreateOpenInsert, ServerRestart, DrainStart,
       DrainerNext, DrainList, DrainOpen, DrainSkip, DrainWrite, DrainSent,
       DrainSentTorn, DrainAccept, DrainUpdate, DrainRemove, DrainError,
       DrainExit, DrainStep
<1>4. ASSUME NEW k \in Keys, DeleteKey(k)
      PROVE  \A p \in RowsOf(FidsOfKey(k)) : Dead(p[1])'
  BY <1>0, <1>4, DeletedRowsDie DEF DeleteKey, DeleteFids
<1>5. ASSUME NEW f \in Fids, DeleteFid(f)
      PROVE  \A p \in RowsOf({f}) : Dead(p[1])'
  BY <1>0, <1>5, DeletedRowsDie DEF DeleteFid, DeleteFids
<1>6. ASSUME NEW rows \in SUBSET tempfile, RemoveOldTempfiles(rows)
      PROVE  \A p \in rows : Dead(p[1])'
  BY <1>6, ExpiredRowsDie DEF RemoveOldTempfiles
<1>7. ASSUME NEW q \in Copies, NEW k \in Keys, CreateClose(q, k)
      PROVE  \A p \in RowsOf(FidsOfKey(k)) : Dead(p[1])'
  <2>1. CloseTempfile(q[1], q[2], k)
    BY <1>7 DEF CreateClose
  <2>2. HasTempfile(q[1])
    BY <2>1 DEF CloseTempfile, HasTempfile, Copies
  <2>3. \A r \in file' : r[1] \notin FidsOfKey(k) \/ HasTempfile(r[1])
    BY <2>1, <2>2 DEF CloseTempfile
  <2> QED
    BY <1>0, <2>1, <2>3, DeletedRowsDie DEF CloseTempfile
<1>8. ASSUME NEW q \in Copies, CheckFidReplicated(q)
      PROVE  \A p \in RowsOf({q[1]}) \ {q} : Over(p)'
  <2>1. ASSUME NEW p \in RowsOf({q[1]}) \ {q} PROVE Past(p[1])' /\ p \notin fileOn'
    <3>1. p \in fileOn /\ Past(p[1])
      BY <2>1, RowsAreLive DEF RowsOf, Past
    <3> QED
      BY <1>0, <1>8, <3>1, PastKept DEF CheckFidReplicated, DropRows
  <2>2. Drainable = {}
    BY <1>8 DEF CheckFidReplicated, RowsOf, RowsInv, OneRow
  <2> QED
    BY <2>1, <2>2 DEF Over
<1>10. (pending \cup queue)' \subseteq Copies
  BY EfesNextType, MetaNextInv DEF EfesTypeOK
<1>9. ASSUME NEW p \in Copies, p \in (pending \cup queue)', p \notin pending \cup queue
      PROVE  Over(p)'
  <2>0. p \in Copies /\ (Dead(p[1])' => Over(p)')
    BY <1>9, <1>10, DeadIsOverThen DEF DeadAreOver
  <2>1. ASSUME NEW q \in Copies,
               \/ UploadNext(q) \/ LateCheck(q) \/ LateSave(q) \/ Publish(q)
             \/ Consume(q) \/ CleanerNext(q) \/ Age(q)
        PROVE  Over(p)'
    <3>1. CASE \E k \in Keys : CreateClose(q, k)
      BY <1>7, <1>9, <2>0, <3>1 DEF CreateClose
    <3>2. CASE Publish(q) \/ Consume(q)
      BY <1>9, <3>2 DEF Publish, Consume
    <3>3. CASE CheckFidReplicated(q)
      BY <1>8, <1>9, <3>3 DEF CheckFidReplicated
    <3>4. CASE \/ PatchCheck(q) \/ PatchSave(q) \/ Abandon(q) \/ Age(q)
               \/ LateCheck(q) \/ LateSave(q)
               \/ CleanStat(q) \/ CleanQueryFileOn(q) \/ CleanQueryTempfile(q)
               \/ CleanRemove(q) \/ CleanError(q) \/ CheckFidMissing(q)
      BY <1>9, <3>4 DEF PatchCheck, PatchSave, Abandon, Age, LateCheck, LateSave, CleanStat,
           CleanQueryFileOn, CleanQueryTempfile, CleanRemove, CleanError,
           CheckFidMissing, VisitStep, procVars
    <3> QED
      BY <2>1, <3>1, <3>2, <3>3, <3>4 DEF UploadNext, CleanerNext
  <2>2. CASE \E k \in Keys : DeleteKey(k)
    BY <1>4, <1>9, <2>0, <2>2 DEF DeleteKey
  <2>3. CASE \E f \in Fids : DeleteFid(f)
    BY <1>5, <1>9, <2>0, <2>3 DEF DeleteFid
  <2>4. CASE \E rows \in SUBSET tempfile : RemoveOldTempfiles(rows)
    BY <1>6, <1>9, <2>0, <2>4 DEF RemoveOldTempfiles
  <2>5. CASE UNCHANGED vars
    BY <1>9, <2>5 DEF vars, procVars
  <2> QED
    BY <1>3, <1>9, <2>1, <2>2, <2>3, <2>4, <2>5 DEF Next
<1> QED
  BY <1>9, <1>10

LEMMA RowsInvKept ==
  ASSUME EfesTypeOK, MetaInv, RowsInv, [Next]_vars
  PROVE  RowsInv'
<1>1. CASE Drainable = {}
  <2>1. ASSUME NEW d \in Devices, DrainStart(d) \/ DrainerNext(d) PROVE FALSE
    <3>1. drainer[d].at = "off" /\ d \notin Drainable
      BY <1>1 DEF RowsInv, NoDrains, DrainIdle
    <3> QED
      BY <2>1, <3>1 DEF DrainStart, DrainerNext, DrainList, DrainSkip,
           DrainOpen, DrainWrite, DrainSent, DrainSentTorn, DrainAccept,
           DrainUpdate, DrainRemove, DrainError, DrainExit
  <2> QED
    BY <1>1, <2>1, DrainerEffect DEF RowsInv, NoDrains, DrainIdle
<1>2. CASE Drainable # {}
  BY <1>2, NextIsTransaction, OneRowKept DEF RowsInv
<1> QED
  BY <1>1, <1>2

LEMMA TasksKept == TasksIInv /\ [Next]_vars => TasksIInv'
<1> SUFFICES ASSUME TasksIInv, [Next]_vars PROVE TasksIInv'
  OBVIOUS
<1>1. [MetaNext]_metaVars
  BY NextIsTransaction DEF TasksIInv
<1>2. MetaInv'
  BY <1>1, MetaNextInv DEF TasksIInv
<1>3. EfesTypeOK'
  BY <1>2, EfesNextType DEF TasksIInv
<1>4. RowsInv'
  BY RowsInvKept DEF TasksIInv
<1>5. TasksInv'
  BY <1>2, TasksNextInv
<1> QED
  BY <1>2, <1>3, <1>4, <1>5 DEF TasksIInv

LEMMA TasksInit == ReplicasStay /\ Init => TasksIInv
<1> SUFFICES ASSUME ReplicasStay, Init PROVE TasksIInv
  OBVIOUS
<1>1. EfesTypeOK /\ MetaInv
  BY EfesInitType, MetaInitInv DEF Init
<1>2. RowsInv
  <2>1. Legacy = 0 => fileOn = {}
    BY DEF Init, MetaInit
  <2> QED
    BY <2>1 DEF ReplicasStay, RowsInv, OneRow, NoDrains, Init
<1>3. TasksInv
  BY DEF TasksInv, Init
<1> QED
  BY <1>1, <1>2, <1>3 DEF TasksIInv

\* A delete task never names a copy that the database points at, whatever the
\* timing, restarts and drains, and whatever replicas of older versions the
\* device cleaners of several servers drop at the same time, as long as files
\* with replicas are not drained.
THEOREM DeleteTasksAreSafe ==
  ASSUME ReplicasStay
  PROVE  Spec => []DeleteTaskSafe
<1>1. Init => TasksIInv
  BY TasksInit
<1>2. TasksIInv => DeleteTaskSafe
  <2> SUFFICES ASSUME TasksIInv, NEW p \in pending \cup queue, p \in Referenced
               PROVE  FALSE
    BY DEF DeleteTaskSafe
  <2>1. ~HasTempfile(p[1]) /\ p \notin fileOn
    BY DEF TasksIInv, TasksInv, Over, Past
  <2> QED
    BY <2>1, RowsAreLive DEF TasksIInv, Referenced
<1> QED
  BY <1>1, <1>2, TasksKept, PTL DEF Spec

\* Without replicas at the start there are none later.
LEMMA NoReplicas == Legacy = 0 => (Spec => []OneRow)
<1> SUFFICES ASSUME Legacy = 0 PROVE Spec => []OneRow
  OBVIOUS
<1>1. Init => OneRow
  BY DEF Init, MetaInit, OneRow
<1>2. EfesTypeOK /\ MetaInv /\ OneRow /\ [Next]_vars => OneRow'
  BY NextIsTransaction, OneRowKept
<1> QED
  BY <1>1, <1>2, EfesKeepsMetaInv, PTL DEF Spec

-----------------------------------------------------------------------------
(* The assumptions on the constants. *)

\* An operator may drain any device but those that --dest names, and a server
\* that restarts leaves the status of its device alone.
DrainsAreApart == ~ResetOnStart /\ Dest \cap Drainable = {}

\* Nobody goes on while a handler of his last request is at work, and createFile
\* is not interrupted next to the .info file of an earlier drain.
Tidy == ~Overlap /\ ~TornCreate

\* The timing assumption, and for systems with drains: they are apart, and no
\* file has replicas from an older version.
Calm ==
    /\ Timely /\ Tidy
    /\ Drainable = {} \/ (Legacy = 0 /\ DrainsAreApart)

LEMMA CalmReplicasStay == Calm => ReplicasStay
BY DEF Calm, ReplicasStay

-----------------------------------------------------------------------------
(* The inductive invariant behind Durable, under the timing assumption.    *)

\* Nothing is known of a fid that the database has not handed out.
Fresh ==
    \A p \in Copies : p[1] >= nextFid =>
        disk[p] = "absent" /\ visit[p] = "none" /\ p \notin aged

\* An upload owns its copy: the cleaner is not at it, nobody else has a row.
UploadInv ==
    \A p \in Copies : upload[p] # "none" =>
        /\ p \in tempfile \/ Dead(p[1])
        /\ p \notin aged /\ visit[p] = "none"
        /\ upload[p] = "sent" /\ p \in tempfile => disk[p] = "full"

\* A handler that was left behind can do no harm: its copy is nobody's.
StrayInv ==
    \A p \in stray :
        /\ p[1] < nextFid /\ p \notin fileOn
        /\ upload[p] = "none" \/ Dead(p[1])
        /\ \A d \in Devices :
             drainer[d].at \in {"sending", "sent"} /\ p = DrainTarget(d)
               => ~Closed(p[1])

\* What the cleaner has not found on the device does not come to be there.
VisitInv ==
    \A p \in Copies : visit[p] \in {"notOnDevice", "unclaimed"} => p \notin fileOn

\* While a file is closed, only the drainer of its device moves it.
Owns(d, f) == Past(f) /\ (Closed(f) => <<f, d>> \in fileOn)

Holding(d) == drainer[d].at \in {"opened", "sending", "sent"}

DrainInv ==
    \A d \in Devices :
        /\ drainer[d].at # "off" => d \in Drainable /\ d \in draining
        /\ \A f \in drainer[d].todo : Owns(d, f)
        /\ Holding(d) => /\ Owns(d, drainer[d].fid)
                         /\ drainer[d].fid \notin drainer[d].todo
                         /\ drainer[d].dest # d
        /\ drainer[d].at \in {"sending", "sent"}
             => DrainTarget(d) \notin aged /\ visit[DrainTarget(d)] = "none"
        /\ drainer[d].at = "sent" /\ Closed(drainer[d].fid)
             => disk[DrainTarget(d)] = "full"
        /\ drainer[d].at = "moved"
             => Past(drainer[d].fid) /\ <<drainer[d].fid, d>> \notin fileOn

\* A file does not come back to a device that is about to unlink it.
MovedInv ==
    \A d, e \in Devices :
        /\ drainer[d].at = "moved" /\ Holding(e)
        /\ drainer[e].fid = drainer[d].fid /\ Closed(drainer[d].fid)
        => drainer[e].dest # d

DurableIInv ==
    /\ TasksIInv
    /\ Durable /\ Fresh /\ UploadInv /\ StrayInv /\ VisitInv
    /\ DrainInv /\ MovedInv

-----------------------------------------------------------------------------
(* Which steps write what: one lemma per variable, so that the proofs of   *)
(* the invariants below look at the few steps that matter to them.         *)

LEMMA DiskEffect ==
  ASSUME EfesTypeOK, [Next]_vars, NEW p \in Copies
  PROVE  \/ disk'[p] = disk[p] /\ (p \in aged' => p \in aged)
         \/ Age(p) \/ PatchSave(p) \/ LateSave(p) \/ Consume(p) \/ CleanRemove(p)
         \/ \E d \in Devices : /\ DrainWrite(d) \/ DrainSent(d) \/ DrainSentTorn(d)
                               /\ p = DrainTarget(d)
         \/ \E d \in Devices : DrainRemove(d) /\ p = <<drainer[d].fid, d>>
<1> DEFINE Same == disk'[p] = disk[p] /\ (p \in aged' => p \in aged)
<1>1. disk \in [Copies -> Contents]
  BY DEF EfesTypeOK
<1>2. ASSUME NEW d \in Devices, DrainerNext(d)
      PROVE  \/ Same
             \/ /\ DrainWrite(d) \/ DrainSent(d) \/ DrainSentTorn(d)
                /\ p = DrainTarget(d)
             \/ DrainRemove(d) /\ p = <<drainer[d].fid, d>>
  <2>1. CASE DrainWrite(d) \/ DrainSent(d) \/ DrainSentTorn(d)
    BY <1>1, <2>1 DEF DrainWrite, DrainSent, DrainSentTorn, DrainAccept,
         WriteCopy, DrainTarget
  <2>2. CASE DrainRemove(d)
    BY <1>1, <2>2 DEF DrainRemove, RemoveCopy, WriteCopy
  <2>3. CASE \/ DrainList(d) \/ DrainUpdate(d) \/ DrainError(d) \/ DrainExit(d)
             \/ \E f \in Fids : DrainSkip(d, f) \/ \E e \in Devices : DrainOpen(d, f, e)
    BY <2>3 DEF DrainList, DrainUpdate, DrainError, DrainExit, DrainSkip, DrainOpen
  <2> QED
    BY <1>2, <2>1, <2>2, <2>3 DEF DrainerNext
<1>3. ASSUME NEW q \in Copies,
             \/ UploadNext(q) \/ LateCheck(q) \/ LateSave(q) \/ Publish(q)
             \/ Consume(q) \/ CleanerNext(q) \/ Age(q)
      PROVE  \/ Same
             \/ /\ p = q
                /\ Age(p) \/ PatchSave(p) \/ LateSave(p) \/ Consume(p) \/ CleanRemove(p)
  <2>1. CASE PatchSave(q) \/ LateSave(q) \/ Consume(q) \/ CleanRemove(q) \/ Age(q)
    BY <1>1, <2>1 DEF PatchSave, LateSave, Consume, CleanRemove, Age, RemoveCopy, WriteCopy
  <2>2. CASE \/ PatchCheck(q) \/ Abandon(q) \/ LateCheck(q) \/ Publish(q)
             \/ \E k \in Keys : CreateClose(q, k)
             \/ CleanStat(q) \/ CleanQueryFileOn(q) \/ CleanQueryTempfile(q)
             \/ CleanError(q) \/ CheckFidMissing(q) \/ CheckFidReplicated(q)
    BY <2>2 DEF PatchCheck, Abandon, LateCheck, Publish, CreateClose, CleanStat,
         CleanQueryFileOn, CleanQueryTempfile, CleanError, CheckFidMissing,
         CheckFidReplicated
  <2> QED
    BY <1>3, <2>1, <2>2 DEF UploadNext, CleanerNext
<1>4. CASE \/ \E d \in Devices : \/ CreateOpenSelect(d) \/ CreateOpenInsert(d)
                                 \/ DrainStart(d) \/ ServerRestart(d)
           \/ \E k \in Keys : DeleteKey(k)
           \/ \E f \in Fids : DeleteFid(f)
           \/ \E rows \in SUBSET tempfile : RemoveOldTempfiles(rows)
           \/ UNCHANGED vars
  BY <1>4 DEF CreateOpenSelect, CreateOpenInsert, DrainStart, ServerRestart,
       DeleteKey, DeleteFid, RemoveOldTempfiles, vars
<1> QED
  BY <1>2, <1>3, <1>4 DEF Next

LEMMA VisitEffect ==
  ASSUME EfesTypeOK, [Next]_vars, NEW p \in Copies
  PROVE  \/ visit'[p] \in {visit[p], "none"}
         \/ CleanStat(p) \/ CleanQueryFileOn(p) \/ CleanQueryTempfile(p)
<1>1. visit \in [Copies -> VisitSteps]
  BY DEF EfesTypeOK
<1>2. ASSUME NEW q \in Copies, CleanerNext(q)
      PROVE  \/ visit'[p] \in {visit[p], "none"}
             \/ p = q /\ (CleanStat(p) \/ CleanQueryFileOn(p) \/ CleanQueryTempfile(p))
  BY <1>1, <1>2 DEF CleanerNext, CleanStat, CleanQueryFileOn, CleanQueryTempfile,
       CleanRemove, CleanError, CheckFidMissing, CheckFidReplicated, VisitStep,
       procVars
<1>3. ASSUME NEW d \in Devices, ServerRestart(d) PROVE visit'[p] \in {visit[p], "none"}
  BY <1>3 DEF ServerRestart
<1>4. ASSUME NEW q \in Copies,
             \/ UploadNext(q) \/ LateCheck(q) \/ LateSave(q) \/ Publish(q)
             \/ Consume(q) \/ Age(q)
      PROVE  visit' = visit
  BY <1>4 DEF UploadNext, PatchCheck, PatchSave, Abandon, CreateClose,
       LateCheck, LateSave, Publish, Consume, Age, procVars
<1>5. ASSUME NEW d \in Devices, DrainStart(d) \/ DrainerNext(d) PROVE visit' = visit
  BY <1>5 DEF DrainStart, DrainerNext, DrainList, DrainOpen, DrainSkip,
       DrainWrite, DrainSent, DrainSentTorn, DrainAccept, DrainUpdate,
       DrainRemove, DrainError, DrainExit, DrainStep
<1>6. CASE \/ \E d \in Devices : CreateOpenSelect(d) \/ CreateOpenInsert(d)
           \/ \E k \in Keys : DeleteKey(k)
           \/ \E f \in Fids : DeleteFid(f)
           \/ \E rows \in SUBSET tempfile : RemoveOldTempfiles(rows)
           \/ UNCHANGED vars
  BY <1>6 DEF CreateOpenSelect, CreateOpenInsert, DeleteKey, DeleteFid,
       RemoveOldTempfiles, vars, procVars
<1> QED
  BY <1>2, <1>3, <1>4, <1>5, <1>6 DEF Next

LEMMA UploadEffect ==
  ASSUME EfesTypeOK, [Next]_vars, NEW p \in Copies
  PROVE  \/ upload'[p] \in {upload[p], "none"}
         \/ upload[p] # "none" /\ upload'[p] \in {"sending", "checked"}
         \/ PatchSave(p)
         \/ \E d \in Devices : CreateOpenInsert(d) /\ p = <<nextFid, d>>
<1>1. upload \in [Copies -> UploadSteps]
  BY DEF EfesTypeOK
<1>2. ASSUME NEW q \in Copies, UploadNext(q)
      PROVE  \/ upload'[p] \in {upload[p], "none"}
             \/ upload[p] # "none" /\ upload'[p] \in {"sending", "checked"}
             \/ p = q /\ PatchSave(p)
  BY <1>1, <1>2 DEF UploadNext, PatchCheck, PatchSave, Abandon, CreateClose
<1>3. ASSUME NEW d \in Devices, CreateOpenInsert(d)
      PROVE  upload'[p] = upload[p] \/ p = <<nextFid, d>>
  BY <1>1, <1>3 DEF CreateOpenInsert
<1>4. ASSUME NEW d \in Devices, ServerRestart(d)
      PROVE  upload'[p] = upload[p] \/ (upload[p] # "none" /\ upload'[p] = "sending")
  BY <1>4 DEF ServerRestart
<1>5. ASSUME NEW q \in Copies,
             \/ LateCheck(q) \/ LateSave(q) \/ Publish(q) \/ Consume(q)
             \/ CleanerNext(q) \/ Age(q)
      PROVE  upload' = upload
  BY <1>5 DEF LateCheck, LateSave, Publish, Consume, Age, CleanerNext, CleanStat, CleanQueryFileOn,
       CleanQueryTempfile, CleanRemove, CleanError, CheckFidMissing,
       CheckFidReplicated, VisitStep, procVars
<1>6. ASSUME NEW d \in Devices, DrainStart(d) \/ DrainerNext(d) PROVE upload' = upload
  BY <1>6 DEF DrainStart, DrainerNext, DrainList, DrainOpen, DrainSkip,
       DrainWrite, DrainSent, DrainSentTorn, DrainAccept, DrainUpdate,
       DrainRemove, DrainError, DrainExit, DrainStep
<1>7. CASE \/ \E d \in Devices : CreateOpenSelect(d)
           \/ \E k \in Keys : DeleteKey(k)
           \/ \E f \in Fids : DeleteFid(f)
           \/ \E rows \in SUBSET tempfile : RemoveOldTempfiles(rows)
           \/ UNCHANGED vars
  BY <1>7 DEF CreateOpenSelect, DeleteKey, DeleteFid, RemoveOldTempfiles, vars,
       procVars
<1> QED
  BY <1>2, <1>3, <1>4, <1>5, <1>6, <1>7 DEF Next

LEMMA TempfileEffect ==
  ASSUME EfesTypeOK, MetaInv, [Next]_vars, NEW p \in tempfile, p \notin tempfile'
  PROVE  (\E k \in Keys : CreateClose(p, k)) \/ Dead(p[1])'
<1>0. p \in Copies /\ p = <<p[1], p[2]>>
  BY DEF EfesTypeOK, MetaTypeOK, Copies
<1>1. ASSUME NEW rows \in SUBSET tempfile, RemoveOldTempfiles(rows)
      PROVE  Dead(p[1])'
  BY <1>1, ExpiredRowsDie DEF RemoveOldTempfiles, ExpireTempfiles
<1>2. ASSUME NEW q \in Copies, NEW k \in Keys, CreateClose(q, k) PROVE p = q
  BY <1>2 DEF CreateClose, CloseTempfile, Copies
<1>3. ASSUME NEW q \in Copies,
             \/ PatchCheck(q) \/ PatchSave(q) \/ Abandon(q) \/ LateCheck(q)
             \/ LateSave(q) \/ Publish(q) \/ Consume(q) \/ Age(q) \/ CleanerNext(q)
      PROVE  FALSE
  BY <1>3 DEF PatchCheck, PatchSave, Abandon, LateCheck, LateSave, Publish, Consume,
       Age, CleanerNext,
       CleanStat, CleanQueryFileOn, CleanQueryTempfile, CleanRemove, CleanError,
       CheckFidMissing, CheckFidReplicated, DropRows, VisitStep, metaVars
<1>4. ASSUME NEW d \in Devices,
             \/ CreateOpenSelect(d) \/ CreateOpenInsert(d) \/ ServerRestart(d)
             \/ DrainStart(d) \/ DrainerNext(d)
      PROVE  FALSE
  BY <1>4 DEF CreateOpenSelect, CreateOpenInsert, InsertTempfile, ServerRestart,
       SetAlive, DrainStart, SetDrain, DrainerNext, DrainList, DrainOpen,
       DrainSkip, DrainWrite, DrainSent, DrainSentTorn, DrainAccept,
       DrainUpdate, MoveRow, DrainRemove, DrainError, DrainExit, metaVars
<1>5. ASSUME \/ \E k \in Keys : DeleteKey(k)
             \/ \E f \in Fids : DeleteFid(f)
             \/ UNCHANGED vars
      PROVE  FALSE
  BY <1>5 DEF DeleteKey, DeleteFid, DeleteFids, vars, metaVars
<1> QED
  BY <1>0, <1>1, <1>2, <1>3, <1>4, <1>5 DEF Next, UploadNext

LEMMA DrainingGrows ==
  ASSUME ~ResetOnStart, [Next]_vars
  PROVE  draining \subseteq draining'
<1>1. ASSUME NEW d \in Devices,
             \/ CreateOpenSelect(d) \/ CreateOpenInsert(d) \/ ServerRestart(d)
             \/ DrainStart(d) \/ DrainerNext(d)
      PROVE  draining \subseteq draining'
  BY <1>1 DEF CreateOpenSelect, CreateOpenInsert, InsertTempfile, ServerRestart,
       DrainStart, SetDrain, DrainerNext, DrainList, DrainOpen, DrainSkip,
       DrainWrite, DrainSent, DrainSentTorn, DrainAccept, DrainUpdate, MoveRow,
       DrainRemove, DrainError, DrainExit, metaVars
<1>2. ASSUME NEW q \in Copies,
             \/ UploadNext(q) \/ LateCheck(q) \/ LateSave(q) \/ Publish(q)
             \/ Consume(q) \/ CleanerNext(q) \/ Age(q)
      PROVE  draining \subseteq draining'
  BY <1>2 DEF UploadNext, PatchCheck, PatchSave, Abandon, CreateClose,
       CloseTempfile, LateCheck, LateSave, Publish, Consume, Age, CleanerNext,
       CleanStat, CleanQueryFileOn, CleanQueryTempfile, CleanRemove, CleanError,
       CheckFidMissing, CheckFidReplicated, DropRows, VisitStep, metaVars
<1>3. CASE \/ \E k \in Keys : DeleteKey(k)
           \/ \E f \in Fids : DeleteFid(f)
           \/ \E rows \in SUBSET tempfile : RemoveOldTempfiles(rows)
           \/ UNCHANGED vars
  BY <1>3 DEF DeleteKey, DeleteFid, DeleteFids, RemoveOldTempfiles, ExpireTempfiles,
       vars, metaVars
<1> QED
  BY <1>1, <1>2, <1>3 DEF Next

LEMMA AgedEffect ==
  ASSUME EfesTypeOK, [Next]_vars, NEW p \in Copies, p \notin aged, p \in aged'
  PROVE  Age(p)
BY DiskEffect DEF EfesTypeOK, PatchSave, LateSave, Consume, CleanRemove, DrainWrite,
     DrainSent, DrainSentTorn, DrainAccept, DrainRemove, RemoveCopy, WriteCopy,
     DrainTarget

\* What must be true before the step for it to change the contents of a copy.
LEMMA DiskWriters ==
  ASSUME EfesTypeOK, [Next]_vars, NEW p \in Copies
  PROVE  \/ disk'[p] = disk[p]
         \/ upload[p] = "checked" \/ p \in stray \/ p \in queue
         \/ visit[p] = "unclaimed"
         \/ \E d \in Devices : /\ DrainWrite(d) \/ DrainSent(d) \/ DrainSentTorn(d)
                               /\ Holding(d) /\ p = DrainTarget(d)
         \/ \E d \in Devices : drainer[d].at = "moved" /\ p = <<drainer[d].fid, d>>
<1>1. CASE Age(p) \/ PatchSave(p) \/ LateSave(p) \/ Consume(p) \/ CleanRemove(p)
  BY <1>1 DEF Age, PatchSave, LateSave, Consume, CleanRemove, VisitStep
<1>2. ASSUME NEW d \in Devices, DrainWrite(d) \/ DrainSent(d) \/ DrainSentTorn(d)
      PROVE  Holding(d)
  BY <1>2 DEF DrainWrite, DrainSent, DrainSentTorn, DrainAccept, Holding
<1>3. ASSUME NEW d \in Devices, DrainRemove(d) PROVE drainer[d].at = "moved"
  BY <1>3 DEF DrainRemove
<1> QED
  BY <1>1, <1>2, <1>3, DiskEffect

LEMMA DrainFacts ==
  ASSUME DrainInv, NEW d \in Devices
  PROVE  /\ Holding(d) \/ drainer[d].at = "moved" => Past(drainer[d].fid)
         /\ Holding(d) => /\ Closed(drainer[d].fid) => <<drainer[d].fid, d>> \in fileOn
                          /\ drainer[d].fid \notin drainer[d].todo
                          /\ drainer[d].dest # d
BY DEF DrainInv, Owns

-----------------------------------------------------------------------------
(* The inductive invariant is preserved: one lemma for each conjunct.      *)

LEMMA StepFacts ==
  ASSUME DurableIInv, [Next]_vars
  PROVE  /\ EfesTypeOK /\ MetaInv /\ RowsInv /\ TasksInv /\ [MetaNext]_metaVars
         /\ TasksIInv' /\ EfesTypeOK' /\ MetaInv'
BY TasksKept, NextIsTransaction DEF DurableIInv, TasksIInv

\* While a drainer runs, no file has two rows.
LEMMA DrainedHaveOneRow ==
  ASSUME DurableIInv, NEW d \in Devices, drainer[d].at # "off"
  PROVE  OneRow /\ Drainable # {}
BY DEF DurableIInv, DrainInv, TasksIInv, RowsInv

LEMMA DurableKept ==
  ASSUME DurableIInv, [Next]_vars
  PROVE  Durable'
<1> SUFFICES ASSUME NEW p \in fileOn' PROVE disk'[p] = "full"
  BY DEF Durable
<1>0. p \in Copies /\ p = <<p[1], p[2]>>
  BY StepFacts DEF EfesTypeOK, MetaTypeOK, Copies
<1>1. CASE p \in fileOn
  <2>1. disk[p] = "full" /\ Closed(p[1]) /\ ~HasTempfile(p[1]) /\ ~Dead(p[1])
    BY <1>1, StepFacts, RowsAreLive DEF DurableIInv, Durable, Dead, Live
  <2>2. upload[p] = "none"
    BY <1>0, <2>1, StepFacts, RowsAreLive DEF DurableIInv, UploadInv
  <2>3. p \notin queue /\ p \notin stray
    BY <1>1, StepFacts DEF TasksInv, Over, DurableIInv, StrayInv
  <2>4. visit[p] # "unclaimed"
    BY <1>0, <1>1 DEF DurableIInv, VisitInv
  <2>5. ASSUME NEW d \in Devices, Holding(d) PROVE p # DrainTarget(d)
    <3>1. SUFFICES ASSUME p = DrainTarget(d) PROVE FALSE
      OBVIOUS
    <3>2. p[1] = drainer[d].fid /\ p[2] = drainer[d].dest
      BY <3>1 DEF DrainTarget
    <3>3. <<p[1], d>> \in fileOn /\ d # p[2]
      BY <2>1, <2>5, <3>2, DrainFacts DEF DurableIInv
    <3> QED
      BY <1>0, <1>1, <2>5, <3>3, DrainedHaveOneRow DEF OneRow, Holding
  <2>6. ASSUME NEW d \in Devices, drainer[d].at = "moved"
        PROVE  p # <<drainer[d].fid, d>>
    BY <1>1, <2>6 DEF DurableIInv, DrainInv
  <2> QED
    BY <1>0, <2>1, <2>2, <2>3, <2>4, <2>5, <2>6, StepFacts, DiskWriters
<1>2. CASE p \notin fileOn
  <2>1. CASE \E k \in Keys : CreateClose(p, k)
    <3>1. upload[p] = "sent" /\ p \in tempfile /\ disk' = disk
      BY <1>0, <2>1 DEF CreateClose, CloseTempfile
    <3> QED
      BY <1>0, <3>1 DEF DurableIInv, UploadInv
  <2>2. ASSUME NEW d \in Devices, DrainUpdate(d), p = DrainTarget(d),
               <<drainer[d].fid, d>> \in fileOn
        PROVE  disk'[p] = "full"
    <3>1. Closed(drainer[d].fid)
      BY <2>2, StepFacts, RowsAreLive
    <3> QED
      BY <2>2, <3>1 DEF DurableIInv, DrainInv, DrainUpdate
  <2> QED
    BY <1>0, <1>2, <2>1, <2>2, StepFacts, RowsEffect DEF DurableIInv
<1> QED
  BY <1>1, <1>2

LEMMA FreshKept ==
  ASSUME DurableIInv, [Next]_vars
  PROVE  Fresh'
<1> SUFFICES ASSUME NEW p \in Copies, p[1] >= nextFid'
             PROVE  disk'[p] = "absent" /\ visit'[p] = "none" /\ p \notin aged'
  BY DEF Fresh
<1>1. p[1] \in Nat /\ nextFid \in Nat /\ p[1] >= nextFid
  BY StepFacts, NextFidGrows DEF Copies, Fids
<1>2. disk[p] = "absent" /\ visit[p] = "none" /\ p \notin aged
  BY <1>1 DEF DurableIInv, Fresh
<1>3. upload[p] = "none"
  BY <1>1, StepFacts, RowsAreLive DEF DurableIInv, UploadInv, Dead
<1>4. p \notin queue /\ p \notin stray
  BY <1>1, StepFacts DEF TasksInv, Over, Past, DurableIInv, StrayInv
<1>5. \A d \in Devices : Holding(d) \/ drainer[d].at = "moved"
         => p # DrainTarget(d) /\ p # <<drainer[d].fid, d>>
  <2>1. ASSUME NEW d \in Devices, Holding(d) \/ drainer[d].at = "moved"
        PROVE  drainer[d].fid # p[1]
    <3>1. drainer[d].fid < nextFid
      BY <2>1, DrainFacts DEF DurableIInv, Past
    <3> QED
      BY <1>1, <3>1
  <2> QED
    BY <2>1 DEF DrainTarget
<1>6. disk'[p] = "absent"
  BY <1>2, <1>3, <1>4, <1>5, StepFacts, DiskWriters
<1>7. p \notin aged'
  BY <1>2, StepFacts, AgedEffect DEF Age
<1>8. visit'[p] = "none"
  BY <1>2, StepFacts, VisitEffect
     DEF CleanStat, CleanQueryFileOn, CleanQueryTempfile, VisitStep
<1> QED
  BY <1>6, <1>7, <1>8

LEMMA UploadKept ==
  ASSUME DurableIInv, [Next]_vars, Timely, Tidy
  PROVE  UploadInv'
<1> SUFFICES ASSUME NEW p \in Copies, upload'[p] # "none"
             PROVE  /\ p \in tempfile' \/ Dead(p[1])'
                    /\ p \notin aged' /\ visit'[p] = "none"
                    /\ upload'[p] = "sent" /\ p \in tempfile' => disk'[p] = "full"
  BY DEF UploadInv
<1>0. p[1] \in Fids /\ p = <<p[1], p[2]>>
  BY DEF Copies
<1>1. ASSUME NEW d \in Devices, CreateOpenInsert(d), p = <<nextFid, d>>
      PROVE  /\ p \in tempfile' \/ Dead(p[1])'
             /\ p \notin aged' /\ visit'[p] = "none"
             /\ upload'[p] = "sent" /\ p \in tempfile' => disk'[p] = "full"
  <2>1. p \in tempfile' /\ upload'[p] = "sending" /\ aged' = aged /\ visit' = visit
    BY <1>1, StepFacts DEF CreateOpenInsert, InsertTempfile, EfesTypeOK
  <2>2. p[1] >= nextFid
    BY <1>1, StepFacts, NextFidGrows
  <2> QED
    BY <2>1, <2>2 DEF DurableIInv, Fresh
<1>2. CASE upload[p] # "none"
  <2>1. /\ p \in tempfile \/ Dead(p[1])
        /\ p \notin aged /\ visit[p] = "none"
        /\ upload[p] = "sent" /\ p \in tempfile => disk[p] = "full"
    BY <1>2 DEF DurableIInv, UploadInv
  <2>2. Dead(p[1]) => Dead(p[1])'
    BY <1>0, StepFacts, DeadKept
  <2>3. \A k \in Keys : ~CreateClose(p, k)
    BY StepFacts DEF CreateClose, EfesTypeOK
  <2>4. p \in tempfile' \/ Dead(p[1])'
    BY <2>1, <2>2, <2>3, StepFacts, TempfileEffect
  <2>5. p \notin aged'
    BY <1>2, <2>1, StepFacts, AgedEffect DEF Age, MayAge, InFlight
  <2>6. visit'[p] = "none"
    BY <2>1, StepFacts, VisitEffect
       DEF CleanStat, CleanQueryFileOn, CleanQueryTempfile, VisitStep
  <2>7. ASSUME upload'[p] = "sent", p \in tempfile' PROVE disk'[p] = "full"
    <3>1. p \in tempfile
      <4>1. HasTempfile(p[1])'
        BY <1>0, <2>7 DEF HasTempfile, Copies
      <4> QED
        BY <2>1, <2>2, <4>1 DEF Dead, Live
    <3>2. CASE PatchSave(p)
      BY <2>7, <3>2, StepFacts DEF PatchSave, WriteCopy, EfesTypeOK, Tidy
    <3>3. CASE upload[p] = "sent"
      <4>1. disk[p] = "full"
        BY <2>1, <3>1, <3>3
      <4>2. HasTempfile(p[1]) /\ ~Dead(p[1])
        BY <3>1, StepFacts, RowsAreLive DEF Dead, Live
      <4>3. p \notin queue /\ p \notin stray
        BY <3>3, <4>2, StepFacts DEF TasksInv, Over, Past, DurableIInv, StrayInv
      <4>4. \A d \in Devices :
              Holding(d) \/ drainer[d].at = "moved"
                => p # DrainTarget(d) /\ p # <<drainer[d].fid, d>>
        <5>1. \A d \in Devices : Holding(d) \/ drainer[d].at = "moved"
                 => drainer[d].fid # p[1]
          BY <4>2, DrainFacts DEF DurableIInv, Past
        <5> QED
          BY <5>1 DEF DrainTarget
      <4> QED
        BY <2>1, <3>3, <4>1, <4>3, <4>4, StepFacts, DiskWriters
    <3>4. upload[p] = "sent" \/ PatchSave(p)
      <4>1. ASSUME NEW d \in Devices, CreateOpenInsert(d), p = <<nextFid, d>>
            PROVE  FALSE
        BY <2>7, <4>1, StepFacts DEF CreateOpenInsert, EfesTypeOK
      <4> QED
        BY <2>7, <4>1, StepFacts, UploadEffect
    <3> QED
      BY <3>2, <3>3, <3>4
  <2> QED
    BY <2>4, <2>5, <2>6, <2>7
<1> QED
  BY <1>1, <1>2, StepFacts, UploadEffect DEF PatchSave

LEMMA VisitKept ==
  ASSUME DurableIInv, [Next]_vars
  PROVE  VisitInv'
<1> SUFFICES ASSUME NEW p \in Copies, visit'[p] \in {"notOnDevice", "unclaimed"},
                    p \in fileOn'
             PROVE  FALSE
  BY DEF VisitInv
<1>1. CASE visit'[p] = visit[p]
  <2>1. p \notin fileOn
    BY <1>1 DEF DurableIInv, VisitInv
  <2>2. upload[p] = "none"
    BY <1>1 DEF DurableIInv, UploadInv
  <2>3. ASSUME NEW d \in Devices, DrainUpdate(d) PROVE p # DrainTarget(d)
    BY <1>1, <2>3 DEF DurableIInv, DrainInv, DrainUpdate
  <2> QED
    BY <2>1, <2>2, <2>3, StepFacts, RowsEffect DEF DurableIInv, CreateClose
<1>2. CASE CleanStat(p)
  BY <1>2, StepFacts DEF CleanStat, VisitStep, EfesTypeOK
<1>3. CASE CleanQueryFileOn(p)
  BY <1>3, StepFacts DEF CleanQueryFileOn, VisitStep, EfesTypeOK, metaVars
<1>4. CASE CleanQueryTempfile(p)
  BY <1>4 DEF CleanQueryTempfile, VisitStep, DurableIInv, VisitInv, metaVars
<1> QED
  BY <1>1, <1>2, <1>3, <1>4, StepFacts, VisitEffect

LEMMA OwnsKept ==
  ASSUME DurableIInv, OneRow, [Next]_vars, NEW d \in Devices, NEW f, Owns(d, f),
         ~(DrainUpdate(d) /\ f = drainer[d].fid)
  PROVE  Owns(d, f)'
<1>1. Past(f)' /\ (Closed(f)' => Closed(f))
  BY StepFacts, PastKept DEF Owns
<1>2. ASSUME Closed(f)' PROVE <<f, d>> \in fileOn'
  <2>1. <<f, d>> \in fileOn
    BY <1>1, <1>2 DEF Owns
  <2>2. <<f, d>> \in Copies
    BY <2>1, StepFacts DEF EfesTypeOK, MetaTypeOK
  <2>3. ~CheckFidMissing(<<f, d>>)
    BY <2>1 DEF CheckFidMissing, DurableIInv, Durable
  <2>4. ASSUME <<f, d>> \notin fileOn', NEW q \in fileOn', q[1] = f
        PROVE  ~CheckFidReplicated(q)
    BY <2>1, <2>4 DEF CheckFidReplicated, OneRow
  <2> QED
    BY <1>2, <2>1, <2>2, <2>3, <2>4, StepFacts, RowsEffect
<1> QED
  BY <1>1, <1>2 DEF Owns

\* Two drainers never hold one closed file.
LEMMA OneHolder ==
  ASSUME DurableIInv, NEW d \in Devices, NEW e \in Devices, Holding(d), Holding(e),
         drainer[d].fid = drainer[e].fid, Closed(drainer[d].fid)
  PROVE  d = e
BY DrainFacts, DrainedHaveOneRow DEF DurableIInv, OneRow, Holding

\* The target of a drain is left alone by everybody but that drain.
LEMMA TargetKept ==
  ASSUME DurableIInv, [Next]_vars, Timely, Tidy, NEW d \in Devices, Holding(d),
         drainer[d].at # "opened", ~DrainWrite(d), ~DrainSent(d),
         NEW f, f = drainer[d].fid, NEW p, p = DrainTarget(d)
  PROVE  /\ p \notin aged' /\ visit'[p] = "none"
         /\ Closed(f)' => Closed(f) /\ disk'[p] = disk[p]
<1>0. /\ Past(f) /\ p \in Copies /\ p[1] = f /\ p = <<f, drainer[d].dest>>
      /\ p \notin aged /\ visit[p] = "none"
  <2>1. Past(f) /\ drainer[d].dest \in Devices /\ f \in Fids
    BY StepFacts, DrainFacts DEF DurableIInv, EfesTypeOK, DrainState, Past
  <2> QED
    BY <2>1 DEF DrainTarget, Copies, DurableIInv, DrainInv, Holding
<1>1. p \notin aged'
  <2>1. DrainerHolds(d, p)
    BY <1>0 DEF DrainerHolds, Holding
  <2> QED
    BY <1>0, <2>1, StepFacts, AgedEffect DEF Age, MayAge, InFlight
<1>2. visit'[p] = "none"
  BY <1>0, StepFacts, VisitEffect
     DEF CleanStat, CleanQueryFileOn, CleanQueryTempfile, VisitStep
<1>3. ASSUME Closed(f)' PROVE Closed(f) /\ disk'[p] = disk[p]
  <2>1. Closed(f) /\ ~HasTempfile(f) /\ ~Dead(f)
    BY <1>0, <1>3, StepFacts, PastKept DEF Past, Dead, Live
  <2>2. upload[p] = "none"
    BY <1>0, <2>1, StepFacts, RowsAreLive DEF DurableIInv, UploadInv
  <2>3. p \notin queue
    BY <1>0, <2>1, StepFacts, DrainedHaveOneRow DEF TasksInv, Over, Holding
  <2>6. p \notin stray
    BY <1>0, <2>1 DEF DurableIInv, StrayInv, Holding
  <2>7. ~DrainSentTorn(d)
    BY DEF DrainSentTorn, Tidy
  <2>4. ASSUME NEW e \in Devices, Holding(e), p = DrainTarget(e) PROVE e = d
    <3>1. drainer[e].fid = f
      BY <1>0, <2>4 DEF DrainTarget
    <3> QED
      BY <2>1, <2>4, <3>1, OneHolder
  <2>5. ASSUME NEW e \in Devices, drainer[e].at = "moved"
        PROVE  p # <<drainer[e].fid, e>>
    BY <1>0, <2>1, <2>5 DEF DurableIInv, MovedInv
  <2> QED
    BY <1>0, <2>1, <2>2, <2>3, <2>4, <2>5, <2>6, <2>7, StepFacts, DiskWriters
<1> QED
  BY <1>1, <1>2, <1>3

\* Who leaves a handler behind.
LEMMA StrayEffect ==
  ASSUME EfesTypeOK, Tidy, [Next]_vars, NEW p \in stray', p \notin stray
  PROVE  \/ Abandon(p) /\ upload[p] = "checked"
         \/ LateCheck(p)
         \/ \E d \in Devices : /\ DrainError(d) \/ DrainExit(d)
                               /\ Holding(d) /\ p = DrainTarget(d)
<1>1. ASSUME NEW d \in Devices, DrainError(d) \/ DrainExit(d)
      PROVE  Holding(d) /\ p = DrainTarget(d)
  BY <1>1 DEF DrainError, DrainExit, DrainLeaves, LeaveStray, Holding
<1>2. ASSUME NEW d \in Devices, DrainerNext(d), ~DrainError(d), ~DrainExit(d)
      PROVE  FALSE
  BY <1>2 DEF DrainerNext, DrainList, DrainSkip, DrainOpen, DrainWrite, DrainSent,
       DrainSentTorn, DrainAccept, LeaveStray, Tidy, DrainUpdate, DrainRemove
<1>3. ASSUME NEW q \in Copies, PatchSave(q) \/ Abandon(q) \/ LateCheck(q)
      PROVE  (Abandon(p) /\ upload[p] = "checked") \/ LateCheck(p)
  <2>1. CASE PatchSave(q)
    BY <2>1 DEF PatchSave, LeaveStray, Tidy
  <2>2. CASE Abandon(q)
    BY <2>2 DEF Abandon, LeaveStray
  <2>3. CASE LateCheck(q)
    BY <2>3 DEF LateCheck
  <2> QED
    BY <1>3, <2>1, <2>2, <2>3
<1>4. ASSUME NEW q \in Copies,
             \/ PatchCheck(q) \/ LateSave(q) \/ Publish(q) \/ Consume(q) \/ Age(q)
             \/ CleanerNext(q) \/ \E k \in Keys : CreateClose(q, k)
      PROVE  FALSE
  BY <1>4 DEF PatchCheck, LateSave, Publish, Consume, Age, CleanerNext, CleanStat,
       CleanQueryFileOn, CleanQueryTempfile, CleanRemove, CleanError,
       CheckFidMissing, CheckFidReplicated, VisitStep, CreateClose, procVars
<1>5. CASE \/ \E d \in Devices : \/ CreateOpenSelect(d) \/ CreateOpenInsert(d)
                                 \/ DrainStart(d) \/ ServerRestart(d)
           \/ \E k \in Keys : DeleteKey(k)
           \/ \E f \in Fids : DeleteFid(f)
           \/ \E rows \in SUBSET tempfile : RemoveOldTempfiles(rows)
           \/ UNCHANGED vars
  BY <1>5 DEF CreateOpenSelect, CreateOpenInsert, DrainStart, ServerRestart,
       DeleteKey, DeleteFid, RemoveOldTempfiles, vars, procVars
<1> QED
  BY <1>1, <1>2, <1>3, <1>4, <1>5 DEF Next, UploadNext

\* A drainer that comes to send, or goes on to send, to a copy.
LEMMA SendEffect ==
  ASSUME EfesTypeOK, Tidy, [Next]_vars, NEW d \in Devices,
         drainer'[d].at \in {"sending", "sent"}
  PROVE  /\ Holding(d) /\ DrainTarget(d)' = DrainTarget(d)
         /\ drainer[d].fid = drainer'[d].fid
         /\ drainer[d].at = "opened" =>
              DrainTarget(d) \notin stray /\ stray' = stray
<1>0. /\ drainer \in [Devices -> DrainState]
      /\ DrainNext(d).at = "loop" /\ DrainIdle(d).at = "off"
      /\ \A state : DrainStep(d, state) => drainer'[d] = state
  BY DEF EfesTypeOK, DrainNext, DrainIdle, DrainStep
<1>1. CASE drainer'[d] = drainer[d]
  BY <1>1 DEF Holding, DrainTarget
<1>2. CASE DrainWrite(d)
  <2>1. /\ drainer[d].at \in {"opened", "sending"}
        /\ drainer'[d].fid = drainer[d].fid /\ drainer'[d].dest = drainer[d].dest
    BY <1>0, <1>2 DEF DrainWrite, DrainState
  <2> QED
    BY <1>2, <2>1 DEF DrainWrite, DrainTarget, Holding, Tidy
<1>3. CASE DrainSent(d) \/ DrainSentTorn(d)
  <2>1. /\ drainer[d].at = "sending"
        /\ drainer'[d].fid = drainer[d].fid /\ drainer'[d].dest = drainer[d].dest
    BY <1>0, <1>3 DEF DrainSent, DrainSentTorn, DrainAccept, DrainState
  <2> QED
    BY <2>1 DEF DrainTarget, Holding
<1>4. CASE \/ DrainStart(d) \/ DrainList(d) \/ DrainUpdate(d) \/ DrainRemove(d)
           \/ DrainError(d) \/ DrainExit(d)
  <2>1. drainer'[d].at \in {"listing", "loop", "moved", "off"}
    BY <1>0, <1>4 DEF DrainStart, DrainList, DrainUpdate, DrainRemove, DrainError,
         DrainExit, DrainIdle, DrainState
  <2> QED
    BY <2>1
<1>5. ASSUME NEW f \in Fids, DrainSkip(d, f) PROVE FALSE
  <2>1. drainer'[d].at = "loop"
    BY <1>0, <1>5 DEF DrainSkip, DrainState
  <2> QED
    BY <2>1
<1>6. ASSUME NEW f \in Fids, NEW e \in Devices, DrainOpen(d, f, e) PROVE FALSE
  <2>1. drainer'[d].at = "opened"
    BY <1>0, <1>6 DEF DrainOpen
  <2> QED
    BY <2>1
<1> QED
  BY <1>1, <1>2, <1>3, <1>4, <1>5, <1>6, DrainerEffect DEF DrainerNext

\* What StrayInv says of one copy.
Harmless(p) ==
    /\ p[1] < nextFid /\ p \notin fileOn
    /\ upload[p] = "none" \/ Dead(p[1])
    /\ \A d \in Devices :
         drainer[d].at \in {"sending", "sent"} /\ p = DrainTarget(d)
           => ~Closed(p[1])

\* A handler that has been left behind stays harmless.
LEMMA HarmlessStays ==
  ASSUME DurableIInv, [Next]_vars, Tidy, NEW p \in Copies, p \in stray
  PROVE  Harmless(p)'
<1>0. Harmless(p) /\ p[1] \in Fids /\ p = <<p[1], p[2]>>
  BY DEF DurableIInv, StrayInv, Harmless, Copies
<1>1. p[1] < nextFid'
  BY <1>0, StepFacts, NextFidGrows DEF Harmless, Fids
<1>2. p \notin fileOn'
  <2>1. ASSUME NEW k \in Keys, CreateClose(p, k) PROVE FALSE
    <3>1. p \in tempfile /\ upload[p] = "sent"
      BY <1>0, <2>1 DEF CreateClose, CloseTempfile
    <3> QED
      BY <1>0, <3>1, StepFacts, RowsAreLive DEF Harmless, Dead, Live
  <2>2. ASSUME NEW d \in Devices, DrainUpdate(d), p = DrainTarget(d),
               <<drainer[d].fid, d>> \in fileOn
        PROVE  FALSE
    <3>1. Closed(p[1])
      BY <2>2, StepFacts, RowsAreLive DEF DrainTarget
    <3> QED
      BY <1>0, <2>2, <3>1 DEF Harmless, DrainUpdate
  <2> QED
    BY <1>0, <2>1, <2>2, StepFacts, RowsEffect DEF Harmless
<1>3. upload'[p] = "none" \/ Dead(p[1])'
  <2>1. Dead(p[1]) => Dead(p[1])'
    BY <1>0, StepFacts, DeadKept
  <2>2. ASSUME NEW d \in Devices, p = <<nextFid, d>> PROVE FALSE
    BY <1>0, <2>2, StepFacts, NextFidGrows DEF Harmless
  <2> QED
    BY <1>0, <2>1, <2>2, StepFacts, UploadEffect DEF Harmless, PatchSave
<1>4. ASSUME NEW d \in Devices, drainer'[d].at \in {"sending", "sent"},
             p = DrainTarget(d)'
      PROVE  ~Closed(p[1])'
  <2>1. /\ Holding(d) /\ p = DrainTarget(d) /\ drainer[d].at # "opened"
    BY <1>4, StepFacts, SendEffect
  <2>2. Past(p[1])
    BY <2>1, DrainFacts DEF DurableIInv, DrainTarget
  <2>3. ~Closed(p[1])
    BY <1>0, <2>1 DEF Harmless, Holding
  <2> QED
    BY <2>2, <2>3, StepFacts, PastKept
<1> QED
  BY <1>1, <1>2, <1>3, <1>4 DEF Harmless

\* A handler that is left behind now is harmless.
LEMMA HarmlessLeft ==
  ASSUME DurableIInv, [Next]_vars, Tidy, NEW p \in Copies, p \in stray', p \notin stray
  PROVE  Harmless(p)'
<1>0. p[1] \in Fids /\ p = <<p[1], p[2]>>
  BY DEF Copies
<1>1. CASE (Abandon(p) /\ upload[p] = "checked") \/ LateCheck(p)
  <2>1. /\ metaVars' = metaVars /\ drainer' = drainer /\ upload'[p] = "none"
        /\ p \in tempfile \/ Dead(p[1])
    <3>1. CASE Abandon(p) /\ upload[p] = "checked"
      BY <3>1, StepFacts DEF Abandon, EfesTypeOK, DurableIInv, UploadInv
    <3>2. CASE LateCheck(p)
      BY <3>2, StepFacts DEF LateCheck, EfesTypeOK, Tidy
    <3> QED
      BY <1>1, <3>1, <3>2
  <2>2. p[1] < nextFid /\ p \notin fileOn /\ (HasTempfile(p[1]) \/ ~Closed(p[1]))
    BY <2>1, StepFacts, RowsAreLive DEF Dead, Live
  <2>3. ASSUME NEW d \in Devices, Holding(d), p = DrainTarget(d)
        PROVE  ~Closed(p[1])
    BY <2>2, <2>3, DrainFacts DEF DurableIInv, DrainTarget, Past
  <2>4. ASSUME NEW d \in Devices, drainer'[d].at \in {"sending", "sent"},
               p = DrainTarget(d)'
        PROVE  ~Closed(p[1])'
    <3>1. Holding(d) /\ p = DrainTarget(d)
      BY <2>1, <2>4 DEF Holding, DrainTarget
    <3> QED
      BY <2>1, <2>3, <3>1 DEF Closed, metaVars
  <2> QED
    BY <2>1, <2>2, <2>4 DEF Harmless, metaVars
<1>2. ASSUME NEW d \in Devices, DrainError(d) \/ DrainExit(d), Holding(d),
             p = DrainTarget(d)
      PROVE  Harmless(p)'
  <2>1. /\ metaVars' = metaVars /\ upload' = upload
        /\ drainer'[d].at \in {"loop", "off"}
        /\ \A e \in Devices \ {d} : drainer'[e] = drainer[e]
    <3>1. DrainStep(d, DrainNext(d)) \/ DrainStep(d, DrainIdle(d))
      BY <1>2 DEF DrainError, DrainExit
    <3>2. DrainNext(d).at = "loop" /\ DrainIdle(d).at = "off"
      BY DEF DrainNext, DrainIdle
    <3>3. metaVars' = metaVars
      BY <1>2 DEF DrainError, DrainExit
    <3> QED
      BY <3>1, <3>2, <3>3, StepFacts DEF DrainStep, EfesTypeOK
  <2>2. /\ Past(p[1]) /\ p[1] = drainer[d].fid /\ d # p[2]
        /\ Closed(p[1]) => <<p[1], d>> \in fileOn
    BY <1>0, <1>2, DrainFacts DEF DurableIInv, DrainTarget
  <2>3. p \notin fileOn
    <3>1. p \in fileOn => Closed(p[1])
      BY StepFacts, RowsAreLive
    <3> QED
      BY <1>0, <1>2, <2>2, <3>1, DrainedHaveOneRow DEF OneRow, Holding
  <2>4. upload[p] = "none" \/ Dead(p[1])
    BY <1>0, <2>2, StepFacts, RowsAreLive DEF DurableIInv, UploadInv, Past
  <2>5. ASSUME NEW e \in Devices, drainer'[e].at \in {"sending", "sent"},
               p = DrainTarget(e)', Closed(p[1])
        PROVE  FALSE
    <3>1. e # d
      BY <2>1, <2>5
    <3>2. Holding(e) /\ drainer[e].fid = p[1]
      BY <1>0, <2>1, <2>5, <3>1 DEF Holding, DrainTarget
    <3> QED
      BY <1>2, <2>2, <2>5, <3>1, <3>2, OneHolder
  <2>6. Dead(p[1])' <=> Dead(p[1])
    BY <2>1 DEF Dead, Live, HasTempfile, Closed, metaVars
  <2>7. Closed(p[1])' <=> Closed(p[1])
    BY <2>1 DEF Closed, metaVars
  <2> QED
    BY <2>1, <2>2, <2>3, <2>4, <2>5, <2>6, <2>7 DEF Harmless, Past, metaVars
<1> QED
  BY <1>1, <1>2, StepFacts, StrayEffect

LEMMA StrayKept ==
  ASSUME DurableIInv, [Next]_vars, Tidy
  PROVE  StrayInv'
<1>1. \A p \in stray' : p \in Copies /\ Harmless(p)'
  BY StepFacts, HarmlessStays, HarmlessLeft DEF EfesTypeOK
<1> QED
  BY <1>1 DEF StrayInv, Harmless

\* What DrainInv says of one drainer.
DrainInvOf(d) ==
    /\ drainer[d].at # "off" => d \in Drainable /\ d \in draining
    /\ \A f \in drainer[d].todo : Owns(d, f)
    /\ Holding(d) => /\ Owns(d, drainer[d].fid)
                     /\ drainer[d].fid \notin drainer[d].todo
                     /\ drainer[d].dest # d
    /\ drainer[d].at \in {"sending", "sent"}
         => DrainTarget(d) \notin aged /\ visit[DrainTarget(d)] = "none"
    /\ drainer[d].at = "sent" /\ Closed(drainer[d].fid)
         => disk[DrainTarget(d)] = "full"
    /\ drainer[d].at = "moved"
         => Past(drainer[d].fid) /\ <<drainer[d].fid, d>> \notin fileOn

\* While the drainer of another device, or anybody else, takes a step.
LEMMA DrainInvStays ==
  ASSUME DurableIInv, OneRow, [Next]_vars, Timely, Tidy,
         DrainsAreApart, NEW d \in Devices, drainer'[d] = drainer[d], ~DrainWrite(d)
  PROVE  DrainInvOf(d)'
<1>1. DrainInvOf(d)
  BY DEF DurableIInv, DrainInv, DrainInvOf
<1>2. ~DrainUpdate(d) /\ ~DrainSent(d)
  <2>1. drainer \in [Devices -> DrainState] /\ DrainNext(d).at = "loop"
    BY StepFacts DEF EfesTypeOK, DrainNext, DrainIdle
  <2>2. CASE DrainUpdate(d)
    <3>1. drainer[d].at = "sent" /\ drainer'[d].at \in {"loop", "moved"}
      BY <2>1, <2>2 DEF DrainUpdate, DrainStep, DrainState
    <3> QED
      BY <3>1
  <2>3. CASE DrainSent(d)
    <3>1. drainer[d].at = "sending" /\ drainer'[d].at = "sent"
      BY <2>1, <2>3 DEF DrainSent, DrainSentTorn, DrainAccept, DrainStep,
           DrainState
    <3> QED
      BY <3>1
  <2> QED
    BY <2>2, <2>3
<1>3. drainer'[d].at # "off" => d \in Drainable /\ d \in draining'
  BY <1>1, DrainingGrows DEF DrainInvOf, DrainsAreApart
<1>4. \A f \in drainer'[d].todo : Owns(d, f)'
  BY <1>1, <1>2, OwnsKept DEF DrainInvOf
<1>5. Holding(d)' => Holding(d) /\ Owns(d, drainer[d].fid)'
  BY <1>1, <1>2, OwnsKept DEF DrainInvOf, Holding
<1>6. DrainTarget(d)' = DrainTarget(d)
  BY DEF DrainTarget
<1>7. ASSUME drainer[d].at \in {"sending", "sent"}
      PROVE  /\ (DrainTarget(d) \notin aged /\ visit[DrainTarget(d)] = "none")'
             /\ Closed(drainer[d].fid)'
                  => Closed(drainer[d].fid) /\ (disk[DrainTarget(d)])' = disk[DrainTarget(d)]
  <2>1. PICK f, p : f = drainer[d].fid /\ p = DrainTarget(d)
    OBVIOUS
  <2>2. Holding(d)
    BY <1>7 DEF Holding
  <2>3. /\ p \notin aged' /\ visit'[p] = "none"
        /\ Closed(f)' => Closed(f) /\ disk'[p] = disk[p]
    BY <1>2, <1>7, <2>1, <2>2, TargetKept
  <2>4. f = drainer'[d].fid /\ p = DrainTarget(d)'
    BY <1>6, <2>1
  <2> QED
    BY <2>1, <2>3, <2>4 DEF Closed
<1>8. ASSUME drainer[d].at = "moved"
      PROVE  Past(drainer[d].fid)' /\ <<drainer[d].fid, d>> \notin fileOn'
  <2>0. PICK f, p : f = drainer[d].fid /\ p = <<f, d>>
    OBVIOUS
  <2>1. Past(f) /\ p \notin fileOn /\ p \in Copies
    BY <1>1, <1>8, <2>0 DEF DrainInvOf, Past, Copies
  <2>2. Past(f)'
    BY <2>1, StepFacts, PastKept
  <2>3. ASSUME NEW k \in Keys, CreateClose(p, k) PROVE FALSE
    <3>1. p \in tempfile /\ p[1] = f
      BY <2>0, <2>3 DEF CreateClose, CloseTempfile
    <3> QED
      BY <2>1, <3>1, StepFacts, RowsAreLive DEF Past
  <2>4. ASSUME NEW e \in Devices, DrainUpdate(e), p = DrainTarget(e),
               <<drainer[e].fid, e>> \in fileOn
        PROVE  FALSE
    <3>1. Holding(e) /\ drainer[e].fid = f /\ drainer[e].dest = d
      BY <2>0, <2>4 DEF DrainUpdate, Holding, DrainTarget
    <3>2. Closed(f)
      BY <2>4, <3>1, StepFacts, RowsAreLive
    <3> QED
      BY <1>8, <2>0, <3>1, <3>2 DEF DurableIInv, MovedInv
  <2>5. p \notin fileOn'
    BY <2>1, <2>3, <2>4, StepFacts, RowsEffect DEF DurableIInv
  <2> QED
    BY <2>0, <2>2, <2>5 DEF Past, HasTempfile
<1> QED
  BY <1>1, <1>3, <1>4, <1>5, <1>6, <1>7, <1>8 DEF DrainInvOf

\* The steps of the drainer itself.
LEMMA DrainInvMoves ==
  ASSUME DurableIInv, OneRow, [Next]_vars, Timely, Tidy,
         DrainsAreApart, NEW d \in Devices, DrainStart(d) \/ DrainerNext(d)
  PROVE  DrainInvOf(d)'
<1>0. /\ drainer \in [Devices -> DrainState] /\ DrainNext(d).at = "loop"
      /\ DrainNext(d).todo = drainer[d].todo
      /\ \A state : DrainStep(d, state) => drainer'[d] = state
  BY StepFacts DEF EfesTypeOK, DrainNext, DrainIdle, DrainStep
<1>1. DrainInvOf(d)
  BY DEF DurableIInv, DrainInv, DrainInvOf
<1>2. d \in draining => d \in draining'
  BY DrainingGrows DEF DrainsAreApart
<1>3. metaVars' = metaVars => \A f : Owns(d, f) => Owns(d, f)'
  BY DEF Owns, Past, Closed, HasTempfile, metaVars
<1>4. CASE DrainStart(d)
  <2>1. /\ d \in Drainable /\ d \in draining'
        /\ drainer'[d].at = "listing" /\ drainer'[d].todo = {}
    BY <1>0, <1>4 DEF DrainStart, SetDrain, DrainIdle
  <2> QED
    BY <2>1 DEF DrainInvOf, Holding
<1>5. CASE DrainList(d)
  <2>1. /\ drainer[d].at = "listing" /\ metaVars' = metaVars
        /\ drainer'[d].at = "loop"
        /\ drainer'[d].todo = {f \in Fids : <<f, d>> \in fileOn}
    BY <1>0, <1>5 DEF DrainList, DrainIdle
  <2>2. \A f \in drainer'[d].todo : Owns(d, f)
    BY <2>1, StepFacts, RowsAreLive DEF Owns, Past
  <2> QED
    BY <1>1, <1>2, <1>3, <2>1, <2>2 DEF DrainInvOf, Holding
<1>6. ASSUME NEW f \in Fids, DrainSkip(d, f) PROVE DrainInvOf(d)'
  <2>1. /\ drainer[d].at = "loop" /\ metaVars' = metaVars
        /\ drainer'[d].at = "loop" /\ drainer'[d].todo \subseteq drainer[d].todo
    BY <1>0, <1>6 DEF DrainSkip, DrainState
  <2> QED
    BY <1>1, <1>2, <1>3, <2>1 DEF DrainInvOf, Holding
<1>7. ASSUME NEW f \in Fids, NEW e \in Devices, DrainOpen(d, f, e)
      PROVE  DrainInvOf(d)'
  <2>1. /\ drainer[d].at = "loop" /\ metaVars' = metaVars /\ f \in drainer[d].todo
        /\ drainer'[d].at = "opened" /\ drainer'[d].todo = drainer[d].todo \ {f}
        /\ drainer'[d].fid = f /\ drainer'[d].dest = e
    BY <1>0, <1>7 DEF DrainOpen
  <2>2. e # d
    BY <1>1, <1>7, <2>1 DEF DrainOpen, DrainTargets, DrainsAreApart, DrainInvOf
  <2>3. (\A g \in drainer[d].todo : Owns(d, g)') /\ d \in Drainable /\ d \in draining'
    BY <1>1, <1>2, <1>3, <2>1 DEF DrainInvOf
  <2> QED
    BY <2>1, <2>2, <2>3 DEF DrainInvOf, Owns, Past, Closed, HasTempfile, Holding
<1>8. CASE DrainWrite(d)
  <2>0. PICK p : p = DrainTarget(d)
    OBVIOUS
  <2>1. /\ metaVars' = metaVars /\ Holding(d)
        /\ drainer'[d].at = "sending" /\ drainer'[d].todo = drainer[d].todo
        /\ drainer'[d].fid = drainer[d].fid /\ drainer'[d].dest = drainer[d].dest
    BY <1>0, <1>8 DEF DrainWrite, DrainState, Holding
  <2>2. p \in Copies
    <3>1. drainer[d].fid \in Fids /\ drainer[d].dest \in Devices
      BY <1>0, <2>1, DrainFacts DEF DurableIInv, Past, DrainState
    <3> QED
      BY <2>0, <3>1 DEF DrainTarget, Copies
  <2>3. p \notin aged' /\ visit'[p] = "none"
    <3>1. visit[p] = "none"
      BY <1>1, <1>8, <2>0 DEF DrainInvOf, DrainWrite, VisitsApart
    <3> QED
      BY <1>8, <2>0, <3>1 DEF DrainWrite, WriteCopy, DrainStep
  <2>4. p = DrainTarget(d)'
    BY <2>0, <2>1 DEF DrainTarget
  <2>5. /\ \A f \in drainer'[d].todo : Owns(d, f)'
        /\ Owns(d, drainer[d].fid)'
        /\ drainer[d].fid \notin drainer'[d].todo /\ drainer'[d].dest # d
        /\ d \in Drainable /\ d \in draining'
    BY <1>1, <1>2, <1>3, <2>1 DEF DrainInvOf, Holding
  <2> QED
    BY <2>1, <2>3, <2>4, <2>5 DEF DrainInvOf, Owns, Past, Closed, HasTempfile
<1>9. CASE DrainSent(d)
  <2>0. PICK f, p : f = drainer[d].fid /\ p = DrainTarget(d)
    OBVIOUS
  <2>1. /\ drainer[d].at = "sending" /\ metaVars' = metaVars /\ Holding(d)
        /\ drainer'[d].at = "sent" /\ drainer'[d].todo = drainer[d].todo
        /\ drainer'[d].fid = drainer[d].fid /\ drainer'[d].dest = drainer[d].dest
    BY <1>0, <1>9 DEF DrainSent, DrainSentTorn, DrainAccept, DrainState, Holding
  <2>2. p \in Copies
    <3>1. drainer[d].fid \in Fids /\ drainer[d].dest \in Devices
      BY <1>0, <2>1, DrainFacts DEF DurableIInv, Past, DrainState
    <3> QED
      BY <2>0, <3>1 DEF DrainTarget, Copies
  <2>3. p \notin aged /\ visit[p] = "none"
    BY <1>1, <2>0, <2>1 DEF DrainInvOf
  <2>4. p \notin aged' /\ visit'[p] = "none"
    BY <1>9, <2>0, <2>3 DEF DrainSent, DrainSentTorn, DrainAccept, WriteCopy,
         DrainStep
  <2>5. ASSUME Closed(f) PROVE disk'[p] = "full"
    <3>1. disk[DrainSource(d)] = "full"
      BY <2>0, <2>1, <2>5, DrainFacts DEF DurableIInv, Durable, DrainSource
    <3> QED
      BY <1>9, <2>0, <2>2, <3>1, StepFacts
         DEF DrainSent, DrainSentTorn, DrainAccept, WriteCopy, DrainedContents,
              EfesTypeOK
  <2>6. p = DrainTarget(d)' /\ f = drainer'[d].fid /\ (Closed(f)' => Closed(f))
    BY <2>0, <2>1 DEF DrainTarget, Closed, metaVars
  <2>7. /\ \A g \in drainer'[d].todo : Owns(d, g)'
        /\ Owns(d, f)'
        /\ f \notin drainer'[d].todo /\ drainer'[d].dest # d
        /\ d \in Drainable /\ d \in draining'
    BY <1>1, <1>2, <1>3, <2>0, <2>1 DEF DrainInvOf, Holding
  <2> QED
    BY <2>1, <2>4, <2>5, <2>6, <2>7 DEF DrainInvOf, Owns, Past, Closed, HasTempfile
<1>10. CASE DrainUpdate(d)
  <2>0. PICK f, e : f = drainer[d].fid /\ e = drainer[d].dest
    OBVIOUS
  <2>1. /\ drainer[d].at = "sent" /\ Holding(d) /\ MoveRow(f, d, e)
        /\ drainer'[d].at \in {"loop", "moved"} /\ drainer'[d].todo = drainer[d].todo
        /\ drainer'[d].at = "moved"
             => /\ drainer'[d].fid = f
                /\ <<f, d>> \notin fileOn \/ <<f, e>> \notin fileOn \/ d = e
    BY <1>0, <1>10, <2>0 DEF DrainUpdate, DrainState, Holding
  <2>2. Past(f) /\ f \notin drainer[d].todo /\ e # d
    BY <2>0, <2>1, DrainFacts DEF DurableIInv
  <2>3. \A g \in drainer'[d].todo : Owns(d, g)'
    BY <1>1, <2>0, <2>1, <2>2, OwnsKept DEF DrainInvOf
  <2>4. Past(f)'
    BY <2>2, StepFacts, PastKept
  <2>5. drainer'[d].at = "moved" => <<f, d>> \notin fileOn'
    BY <2>1, <2>2 DEF MoveRow
  <2> QED
    BY <1>1, <1>2, <2>1, <2>3, <2>4, <2>5
       DEF DrainInvOf, Holding, Past, HasTempfile
<1>11. CASE DrainRemove(d) \/ DrainError(d)
  <2>1. /\ drainer[d].at # "off" /\ metaVars' = metaVars
        /\ drainer'[d].at = "loop" /\ drainer'[d].todo = drainer[d].todo
    BY <1>0, <1>11 DEF DrainRemove, DrainError
  <2> QED
    BY <1>1, <1>2, <1>3, <2>1 DEF DrainInvOf, Holding
<1>12. CASE DrainExit(d)
  <2>1. drainer'[d].at = "off" /\ drainer'[d].todo = {}
    BY <1>0, <1>12 DEF DrainExit, DrainIdle
  <2> QED
    BY <2>1 DEF DrainInvOf, Holding
<1> QED
  BY <1>4, <1>5, <1>6, <1>7, <1>8, <1>9, <1>10, <1>11, <1>12
     DEF DrainerNext, DrainSentTorn, Tidy

LEMMA DrainKept ==
  ASSUME DurableIInv, OneRow, [Next]_vars, Timely, Tidy,
         DrainsAreApart
  PROVE  DrainInv'
<1>1. \A d \in Devices : DrainInvOf(d)'
  <2> SUFFICES ASSUME NEW d \in Devices PROVE DrainInvOf(d)'
    OBVIOUS
  <2>1. CASE DrainWrite(d)
    BY <2>1, DrainInvMoves DEF DrainerNext
  <2>2. CASE ~DrainWrite(d)
    BY <2>2, StepFacts, DrainerEffect, DrainInvStays, DrainInvMoves
  <2> QED
    BY <2>1, <2>2
<1> QED
  BY <1>1 DEF DrainInv, DrainInvOf

LEMMA MovedKept ==
  ASSUME DurableIInv, [Next]_vars, DrainsAreApart
  PROVE  MovedInv'
<1> SUFFICES ASSUME NEW d \in Devices, NEW e \in Devices, NEW f,
                    drainer'[d].at = "moved", Holding(e)',
                    f = drainer'[d].fid, drainer'[e].fid = f, Closed(f)'
             PROVE  drainer'[e].dest # d
  BY DEF MovedInv, Closed
<1>0. /\ drainer \in [Devices -> DrainState]
      /\ \A g \in Devices : DrainNext(g).at = "loop" /\ DrainIdle(g).at = "off"
      /\ \A g \in Devices : \A state : DrainStep(g, state) => drainer'[g] = state
  BY StepFacts DEF EfesTypeOK, DrainNext, DrainIdle, DrainStep
<1>1. d # e
  BY DEF Holding
<1>2. Past(f) => Closed(f)
  BY StepFacts, PastKept
<1>3. CASE drainer'[d] = drainer[d] /\ drainer'[e] = drainer[e]
  <2>1. Past(f)
    BY <1>3, DrainFacts DEF DurableIInv
  <2> QED
    BY <1>2, <1>3, <2>1 DEF DurableIInv, MovedInv, Holding
<1>4. CASE (DrainStart(d) \/ DrainerNext(d)) /\ drainer'[e] = drainer[e]
  <2>1. drainer[d].at = "sent" /\ drainer[d].fid = f
    <3>1. CASE DrainUpdate(d)
      BY <1>0, <3>1 DEF DrainUpdate, DrainState
    <3>2. CASE DrainStart(d) \/ DrainList(d)
      BY <1>0, <3>2 DEF DrainStart, DrainList, DrainIdle
    <3>3. ASSUME NEW g \in Fids, DrainSkip(d, g) PROVE FALSE
      <4>1. drainer'[d].at = "loop"
        BY <1>0, <3>3 DEF DrainSkip, DrainState
      <4> QED
        BY <4>1
    <3>6. ASSUME NEW g \in Fids, NEW h \in Devices, DrainOpen(d, g, h) PROVE FALSE
      <4>1. drainer'[d].at = "opened"
        BY <1>0, <3>6 DEF DrainOpen
      <4> QED
        BY <4>1
    <3>4. CASE DrainWrite(d) \/ DrainSent(d) \/ DrainSentTorn(d)
      BY <1>0, <3>4 DEF DrainWrite, DrainSent, DrainSentTorn, DrainAccept,
           DrainState
    <3>5. CASE DrainRemove(d) \/ DrainError(d) \/ DrainExit(d)
      BY <1>0, <3>5 DEF DrainRemove, DrainError, DrainExit
    <3> QED
      BY <1>4, <3>1, <3>2, <3>3, <3>4, <3>5, <3>6 DEF DrainerNext
  <2>2. Holding(d) /\ Holding(e) /\ drainer[e].fid = f
    BY <1>4, <2>1 DEF Holding
  <2>3. Closed(f)
    BY <1>2, <2>1, <2>2, DrainFacts DEF DurableIInv
  <2> QED
    BY <1>1, <2>1, <2>2, <2>3, OneHolder
<1>5. CASE (DrainStart(e) \/ DrainerNext(e)) /\ drainer'[d] = drainer[d]
  <2>1. Closed(f) /\ d \in Drainable /\ d \in draining
    <3>1. drainer[d].at = "moved" /\ drainer[d].fid = f
      BY <1>5
    <3>2. Past(f)
      BY <3>1, DrainFacts DEF DurableIInv
    <3> QED
      BY <1>2, <3>1, <3>2 DEF DurableIInv, DrainInv
  <2>2. ASSUME NEW g \in Fids, NEW h \in Devices, DrainOpen(e, g, h)
        PROVE  drainer'[e].dest # d
    <3>1. drainer'[e].dest = h
      BY <1>0, <2>2 DEF DrainOpen
    <3> QED
      BY <2>1, <2>2, <3>1 DEF DrainOpen, DrainTargets, DrainsAreApart
  <2>3. CASE DrainWrite(e) \/ DrainSent(e) \/ DrainSentTorn(e)
    <3>1. /\ Holding(e) /\ drainer[e].fid = drainer'[e].fid
          /\ drainer[e].dest = drainer'[e].dest
      BY <1>0, <2>3 DEF DrainWrite, DrainSent, DrainSentTorn, DrainAccept,
           DrainState, Holding
    <3> QED
      BY <1>5, <2>1, <3>1 DEF DurableIInv, MovedInv
  <2>4. CASE \/ DrainStart(e) \/ DrainList(e) \/ DrainUpdate(e) \/ DrainRemove(e)
             \/ DrainError(e) \/ DrainExit(e) \/ \E g \in Fids : DrainSkip(e, g)
    <3>1. CASE DrainStart(e) \/ DrainList(e) \/ \E g \in Fids : DrainSkip(e, g)
      <4>1. drainer'[e].at \in {"listing", "loop"}
        BY <1>0, <3>1 DEF DrainStart, DrainList, DrainSkip, DrainIdle, DrainState
      <4> QED
        BY <4>1 DEF Holding
    <3>2. CASE DrainUpdate(e)
      <4>1. drainer'[e].at \in {"loop", "moved"}
        BY <1>0, <3>2 DEF DrainUpdate, DrainState
      <4> QED
        BY <4>1 DEF Holding
    <3>3. CASE DrainRemove(e) \/ DrainError(e) \/ DrainExit(e)
      <4>1. drainer'[e].at \in {"loop", "off"}
        BY <1>0, <3>3 DEF DrainRemove, DrainError, DrainExit
      <4> QED
        BY <4>1 DEF Holding
    <3> QED
      BY <2>4, <3>1, <3>2, <3>3
  <2> QED
    BY <1>5, <2>2, <2>3, <2>4 DEF DrainerNext
<1> QED
  BY <1>1, <1>3, <1>4, <1>5, StepFacts, DrainerEffect

\* Without drains there is nothing to say about them.
LEMMA IdleDrainers == NoDrains => DrainInv /\ MovedInv
<1>1. NoDrains => \A d \in Devices : drainer[d].at = "off" /\ drainer[d].todo = {}
  BY DEF NoDrains, DrainIdle
<1> QED
  BY <1>1 DEF DrainInv, MovedInv, Holding

LEMMA IdleDrainersThen == NoDrains' => DrainInv' /\ MovedInv'
BY IdleDrainers, PTL

LEMMA DurableInit ==
  ASSUME ReplicasStay, Init
  PROVE  DurableIInv
<1>1. /\ fileOn \in SUBSET ((1..(nextFid - 1)) \X Devices) /\ fileOn \subseteq Copies
      /\ disk = [p \in Copies |-> IF p \in fileOn THEN "full" ELSE "absent"]
      /\ aged \subseteq fileOn
  BY EfesInitType DEF Init, MetaInit, EfesTypeOK, MetaTypeOK
<1>2. TasksIInv
  BY TasksInit
<1>3. DrainInv /\ MovedInv
  BY IdleDrainers DEF Init, NoDrains
<1>4. Fresh
  <2>1. \A p \in Copies : p[1] >= nextFid => p \notin fileOn
    BY <1>1, EfesInitType, MetadataAssumption DEF EfesTypeOK, MetaTypeOK, Copies, Fids
  <2> QED
    BY <1>1, <2>1 DEF Fresh, Init
<1>5. Durable
  BY <1>1 DEF Durable
<1>6. UploadInv /\ StrayInv /\ VisitInv
  BY DEF UploadInv, StrayInv, VisitInv, Init
<1> QED
  BY <1>2, <1>3, <1>4, <1>5, <1>6 DEF DurableIInv

LEMMA DurableIInvKept ==
  ASSUME DurableIInv, [Next]_vars, Calm
  PROVE  DurableIInv'
<1>1. DrainInv' /\ MovedInv'
  <2>1. CASE Drainable = {}
    BY <2>1, StepFacts, IdleDrainersThen DEF TasksIInv, RowsInv
  <2>2. CASE Drainable # {}
    BY <2>2, StepFacts, DrainKept, MovedKept DEF Calm, RowsInv
  <2> QED
    BY <2>1, <2>2
<1>2. Durable' /\ Fresh' /\ UploadInv' /\ VisitInv'
  BY DurableKept, FreshKept, UploadKept, VisitKept DEF Calm
<1>3. StrayInv'
  BY StrayKept DEF Calm
<1> QED
  BY <1>1, <1>2, <1>3, StepFacts DEF DurableIInv

\* No acknowledged file is lost or torn, whatever the uploads, deletes, lost
\* tasks, cleaners, drains and restarts do in whatever order, as long as uploads
\* and drains are over before CleanDiskFileTTL and nobody goes on while a handler
\* of a request that he gave up is at work.  A handler that outlives a client or
\* a drainer that has failed does no harm.  If devices are drained, servers
\* must not reset the status of a device, drains must not target a device that
\* is drained, and every file must have been written by this version.
THEOREM NoFileIsLost ==
  ASSUME Calm
  PROVE  Spec => []Durable
<1>1. Init => DurableIInv
  BY DurableInit, CalmReplicasStay
<1>2. DurableIInv /\ [Next]_vars => DurableIInv'
  BY DurableIInvKept
<1>3. DurableIInv => Durable
  BY DEF DurableIInv
<1> QED
  BY <1>1, <1>2, <1>3, PTL DEF Spec

-----------------------------------------------------------------------------
(* Every closed file has a home.                                           *)

HomeInv == \A f \in Fids : Closed(f) => \E d \in Devices : <<f, d>> \in fileOn

StoreIInv == DurableIInv /\ HomeInv

LEMMA NewlyClosed ==
  ASSUME [MetaNext]_metaVars, NEW f, Closed(f)', ~Closed(f)
  PROVE  \E d \in Devices : <<f, d>> \in fileOn'
<1>1. ASSUME NEW d \in Devices, InsertTempfile(d) \/ SetDrain(d) \/ SetAlive(d)
      PROVE  FALSE
  BY <1>1 DEF InsertTempfile, SetDrain, SetAlive, Closed
<1>2. ASSUME NEW g \in Fids, DeleteFids({g}) PROVE FALSE
  BY <1>2 DEF DeleteFids, Closed
<1>3. ASSUME NEW g \in Fids, NEW d \in Devices, NEW k \in Keys,
             CloseTempfile(g, d, k)
      PROVE  <<f, d>> \in fileOn'
  <2>1. f = g
    BY <1>3 DEF CloseTempfile, Closed
  <2> QED
    BY <1>3, <2>1 DEF CloseTempfile
<1>4. ASSUME \/ \E rows \in SUBSET tempfile : ExpireTempfiles(rows)
             \/ \E g \in Fids, src, dst \in Devices : MoveRow(g, src, dst)
             \/ \E rows \in SUBSET fileOn : DropRows(rows)
             \/ UNCHANGED metaVars
      PROVE  FALSE
  BY <1>4 DEF ExpireTempfiles, MoveRow, DropRows, metaVars, Closed
<1> QED
  BY <1>1, <1>2, <1>3, <1>4 DEF MetaNext

LEMMA HomeKept ==
  ASSUME DurableIInv, HomeInv, [Next]_vars
  PROVE  HomeInv'
<1> SUFFICES ASSUME NEW f \in Fids, Closed(f)'
             PROVE  \E d \in Devices : <<f, d>> \in fileOn'
  BY DEF HomeInv
<1>1. CASE ~Closed(f)
  BY <1>1, StepFacts, NewlyClosed
<1>2. CASE Closed(f)
  <2>1. PICK d \in Devices : <<f, d>> \in fileOn
    BY <1>2 DEF HomeInv
  <2>2. CASE <<f, d>> \in fileOn'
    BY <2>2
  <2>3. CASE <<f, d>> \notin fileOn'
    <3>1. <<f, d>> \in Copies
      BY DEF Copies
    <3>2. ~CheckFidMissing(<<f, d>>)
      BY <2>1 DEF CheckFidMissing, DurableIInv, Durable
    <3>3. ASSUME NEW q \in fileOn', q[1] = f
          PROVE  <<f, q[2]>> \in fileOn' /\ q[2] \in Devices
      <4>1. q \in Copies
        BY StepFacts DEF EfesTypeOK, MetaTypeOK
      <4>2. q = <<f, q[2]>> /\ q[2] \in Devices
        BY <3>3, <4>1 DEF Copies
      <4> QED
        BY <4>2
    <3>4. ASSUME NEW e \in Devices, DrainUpdate(e), <<f, d>> = <<drainer[e].fid, e>>
          PROVE  <<f, drainer[e].dest>> \in fileOn' /\ drainer[e].dest \in Devices
      <4>1. MoveRow(f, d, drainer[e].dest) /\ drainer[e].dest \in Devices
        BY <3>4, StepFacts DEF DrainUpdate, EfesTypeOK, DrainState
      <4> QED
        BY <2>1, <2>3, <4>1 DEF MoveRow
    <3> QED
      BY <2>1, <2>3, <3>1, <3>2, <3>3, <3>4, StepFacts, RowsEffect
  <2> QED
    BY <2>2, <2>3
<1> QED
  BY <1>1, <1>2

LEMMA StoreInit == ReplicasStay /\ Init => StoreIInv
<1> SUFFICES ASSUME ReplicasStay, Init PROVE StoreIInv
  OBVIOUS
<1>1. HomeInv
  BY DEF Init, MetaInit, HomeInv, Closed
<1> QED
  BY <1>1, DurableInit DEF StoreIInv

LEMMA StoreKept == Calm /\ StoreIInv /\ [Next]_vars => StoreIInv'
BY DurableIInvKept, HomeKept DEF StoreIInv

LEMMA StoreInvariant == Calm => (Spec => []StoreIInv)
<1> SUFFICES ASSUME Calm PROVE Spec => []StoreIInv
  OBVIOUS
<1>1. Init => StoreIInv
  BY StoreInit, CalmReplicasStay
<1>2. StoreIInv /\ [Next]_vars => StoreIInv'
  BY StoreKept
<1> QED
  BY <1>1, <1>2, PTL DEF Spec

\* Every closed file is on exactly one device, whatever drains do.
THEOREM OneHomeEach ==
  ASSUME Calm, Legacy = 0
  PROVE  Spec => []SingleHome
<1>1. StoreIInv /\ OneRow => SingleHome
  <2> SUFFICES ASSUME StoreIInv, OneRow, NEW f \in Fids, Closed(f)
               PROVE  \E d \in Devices : RowsOf({f}) = {<<f, d>>}
    BY DEF SingleHome
  <2>1. PICK d \in Devices : <<f, d>> \in fileOn
    BY DEF StoreIInv, HomeInv
  <2>2. \A p \in fileOn : p[1] = f => p = <<f, d>>
    BY <2>1 DEF OneRow
  <2> QED
    BY <2>1, <2>2 DEF RowsOf
<1>2. Spec => []OneRow
  BY NoReplicas
<1>3. Spec => []StoreIInv
  BY StoreInvariant
<1> QED
  BY <1>1, <1>2, <1>3, PTL

\* A file keeps a location for as long as it exists: of a file with replicas the
\* device cleaners that drop rows at the same time leave one.
THEOREM FilesKeepALocation ==
  ASSUME Calm
  PROVE  Spec => KeepsLocation
<1> DEFINE Located == \A f \in Fids : Closed(f) => RowsOf({f}) # {}
<1>1. StoreIInv => Located
  <2> SUFFICES ASSUME StoreIInv, NEW f \in Fids, Closed(f) PROVE RowsOf({f}) # {}
    OBVIOUS
  <2>1. PICK d \in Devices : <<f, d>> \in fileOn
    BY DEF StoreIInv, HomeInv
  <2>2. <<f, d>> \in RowsOf({f})
    BY <2>1 DEF RowsOf
  <2> QED
    BY <2>2
<1>2. Located' =>
        \A f \in Fids : (Closed(f) /\ RowsOf({f}) # {} /\ Closed(f)') => RowsOf({f})' # {}
  OBVIOUS
<1> HIDE DEF Located
<1>3. Spec => []StoreIInv
  BY StoreInvariant
<1> QED
  BY <1>1, <1>2, <1>3, PTL DEF KeepsLocation

\* The disk cleaner removes no file that has a row in file_on.
THEOREM CleanerIsSafe ==
  ASSUME Calm
  PROVE  Spec => CleanerSparesClosed
<1>1. StoreIInv => \A p \in Copies : p \in fileOn => ~CleanRemove(p)
  BY DEF StoreIInv, DurableIInv, VisitInv, CleanRemove, VisitStep
<1> QED
  BY <1>1, StoreInvariant, PTL DEF CleanerSparesClosed

\* The drainer unlinks a file only where it is complete somewhere else.
THEOREM DrainIsSafe ==
  ASSUME Calm
  PROVE  Spec => DrainMovesElsewhere
<1>1. ASSUME StoreIInv, NEW d \in Devices, DrainRemove(d), Closed(drainer[d].fid)
      PROVE  \E e \in Devices \ {d} : /\ <<drainer[d].fid, e>> \in fileOn
                                      /\ disk[<<drainer[d].fid, e>>] = "full"
  <2>1. drainer[d].fid \in Fids /\ <<drainer[d].fid, d>> \notin fileOn
    BY <1>1 DEF DrainRemove, StoreIInv, DurableIInv, DrainInv, Past
  <2>2. PICK e \in Devices : <<drainer[d].fid, e>> \in fileOn
    BY <1>1, <2>1 DEF StoreIInv, HomeInv
  <2> QED
    BY <1>1, <2>1, <2>2 DEF StoreIInv, DurableIInv, Durable
<1>2. StoreIInv =>
        \A d \in Devices :
          LET f == drainer[d].fid IN
          DrainRemove(d) /\ Closed(f) =>
            \E e \in Devices \ {d} : <<f, e>> \in fileOn /\ disk[<<f, e>>] = "full"
  BY <1>1
<1> QED
  BY <1>2, StoreInvariant, PTL DEF DrainMovesElsewhere

-----------------------------------------------------------------------------
(* The refinement of KeyStore. *)

Holder(k) == OneOf(FidsOfKey(k))

LEMMA HolderIs ==
  ASSUME MetaInv, NEW k \in Keys, NEW f \in FidsOfKey(k)
  PROVE  Holder(k) = f
<1>1. FidsOfKey(k) = {f}
  BY KeyHasOneFid
<1> QED
  BY <1>1 DEF Holder, OneOf

ReadsAsAcknowledged ==
    \A k \in Keys : {f \in FidsOfKey(k) : Readable(f)} = FidsOfKey(k)

LEMMA ReadsAreAcknowledged == StoreIInv => ReadsAsAcknowledged
<1> SUFFICES ASSUME StoreIInv, NEW k \in Keys, NEW f \in FidsOfKey(k)
             PROVE  Readable(f)
  BY DEF ReadsAsAcknowledged
<1>1. f \in Fids /\ Closed(f)
  BY DEF FidsOfKey, Closed
<1>2. PICK d \in Devices : <<f, d>> \in fileOn
  BY <1>1 DEF StoreIInv, HomeInv
<1>3. <<f, d>> \in RowsOf({f})
  BY <1>2 DEF RowsOf
<1>4. \A p \in RowsOf({f}) : disk[p] = "full"
  BY DEF StoreIInv, DurableIInv, Durable, RowsOf
<1> QED
  BY <1>3, <1>4 DEF Readable

LEMMA ReadsStayAcknowledged == StoreIInv' => ReadsAsAcknowledged'
BY ReadsAreAcknowledged, PTL

\* A transaction changes what one key holds, or nothing.
LEMMA HolderEffect ==
  ASSUME MetaInv, MetaInv', [MetaNext]_metaVars
  PROVE  \/ \A k \in Keys : Holder(k)' = Holder(k)
         \/ \E k \in Keys, c \in Fids \cup {0} :
              /\ c # 0 => \A j \in Keys : Holder(j) # c
              /\ Holder(k)' = c
              /\ \A j \in Keys \ {k} : Holder(j)' = Holder(j)
<1>1. CASE file' = file
  BY <1>1 DEF Holder, FidsOfKey
<1>2. ASSUME NEW f \in Fids, DeleteFids({f}), file' # file
      PROVE  \E k \in Keys : /\ Holder(k)' = 0
                             /\ \A j \in Keys \ {k} : Holder(j)' = Holder(j)
  <2>1. PICK k \in Keys : <<f, k>> \in file
    BY <1>2 DEF DeleteFids, MetaInv, MetaTypeOK
  <2>2. FidsOfKey(k) = {f}
    BY <2>1, KeyHasOneFid DEF FidsOfKey
  <2>3. FidsOfKey(k)' = {}
    BY <1>2, <2>2 DEF DeleteFids, FidsOfKey
  <2>4. \A j \in Keys \ {k} : FidsOfKey(j)' = FidsOfKey(j)
    <3>1. \A j \in Keys \ {k} : <<f, j>> \notin file
      BY <2>1 DEF MetaInv, SchemaOK
    <3> QED
      BY <1>2, <3>1 DEF DeleteFids, FidsOfKey
  <2>5. Holder(k)' = 0
    BY <2>3 DEF Holder, OneOf
  <2>6. \A j \in Keys \ {k} : Holder(j)' = Holder(j)
    BY <2>4 DEF Holder
  <2> QED
    BY <2>5, <2>6
<1>3. ASSUME NEW f \in Fids, NEW d \in Devices, NEW k \in Keys,
             CloseTempfile(f, d, k)
      PROVE  /\ \A j \in Keys : Holder(j) # f
             /\ Holder(k)' = f
             /\ \A j \in Keys \ {k} : Holder(j)' = Holder(j)
  <2>1. ~Closed(f)
    BY <1>3 DEF CloseTempfile, MetaInv, OpenOrClosed, HasTempfile
  <2>2. ASSUME NEW j \in Keys, Holder(j) = f PROVE FALSE
    <3>1. FidsOfKey(j) = {}
      <4>1. f \notin FidsOfKey(j)
        BY <2>1 DEF FidsOfKey, Closed
      <4> QED
        BY <2>2, <4>1, HolderIs
    <3> QED
      BY <2>2, <3>1 DEF Holder, OneOf, Fids
  <2>3. Holder(k)' = f
    <3>1. FidsOfKey(k)' = {f}
      BY <1>3 DEF CloseTempfile, FidsOfKey
    <3> QED
      BY <3>1 DEF Holder, OneOf
  <2>4. \A j \in Keys \ {k} : FidsOfKey(j)' = FidsOfKey(j)
    <3>1. \A j \in Keys \ {k} : FidsOfKey(j) \cap FidsOfKey(k) = {}
      BY DEF FidsOfKey, MetaInv, SchemaOK
    <3> QED
      BY <1>3, <3>1 DEF CloseTempfile, FidsOfKey
  <2> QED
    BY <2>2, <2>3, <2>4 DEF Holder
<1>4. ASSUME \/ \E d \in Devices : InsertTempfile(d) \/ SetDrain(d) \/ SetAlive(d)
             \/ \E rows \in SUBSET tempfile : ExpireTempfiles(rows)
             \/ \E g \in Fids, src, dst \in Devices : MoveRow(g, src, dst)
             \/ \E rows \in SUBSET fileOn : DropRows(rows)
             \/ UNCHANGED metaVars
      PROVE  file' = file
  BY <1>4 DEF InsertTempfile, SetDrain, SetAlive, ExpireTempfiles, MoveRow, DropRows,
              metaVars
<1> QED
  BY <1>1, <1>2, <1>3, <1>4 DEF MetaNext

\* To its clients the system is a key store: only a create-close or a delete that
\* succeeds changes what a key reads as.
THEOREM ClientsSeeAKeyStore ==
  ASSUME Calm
  PROVE  Spec => ImplementsKeyStore
<1> DEFINE ack == [k \in Keys |-> OneOf(FidsOfKey(k))]
           rd == [k \in Keys |-> OneOf({f \in FidsOfKey(k) : Readable(f)})]
<1>1. StoreIInv => rd = ack
  BY ReadsAreAcknowledged DEF ReadsAsAcknowledged
<1>2. StoreIInv' => rd' = ack'
  BY ReadsStayAcknowledged DEF ReadsAsAcknowledged
<1>3. ack = [k \in Keys |-> Holder(k)] /\ ack' = [k \in Keys |-> Holder(k)']
  BY DEF Holder
<1> HIDE DEF ack, rd
<1>4. Init /\ StoreIInv => Abstract!StoreInit
  <2> SUFFICES ASSUME Init, StoreIInv PROVE Abstract!StoreInit
    OBVIOUS
  <2>1. \A k \in Keys : Holder(k) = 0 \/ (Holder(k) \in Fids /\ <<Holder(k), k>> \in file)
    BY DEF Holder, OneOf, FidsOfKey
  <2>2. /\ ack \in [Keys -> Fids \cup {0}]
        /\ \A j, k \in Keys : ack[j] = ack[k] /\ ack[j] # 0 => j = k
    BY <1>3, <2>1 DEF StoreIInv, DurableIInv, TasksIInv, MetaInv, SchemaOK
  <2>3. rd = ack
    BY <1>1
  <2> QED
    BY <2>2, <2>3 DEF Abstract!StoreInit, Abstract!StoredOnce, Abstract!Stores, ack, rd
<1>5. StoreIInv /\ StoreIInv' /\ [Next]_vars => [Abstract!StoreNext]_<<ack, rd>>
  <2> SUFFICES ASSUME StoreIInv, StoreIInv', [Next]_vars
               PROVE  [Abstract!StoreNext]_<<ack, rd>>
    OBVIOUS
  <2>1. rd = ack /\ rd' = ack'
    BY <1>1, <1>2
  <2>2. MetaInv /\ MetaInv' /\ [MetaNext]_metaVars
    BY StepFacts DEF StoreIInv, DurableIInv
  <2>3. CASE \A k \in Keys : Holder(k)' = Holder(k)
    <3>1. ack' = ack
      BY <1>3, <2>3
    <3> QED
      BY <2>1, <3>1
  <2>4. ASSUME NEW k \in Keys, NEW c \in Fids \cup {0},
               c # 0 => \A j \in Keys : Holder(j) # c,
               Holder(k)' = c,
               \A j \in Keys \ {k} : Holder(j)' = Holder(j)
        PROVE  Abstract!StoreNext
    <3>1. ack' = [ack EXCEPT ![k] = c]
      BY <1>3, <2>4
    <3>2. Abstract!Set(k, c)
      BY <2>1, <3>1 DEF Abstract!Set, ack, rd
    <3>3. CASE c = 0
      BY <3>2, <3>3 DEF Abstract!StoreNext, Abstract!Remove
    <3>4. CASE c # 0
      <4>1. c \in Fids /\ \A j \in Keys : ack[j] # c
        BY <1>3, <2>4, <3>4
      <4>2. Abstract!Write(k, c)
        BY <3>2, <4>1 DEF Abstract!Write, ack
      <4> QED
        BY <4>1, <4>2 DEF Abstract!StoreNext
    <3> QED
      BY <3>3, <3>4
  <2> QED
    BY <2>2, <2>3, <2>4, HolderEffect
<1>6. Spec => []StoreIInv
  BY StoreInvariant
<1> QED
  BY <1>4, <1>5, <1>6, PTL DEF Spec, ImplementsKeyStore, Abstract!StoreSpec, ack, rd
=============================================================================
