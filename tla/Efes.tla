-------------------------------- MODULE Efes --------------------------------
(***************************************************************************)
(* The efes object store as one system: trackers, storage servers, clients *)
(* and drainers around one database (module Metadata) and one delete queue *)
(* per device.  An action is one database transaction, one request handler *)
(* between two points where it waits, one file system call of a background *)
(* job, or a failure.                                                      *)
(*                                                                         *)
(* A copy <<fid, devid>> is the file <fid>.fid in the data directory of a  *)
(* device, and most of the state is a set of copies or a function on them. *)
(***************************************************************************)
EXTENDS Metadata

CONSTANTS
    Drainable,      \* devices an operator may run "efes drain" on
    Dest,           \* Drainer.Dest, the --dest option; {} when it is not given
    Timely,         \* see MayAge and VisitsApart: the timing assumption
    ResetOnStart,   \* does a starting server set its device to 'alive', as
                    \* Docker/efes-server/entrypoint.sh does?
    Overlap,        \* may a client go on before the server has noticed that
                    \* it gave up a request?
    TornCreate,     \* may a drain find a file that createFile has truncated
                    \* next to the .info file of an earlier drain?
    MaxEvents       \* bound on drains started, servers restarted, errors, and
                    \* handlers left behind

ASSUME EfesAssumption ==
    /\ Drainable \subseteq Devices /\ Dest \subseteq Devices
    /\ {Timely, ResetOnStart, Overlap, TornCreate} \subseteq BOOLEAN
    /\ MaxEvents \in Nat

VARIABLES
    disk,       \* what the data directories hold under each copy's path
    aged,       \* copies whose mtime is older than CleanDiskFileTTL
    opening,    \* devices that a create-open handler has selected
    upload,     \* where the client's upload of a copy is
    stray,      \* copies that a PATCH handler may still write although the
                \* client or the drainer has gone on without it
    pending,    \* delete tasks of the publishDeleteTask goroutines
    queue,      \* delete tasks <<fid, devid>> in the queues delete.dev<devid>
    visit,      \* where cleanDisk's visit of a copy is
    drainer,    \* the drain process of each device
    events      \* counts the events that MaxEvents bounds

procVars == <<opening, upload, stray, pending, queue, visit, drainer, events>>
vars == <<metaVars, disk, aged, procVars>>

Contents == {"absent", "partial", "full"}

\* "checked": a PATCH handler has found the tempfile row, saveFile is next.
UploadSteps == {"none", "sending", "checked", "sent"}

\* The steps of visitFile: mtime read, file_on queried, tempfile queried.
VisitSteps == {"none", "old", "notOnDevice", "unclaimed"}

\* The steps of Drainer.Run, and inside moveFile from "opened" on.
DrainSteps == {"off", "listing", "loop", "opened", "sending", "sent", "moved"}

DrainState ==
    [at : DrainSteps, todo : SUBSET Fids, fid : 0..MaxFid, dest : Devices]

DrainIdle(d) == [at |-> "off", todo |-> {}, fid |-> 0, dest |-> d]

EfesTypeOK ==
    /\ MetaTypeOK
    /\ disk \in [Copies -> Contents]
    /\ aged \subseteq Copies
    /\ opening \subseteq Devices
    /\ upload \in [Copies -> UploadSteps] /\ stray \subseteq Copies
    /\ pending \subseteq Copies
    /\ queue \subseteq Copies
    /\ visit \in [Copies -> VisitSteps]
    /\ drainer \in [Devices -> DrainState]
    /\ \A d \in Devices :
         drainer[d].fid = 0 => drainer[d].at \in {"off", "listing", "loop"}
    /\ events \in 0..MaxEvents

Init ==
    /\ MetaInit
    /\ disk = [p \in Copies |-> IF p \in fileOn THEN "full" ELSE "absent"]
    /\ aged \in SUBSET fileOn
    /\ opening = {}
    /\ upload = [p \in Copies |-> "none"] /\ stray = {}
    /\ pending = {}
    /\ queue = {}
    /\ visit = [p \in Copies |-> "none"]
    /\ drainer = [d \in Devices |-> DrainIdle(d)]
    /\ events = 0

-----------------------------------------------------------------------------
(* Timing.  Durations are not modelled: an upload or a drain may take any  *)
(* time, and a file may be older than CleanDiskFileTTL at any moment.      *)
(* Timely = TRUE adds what the 24 hour default of the TTL is there for:    *)
(*   - whoever still means to make the database point at a copy does so    *)
(*     before the copy is older than the TTL (MayAge);                     *)
(*   - the visit of one path by the disk cleaner, two queries and an       *)
(*     unlink, is over before a drain that begins to overwrite the same    *)
(*     path commits (VisitsApart).                                         *)

\* The copy that a drainer reads, and the one that it writes.
DrainSource(d) == <<drainer[d].fid, d>>
DrainTarget(d) == <<drainer[d].fid, drainer[d].dest>>

DrainerHolds(d, p) ==
    drainer[d].at \in {"opened", "sending", "sent"} /\ p = DrainTarget(d)

InFlight(p) == upload[p] # "none" \/ \E d \in Devices : DrainerHolds(d, p)

MayAge(p) == Timely => ~InFlight(p)

VisitsApart(p) == Timely => visit[p] = "none"

\* Time passes: the copy has not been written for CleanDiskFileTTL.
Age(p) ==
    /\ disk[p] # "absent" /\ p \notin aged
    /\ MayAge(p)
    /\ aged' = aged \cup {p}
    /\ UNCHANGED <<metaVars, disk, procVars>>

\* A write gives the copy new contents and a new mtime.
WriteCopy(p, content) ==
    /\ disk' = [disk EXCEPT ![p] = content]
    /\ aged' = aged \ {p}

RemoveCopy(p) == WriteCopy(p, "absent")

-----------------------------------------------------------------------------
(* Writing a file: the create-open, create-close and delete handlers of    *)
(* the tracker, the PATCH handler of a storage server, and the client.     *)

\* createOpen, first part: findAliveDevice without a list of devices.  Nobody
\* begins when the bound leaves no fid.
CreateOpenSelect(d) ==
    /\ d \notin draining /\ Cardinality(opening) <= MaxFid - nextFid
    /\ opening' = opening \cup {d}
    /\ UNCHANGED <<metaVars, disk, aged, upload, stray, pending, queue, visit,
                   drainer, events>>

\* createOpen, second part: the status of the device may have changed since.
CreateOpenInsert(d) ==
    /\ d \in opening
    /\ opening' = opening \ {d}
    /\ InsertTempfile(d)
    /\ upload' = [upload EXCEPT ![<<nextFid, d>>] = "sending"]
    /\ UNCHANGED <<disk, aged, stray, pending, queue, visit, drainer, events>>

\* Variant: the tempfile row is not looked for.
PatchCheckAlways(p) ==
    /\ upload[p] = "sending"
    /\ upload' = [upload EXCEPT ![p] = "checked"]
    /\ UNCHANGED <<metaVars, disk, aged, opening, stray, pending, queue, visit,
                   drainer, events>>

\* ServeHTTP, PATCH: without the tempfile row the client gets 404 and gives up.
PatchCheck(p) ==
    /\ upload[p] = "sending"
    /\ upload' = [upload EXCEPT
                    ![p] = IF HasTempfile(p[1]) THEN "checked" ELSE "none"]
    /\ UNCHANGED <<metaVars, disk, aged, opening, stray, pending, queue, visit,
                   drainer, events>>

\* A handler is left behind that may still write the copy.
LeaveStray(p, may) == stray' = stray \/ (may /\ stray' = stray \cup {p})

\* MaxEvents bounds these handlers too.
CountStray ==
    /\ events' = IF stray' \subseteq stray THEN events ELSE events + 1
    /\ events' <= MaxEvents

\* saveFile, or a step of it that truncates or writes the file.  The request may
\* carry a part of the file or break off, it may fail before it has written
\* anything, and the answer to the last request may be lost: the client goes on
\* from the offset it is told, which is 0 when the upload had been complete.
\* When requests overlap, the digest may be that of a file with a hole, and an
\* earlier handler may outlive the last one.  Module Upload has it in detail.
PatchSave(p) ==
    /\ upload[p] = "checked"
    /\ \E step \in {"checked", "sending", "sent"} :
         /\ upload' = [upload EXCEPT ![p] = step]
         /\ \/ WriteCopy(p, "full")
            \/ WriteCopy(p, "partial") /\ (step # "sent" \/ Overlap)
            \/ UNCHANGED <<disk, aged>> /\ (step = "sending" \/ Overlap)
    /\ LeaveStray(p, Overlap /\ upload'[p] = "sent")
    /\ UNCHANGED <<metaVars, opening, pending, queue, visit, drainer>>

\* The client dies, or runs out of retries; the handler of its last request may
\* still be at work.
Abandon(p) ==
    /\ upload[p] # "none"
    /\ upload' = [upload EXCEPT ![p] = "none"]
    /\ LeaveStray(p, upload[p] = "checked")
    /\ UNCHANGED <<metaVars, disk, aged, opening, pending, queue, visit, drainer>>

\* A request arrives when its client has given up, or has gone on.
LateCheck(p) ==
    /\ upload[p] = "none" \/ (Overlap /\ upload[p] = "sent")
    /\ p \in tempfile
    /\ stray' = stray \cup {p}
    /\ UNCHANGED <<metaVars, disk, aged, opening, upload, pending, queue, visit,
                   drainer>>

\* saveFile of a handler that was left behind, by a client or by a drainer,
\* truncates or writes the copy, or ends.
LateSave(p) ==
    /\ p \in stray /\ stray' \in {stray, stray \ {p}}
    /\ \/ \E content \in {"partial", "full"} : WriteCopy(p, content)
       \/ UNCHANGED <<disk, aged>>
    /\ UNCHANGED <<metaVars, opening, upload, pending, queue, visit, drainer,
                   events>>

\* Variant: an error of sendFile is ignored.
CreateCloseUnsent(p, k) ==
    /\ upload[p] \in {"sending", "sent"}
    /\ CloseTempfile(p[1], p[2], k)
    /\ upload' = [upload EXCEPT ![p] = "none"]
    /\ pending' = pending \cup RowsOf(FidsOfKey(k))
    /\ UNCHANGED <<disk, aged, opening, stray, queue, visit, drainer, events>>

\* Variant: the delete tasks carry fid where they should carry oldfid.
CreateCloseWrongFid(p, k) ==
    /\ upload[p] = "sent"
    /\ CloseTempfile(p[1], p[2], k)
    /\ upload' = [upload EXCEPT ![p] = "none"]
    /\ pending' = pending \cup {<<p[1], q[2]>> : q \in RowsOf(FidsOfKey(k))}
    /\ UNCHANGED <<disk, aged, opening, stray, queue, visit, drainer, events>>

\* createClose, called by writeReadSeeker when sendFile has returned.  The
\* copies of the file that had the key go to a publishDeleteTask goroutine.
\* A 404 or an error changes nothing and ends the upload: Abandon.
CreateClose(p, k) ==
    /\ upload[p] = "sent"
    /\ CloseTempfile(p[1], p[2], k)
    /\ upload' = [upload EXCEPT ![p] = "none"]
    /\ pending' = pending \cup RowsOf(FidsOfKey(k))
    /\ UNCHANGED <<disk, aged, opening, stray, queue, visit, drainer, events>>

\* deleteFile, by key.
DeleteKey(k) ==
    /\ FidsOfKey(k) # {}
    /\ DeleteFids(FidsOfKey(k))
    /\ pending' = pending \cup RowsOf(FidsOfKey(k))
    /\ UNCHANGED <<disk, aged, opening, upload, stray, queue, visit, drainer,
                   events>>

\* deleteFile, by fid: there is no lookup, any fid will do.
DeleteFid(f) ==
    /\ DeleteFids({f})
    /\ pending' = pending \cup RowsOf({f})
    /\ UNCHANGED <<disk, aged, opening, upload, stray, queue, visit, drainer,
                   events>>

\* Variant: the arguments of publishDeleteTask are swapped.
RemoveOldTempfilesSwapped(rows) ==
    /\ ExpireTempfiles(rows)
    /\ pending' = pending \cup {<<p[2], p[1]>> : p \in rows}
    /\ UNCHANGED <<disk, aged, opening, upload, stray, queue, visit, drainer,
                   events>>

\* Variant: the tasks are published although the transaction was rolled back.
RemoveOldTempfilesRolledBack(rows) ==
    /\ rows # {} /\ rows \subseteq tempfile
    /\ pending' = pending \cup rows
    /\ UNCHANGED <<metaVars, disk, aged, opening, upload, stray, queue, visit,
                   drainer, events>>

\* removeOldTempfiles: one goroutine per deleted row.
RemoveOldTempfiles(rows) ==
    /\ ExpireTempfiles(rows)
    /\ pending' = pending \cup rows
    /\ UNCHANGED <<disk, aged, opening, upload, stray, queue, visit, drainer,
                   events>>

-----------------------------------------------------------------------------
(* Delete tasks.  A queue is a set: messages carry no order that matters,  *)
(* and a message that is delivered twice is one that was not removed.      *)

\* publishDeleteTask.  The task is lost when the process stops before it has a
\* connection, on a channel error, and when nobody has declared the queue.
Publish(p) ==
    /\ p \in pending
    /\ pending' = pending \ {p}
    /\ \/ queue' = queue \cup {p}
       \/ UNCHANGED queue
    /\ UNCHANGED <<metaVars, disk, aged, opening, upload, stray, visit, drainer,
                   events>>

\* One turn of processDeleteTasks: remove the file and acknowledge (an
\* acknowledgement that is lost leaves the message in the queue), or fail to
\* remove it and reject the message without requeueing it.
Consume(p) ==
    /\ p \in queue
    /\ \/ RemoveCopy(p) /\ queue' \in {queue, queue \ {p}}
       \/ UNCHANGED <<disk, aged>> /\ queue' = queue \ {p}
    /\ UNCHANGED <<metaVars, opening, upload, stray, pending, visit, drainer,
                   events>>

-----------------------------------------------------------------------------
(* cleanDisk, one walk at a time on each server.  visitFile reads the      *)
(* mtime, then asks for the file_on row, then for the tempfile row, then   *)
(* unlinks: between any two of these the rest of the system moves on.      *)

VisitStep(p, from, to) ==
    /\ visit[p] = from
    /\ visit' = [visit EXCEPT ![p] = to]
    /\ UNCHANGED <<metaVars, opening, upload, stray, pending, queue, drainer,
                   events>>

CleanStat(p) ==
    /\ \A f \in Fids : visit[<<f, p[2]>>] = "none"
    /\ disk[p] # "absent" /\ p \in aged
    /\ VisitStep(p, "none", "old")
    /\ UNCHANGED <<disk, aged>>

\* Variant: file_on is not asked.
CleanQueryFileOnNever(p) ==
    VisitStep(p, "old", "notOnDevice") /\ UNCHANGED <<disk, aged>>

CleanQueryFileOn(p) ==
    /\ VisitStep(p, "old", IF p \in fileOn THEN "none" ELSE "notOnDevice")
    /\ UNCHANGED <<disk, aged>>

\* Variant: no row in tempfile is taken for an error, and the file is kept.
CleanQueryTempfileKeeps(p) ==
    VisitStep(p, "notOnDevice", "none") /\ UNCHANGED <<disk, aged>>

CleanQueryTempfile(p) ==
    /\ VisitStep(p, "notOnDevice", IF p \in tempfile THEN "none" ELSE "unclaimed")
    /\ UNCHANGED <<disk, aged>>

\* deletePath, when it is not a dry run.
CleanRemove(p) ==
    /\ VisitStep(p, "unclaimed", "none")
    /\ RemoveCopy(p)

\* A query or the unlink fails: the path is left for the next walk.
CleanError(p) ==
    /\ visit[p] # "none" /\ events < MaxEvents
    /\ visit' = [visit EXCEPT ![p] = "none"]
    /\ events' = events + 1
    /\ UNCHANGED <<metaVars, disk, aged, opening, upload, stray, pending, queue,
                   drainer>>

(* cleanDevice: checkFid holds the locks of all file_on rows of the fid    *)
(* from its first query to its commit, and looks at the disk in between.   *)

\* The file is gone: forget it.
CheckFidMissing(p) ==
    /\ p \in fileOn /\ disk[p] = "absent"
    /\ DropRows({p})
    /\ UNCHANGED <<disk, aged, procVars>>

\* Variant: the rows of all devices are deleted.
CheckFidReplicatedAll(p) ==
    /\ p \in fileOn /\ disk[p] # "absent"
    /\ RowsOf({p[1]}) # {p}
    /\ DropRows(RowsOf({p[1]}))
    /\ pending' = pending \cup (RowsOf({p[1]}) \ {p})
    /\ UNCHANGED <<disk, aged, opening, upload, stray, queue, visit, drainer,
                   events>>

\* The file is here: forget and delete the copies on other devices.
CheckFidReplicated(p) ==
    LET others == RowsOf({p[1]}) \ {p} IN
    /\ p \in fileOn /\ disk[p] # "absent"
    /\ others # {}
    /\ DropRows(others)
    /\ pending' = pending \cup others
    /\ UNCHANGED <<disk, aged, opening, upload, stray, queue, visit, drainer,
                   events>>

-----------------------------------------------------------------------------
(* The drainer of a device: a process of its own beside the server.        *)

DrainStep(d, state) ==
    /\ drainer' = [drainer EXCEPT ![d] = state]
    /\ UNCHANGED <<opening, upload, pending, queue, visit>>

\* Back to the loop of Run over the fids that are left.
DrainNext(d) ==
    [DrainIdle(d) EXCEPT !.at = "loop", !.todo = drainer[d].todo]

DrainStart(d) ==
    /\ d \in Drainable /\ drainer[d].at = "off" /\ events < MaxEvents
    /\ SetDrain(d)
    /\ DrainStep(d, [DrainIdle(d) EXCEPT !.at = "listing"])
    /\ events' = events + 1
    /\ UNCHANGED <<disk, aged, stray>>

\* The list is read once; what is closed on the device later is not in it.
DrainList(d) ==
    /\ drainer[d].at = "listing"
    /\ DrainStep(d, [DrainIdle(d) EXCEPT
                       !.at = "loop",
                       !.todo = {f \in Fids : <<f, d>> \in fileOn}])
    /\ UNCHANGED <<metaVars, disk, aged, stray, events>>

\* Variant: the status of the device is not asked for.
DrainTargetsAny == IF Dest = {} THEN Devices ELSE Dest

\* findAliveDevice with the devices of --dest, or without.
DrainTargets == IF Dest = {} THEN Devices \ draining ELSE Dest

\* moveFile up to sendFile: the file is open and the target is chosen.
DrainOpen(d, f, e) ==
    /\ drainer[d].at = "loop" /\ f \in drainer[d].todo
    /\ disk[<<f, d>>] # "absent"
    /\ e \in DrainTargets
    /\ DrainStep(d, [at |-> "opened", todo |-> drainer[d].todo \ {f},
                     fid |-> f, dest |-> e])
    /\ UNCHANGED <<metaVars, disk, aged, stray, events>>

\* The file cannot be opened, or no device is available: on to the next one.
DrainSkip(d, f) ==
    /\ drainer[d].at = "loop" /\ f \in drainer[d].todo
    /\ DrainStep(d, [drainer[d] EXCEPT !.todo = @ \ {f}])
    /\ UNCHANGED <<metaVars, disk, aged, stray, events>>

\* What the open source holds: it stays readable when it is unlinked, but a
\* source that is its own target was truncated.
DrainedContents(d) == IF disk[DrainSource(d)] = "partial" THEN "partial" ELSE "full"

\* A PATCH of sendFile truncates or writes the target: the first one has offset
\* 0, unless it was lost and an earlier drain has left an offset to go on from.
\* A part may break off, and the whole be sent again when an answer is lost or
\* the target was unlinked.  Module Upload has it in detail.
DrainWrite(d) ==
    LET p == DrainTarget(d) IN
    /\ drainer[d].at \in {"opened", "sending"}
    /\ drainer[d].at = "opened" => VisitsApart(p) /\ (Overlap \/ p \notin stray)
    /\ \E content \in {"partial", DrainedContents(d)} : WriteCopy(p, content)
    /\ DrainStep(d, [drainer[d] EXCEPT !.at = "sending"])
    /\ UNCHANGED <<metaVars, stray, events>>

\* sendFile returns: the digest in the answer to the last PATCH is that of the
\* file.
DrainAccept(d) ==
    /\ drainer[d].at = "sending"
    /\ DrainStep(d, [drainer[d] EXCEPT !.at = "sent"])
    /\ LeaveStray(DrainTarget(d), Overlap)
    /\ UNCHANGED metaVars

DrainSent(d) ==
    /\ DrainAccept(d)
    /\ WriteCopy(DrainTarget(d), DrainedContents(d))

\* The digest is saved with the offset and not computed from the disk, which may
\* not hold what the offset promises.
DrainSentTorn(d) ==
    /\ Overlap \/ TornCreate
    /\ DrainAccept(d)
    /\ WriteCopy(DrainTarget(d), "partial") \/ UNCHANGED <<disk, aged>>

\* Variant: an error of sendFile is ignored.
DrainUpdateUnsent(d) ==
    /\ drainer[d].at \in {"sending", "sent"}
    /\ MoveRow(drainer[d].fid, d, drainer[d].dest)
    /\ DrainStep(d, [drainer[d] EXCEPT !.at = "moved"])
    /\ UNCHANGED <<disk, aged, stray, events>>

DrainUpdate(d) ==
    LET f == drainer[d].fid
        e == drainer[d].dest
        duplicate == <<f, d>> \in fileOn /\ <<f, e>> \in fileOn /\ d # e
    IN
    /\ drainer[d].at = "sent"
    /\ MoveRow(f, d, e)
    /\ DrainStep(d, IF duplicate THEN DrainNext(d)
                                 ELSE [drainer[d] EXCEPT !.at = "moved"])
    /\ UNCHANGED <<disk, aged, stray, events>>

DrainRemove(d) ==
    /\ drainer[d].at = "moved"
    /\ RemoveCopy(<<drainer[d].fid, d>>)
    /\ DrainStep(d, DrainNext(d))
    /\ UNCHANGED <<metaVars, stray, events>>

\* A handler at the target may outlive the drainer that waits for it.
DrainLeaves(d) ==
    LeaveStray(DrainTarget(d), drainer[d].at \in {"opened", "sending"})

\* moveFile returns an error from any point: Run logs it and goes on.
DrainError(d) ==
    /\ drainer[d].at \in {"opened", "sending", "sent", "moved"}
    /\ DrainStep(d, DrainNext(d)) /\ DrainLeaves(d)
    /\ UNCHANGED <<metaVars, disk, aged>>

\* Run returns, or the process is stopped.
DrainExit(d) ==
    /\ drainer[d].at # "off"
    /\ DrainStep(d, DrainIdle(d)) /\ DrainLeaves(d)
    /\ UNCHANGED <<metaVars, disk, aged>>

-----------------------------------------------------------------------------
\* A server stops, at any point of its handlers and jobs, and starts again.
\* Requests that were being handled are retried by their clients.
ServerRestart(d) ==
    /\ events < MaxEvents
    /\ events' = events + 1
    /\ IF ResetOnStart THEN SetAlive(d) ELSE UNCHANGED metaVars
    /\ visit' = [p \in Copies |-> IF p[2] = d THEN "none" ELSE visit[p]]
    /\ upload' = [p \in Copies |-> IF p[2] = d /\ upload[p] = "checked"
                                     THEN "sending" ELSE upload[p]]
    /\ stray' = {p \in stray : p[2] # d}
    /\ UNCHANGED <<disk, aged, opening, pending, queue, drainer>>

UploadNext(p) ==
    \/ PatchCheck(p)
    \/ (PatchSave(p) \/ Abandon(p)) /\ CountStray
    \/ \E k \in Keys : CreateClose(p, k)

CleanerNext(p) ==
    \/ CleanStat(p) \/ CleanQueryFileOn(p) \/ CleanQueryTempfile(p)
    \/ CleanRemove(p) \/ CleanError(p)
    \/ CheckFidMissing(p) \/ CheckFidReplicated(p)

DrainerNext(d) ==
    \/ DrainList(d)
    \/ \E f \in Fids : DrainSkip(d, f) \/ \E e \in Devices : DrainOpen(d, f, e)
    \/ DrainWrite(d) \/ DrainUpdate(d) \/ DrainRemove(d)
    \/ (DrainSent(d) \/ DrainSentTorn(d) \/ DrainError(d) \/ DrainExit(d)) /\ CountStray

Next ==
    \/ \E d \in Devices : CreateOpenSelect(d) \/ CreateOpenInsert(d)
    \/ \E k \in Keys : DeleteKey(k)
    \/ \E f \in Fids : DeleteFid(f)
    \/ \E rows \in SUBSET tempfile : RemoveOldTempfiles(rows)
    \/ \E p \in Copies : \/ UploadNext(p) \/ (LateCheck(p) /\ CountStray)
                         \/ LateSave(p) \/ Publish(p) \/ Consume(p)
                         \/ CleanerNext(p) \/ Age(p)
    \/ \E d \in Devices : DrainStart(d) \/ DrainerNext(d) \/ ServerRestart(d)

Spec == Init /\ [][Next]_vars

(* Fairness.  Time passes; a request, a retry loop or a drain that has     *)
(* begun goes on or ends (HTTP timeouts and the 15 minutes of the backoff  *)
(* see to that); tempfileCleaner comes back every minute for every row     *)
(* older than TempfileTooOld; a visit that has begun ends, and as every    *)
(* walk of cleanDisk passes every path, a path that is old walk after walk *)
(* is visited.  Nothing is assumed of clients, operators or delete tasks.  *)
Fairness ==
    /\ \A p \in Copies :
         /\ WF_vars(Age(p))
         /\ WF_vars(UploadNext(p) /\ upload'[p] # upload[p])
         /\ WF_vars(LateSave(p) /\ p \notin stray')
         /\ WF_vars(\E rows \in SUBSET tempfile :
                      p \in rows /\ RemoveOldTempfiles(rows))
         /\ SF_vars(CleanStat(p))
         /\ WF_vars(CleanQueryFileOn(p) \/ CleanQueryTempfile(p) \/ CleanRemove(p))
    /\ \A d \in Drainable : WF_vars(DrainerNext(d) /\ drainer'[d] # drainer[d])

FairSpec == Spec /\ Fairness

-----------------------------------------------------------------------------
(* Properties. *)

\* No acknowledged file is lost or torn: wherever the database says that a
\* closed file is, the device holds its full contents.  The cleaners, the late
\* delete tasks and the drainer all unlink files without a lock on the row
\* (cleandisk.go:104, server.go:372, drain.go:133).
Durable == \A p \in fileOn : disk[p] = "full"

\* A delete task, still in a goroutine or queued for any time, never names a
\* copy the database points at: the consumer removes the file without asking
\* the database again (server.go:350).
DeleteTaskSafe == (pending \cup queue) \cap Referenced = {}

\* Every closed file is on some device, and a drain that was interrupted,
\* repeated or raced by a delete never leaves it on two (drain.go:129).
SingleHome ==
    \A f \in Fids :
        Closed(f) => \E d \in Devices : RowsOf({f}) = {<<f, d>>}

\* A file keeps a location for as long as it exists: a device cleaner forgets
\* copies of other devices only when it has seen its own, and its own only when
\* that is gone (cleandevice.go:107-122).  That two cleaners cannot both decide
\* on what they have read before is TasksMatchRows of module Transactions.
KeepsLocation ==
    [][\A f \in Fids :
         (Closed(f) /\ RowsOf({f}) # {} /\ Closed(f)') => RowsOf({f})' # {}]_vars

\* The drainer unlinks its copy of a file only when the file is readable on
\* another device or has been deleted meanwhile: "drain device by moving files
\* to another device" (main.go:209).
DrainMovesElsewhere ==
    [][\A d \in Devices :
         LET f == drainer[d].fid IN
         DrainRemove(d) /\ Closed(f) =>
           \E e \in Devices \ {d} : <<f, e>> \in fileOn /\ disk[<<f, e>>] = "full"]_vars

\* The disk cleaner never removes a file that has a row in file_on, however old
\* the file is (server_test.go:130-146 checks it one step at a time).
CleanerSparesClosed ==
    [][\A p \in Copies : p \in fileOn => ~CleanRemove(p)]_vars

\* getPath joins file with file_on and returns any of the rows, and the client
\* reads that copy.
Readable(f) == RowsOf({f}) # {} /\ \A p \in RowsOf({f}) : disk[p] = "full"

OneOf(fids) == IF fids = {} THEN 0 ELSE CHOOSE f \in fids : TRUE

Abstract == INSTANCE KeyStore
    WITH Contents <- Fids,
         Nothing <- 0,
         acknowledged <- [k \in Keys |-> OneOf(FidsOfKey(k))],
         reads <- [k \in Keys |-> OneOf({f \in FidsOfKey(k) : Readable(f)})]

\* To its clients the whole system is the key store of module KeyStore: only a
\* successful create-close or delete changes what a key reads as, and at once
\* (tracker.go:485-615 are the only handlers that may; the jobs of
\* cleandisk.go, cleandevice.go and drain.go may not).
ImplementsKeyStore == Abstract!StoreSpec

\* Disk space is not leaked: a file that no row points at is removed in the
\* end, or becomes the home of its fid, although delete tasks get lost
\* (tracker.go:633-658), uploads are abandoned and drains are interrupted.
GarbageCollected ==
    \A p \in Copies :
        (disk[p] # "absent" /\ p \notin Referenced)
            ~> (disk[p] = "absent" \/ p \in Referenced)

\* A deleted file is gone from every device for good, even if a late PATCH or a
\* drain in flight writes it once more after its deletion.
DeletedIsGone ==
    \A f \in Fids :
        (f < nextFid /\ ~Live(f)) ~> [](\A d \in Devices : disk[<<f, d>>] = "absent")
=============================================================================
