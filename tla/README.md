# efes: specification, model checking and proofs

efes stores files under keys.  *Trackers* answer the clients and keep the
metadata in MySQL, *storage servers* keep the files on one device each, AMQP
queues carry *delete tasks* from the trackers to the servers, and an operator
may *drain* a device.  Nothing coordinates these processes but the database, and
much of what they do happens outside a transaction: files are written before the
row that names them exists, and unlinked after it is gone.  This directory says
in TLA+ what can then go wrong, checks with TLC that it does not, and proves the
most important facts with TLAPS for any number of devices, keys and uploads.

Contents: [the system](#the-system), [the modules](#the-modules),
[the runs](#the-runs), [timing and fairness](#timing-and-fairness),
[what is proved](#what-is-proved), [findings](#findings),
[what is left out](#what-is-left-out), [plan](#plan),
[running](#running).

## The system

| component | state | operations | talks to |
|---|---|---|---|
| database (`Docker/mysql/init/schema.sql`) | `tempfile` (open uploads), `file` (closed files and keys), `file_on` (where they are), `device.status` | transactions of all the others | - |
| tracker (`tracker.go`, `tempfile.go`) | none of its own; goroutines with delete tasks | create-open, create-close, delete, get-path, iter-files; tempfile cleaner every minute | database, AMQP |
| storage server (`server.go`, `filereceiver.go`, `fileinfo.go`) | `<fid>.fid`, `<fid>.info` | POST/HEAD/PATCH/DELETE of files, GET, delete-task consumer | disk, database, AMQP |
| disk cleaner (`cleandisk.go`) | position of the walk | unlink old files that the database does not name | disk, database |
| device cleaner (`cleandevice.go`) | position of its cursor | drop rows of missing files and of replicas | disk, database, AMQP |
| drainer (`drain.go`) | list of fids | copy to another device, update the row, unlink | disk, database, other servers |
| client (`client.go`, `write.go`, `read.go`, `sha1file.go`, `iterfiles.go`) | offset, digest, cursor of a listing | upload in chunks with retries, read, delete, list | tracker, server |
| process frame (`main.go`, `ready.go`) | signals, channels | Run, Shutdown | - |
| FUSE mount (`mount.go`) | cached path and size, body and offset of a handle | look up, open, read | tracker, server |

What is hard, and what makes each part correct:

* **Database.**  Ten transactions of five programs meet on four tables.  A fid
  must be an open upload or a closed file and never both, a key has one file, a
  `file_on` row has a file, and a fid that is over must never come back, however
  late a request is.  What a transaction decides upon must still be so when it
  commits, and transactions that lock rows in opposite orders must not wait for
  each other for ever.
* **Writes.**  The server checks for the `tempfile` row and writes later; two
  uploads may close under one key; an answer may be lost and the request be made
  again.  Whatever create-close acknowledges must be complete on disk and stay so.
* **Delete tasks** are published after the commit by a goroutine, may be lost,
  delayed or delivered twice, and are executed without asking the database.  A
  task may never name a copy that the database names.
* **Cleaners** decide from a few queries outside a transaction and then unlink.
  They may never take a closed file; but as delete tasks get lost, they are also
  the only ones who must, in the end, take everything else.
* **Drains** run for hours, next to the server of the device, and are
  interrupted.  A file has exactly one home at any moment, and the drainer unlinks
  its copy only when the other one is readable.
* **Uploads** may be resumed while the handler of the earlier request still runs,
  servers crash between the `.fid` and the `.info` file, and a disk may fill up in
  the middle of a write whose error is dropped.
* **Reads and listings** are made of several requests.  Between a path and the GET of it
  the copy may be unlinked, moved or written again; between two pages of a listing
  files close and go; a FUSE handle keeps an offset beside a body that breaks off anywhere.
* **Shutdown** should let the requests that are being handled finish.

`PROJECT.json` lists the components, and under `hazards` each of these dangers at
the line where it bites, with the properties that would notice.

## The modules

| module | what it is |
|---|---|
| `Metadata` | the tables, the constraints on them, and every transaction as one action; the specification lets anybody run any of them at any time |
| `Transactions` | EXTENDS `Metadata`: the same transactions statement by statement under row and gap locks |
| `Listing` | EXTENDS `Metadata`: a listing that is read page by page meanwhile |
| `Efes` | the whole system around `Metadata`: who runs which transaction when, and what happens to the disks and queues meanwhile |
| `KeyStore` | what a client is promised: a key reads as its last acknowledged contents |
| `Upload` | one upload in detail: `sendFile`, the HEAD and PATCH handlers, the `.fid` and `.info` files |
| `Reads` | one closed file: `Client.Read` and the handles of the FUSE mount, while its copy comes and goes |
| `Process` | the frame of every process: signals, `Run`, `Shutdown`, exit |
| `Lifecycle`, `DrainLifecycle` | EXTEND `Process` with `Run` and `Shutdown` of a tracker or storage server, and of a drain |
| `MetadataProofs`, `TransactionsProofs`, `ListingProofs`, `EfesProofs`, `UploadProofs`, `ReadsProofs`, `LifecycleProofs`, `DrainLifecycleProofs` | the theorems |
| `MCListing`, `MCTransactions`, `MCEfes`, `MCUpload`, `MCLifecycle` | model values and symmetry for TLC |

`Efes` EXTENDS `Metadata` and shares its variables: each action of `Efes` that
touches the tables is built from the transaction of `Metadata` that the code runs
there.  Four refinements tie the modules together.  `Transactions` implements
`Metadata` (`TransactionsAreAtomic`): this is what allows the others to take a
transaction for one step.  (That `Efes` implements `Metadata` needs no check: its actions
are built that way.)  `Efes` implements `KeyStore`
(`ImplementsKeyStore`, with the key's contents read from `file` for *acknowledged* and
from `file`, `file_on` and the disks for *reads*; `get-path` returns any of the rows of a
file, so a key reads as its file only if *all* copies that have a row are complete).  And
every step of `Upload` that matters to others is one of the actions `PatchCheck`,
`PatchSave`, `Abandon`, `LateCheck` and `LateSave` of `Efes`
(`SavesAsInEfes`, over `INSTANCE Efes` for one copy); or, when it is a drainer that has
called `sendFile`, one of `DrainWrite`, `DrainSent`, `DrainError`, `LateSave` and, under
named circumstances, `DrainSentTorn` (`DrainsAsInEfes`, over another instance with a source
and a target).

### Metadata

A table is the set of its rows.  `tempfile` and `fileOn` hold `<<fid, devid>>`,
`file` holds `<<fid, dkey>>`; `nextFid` is the `AUTO_INCREMENT` of `tempfile`.
A transaction is one step; `Transactions` justifies that.  The
primary and unique keys and the foreign key of the schema are the invariant
`SchemaOK`, not guards: the database would refuse a violation, the
transactions must not attempt one.

| action | code |
|---|---|
| `InsertTempfile` | `createOpen` |
| `CloseTempfile` | `createClose`: delete the old file of the key, move the row from `tempfile` to `file` and `file_on` |
| `DeleteFids` | `deleteFidOnDB` |
| `ExpireTempfiles` | `removeOldTempfilesFromDB` |
| `MoveRow` | `update file_on` of `moveFile`; a duplicate key makes it fail |
| `DropRows` | `deleteFidFromCurrentDevice`, `deleteFidFromOtherDevices` |
| `SetDrain`, `SetAlive` | `Drainer.Run`, `entrypoint.sh` |

At the start there may be up to `Legacy` closed files of older versions, which put a
file on several devices: each is on any set of devices that is not empty.

### Transactions

`tx` holds for each connection where its transaction is (`at`), what it has read
(`old`, `tasks`), what it will write (`newFile`, `dropOn`, ...) and its locks (`rows`,
`gaps`).  The variables of `Metadata` are what has been committed.  InnoDB is not part of
the repository and is modelled as the code uses it, at its default isolation level,
REPEATABLE READ:

* every SELECT of these transactions is FOR UPDATE, so it returns the committed
  rows at the moment it gets its locks, and they stay as they are until it commits;
  the writes of a transaction may therefore take effect at `Commit`;
* the lock of a row excludes every other lock of it; the lock of a row that is *not*
  there is a gap, which excludes only inserts of it (`Held`, `Blockers`).  Two
  create-closes of a new key can both hold its gap, and then wait for each
  other: `BreakDeadlock`, the deadlock detection of InnoDB, fails one of them;
* locks are exact.  A real gap covers its neighbours too and a scan locks what it
  passes over.  More locks only make more transactions wait or die, and any
  transaction here may die at any moment (`Rollback`: the client hangs up, a
  statement fails, the process is killed).

| action | code |
|---|---|
| `SelectTempfile`, `SelectOldFid`, `SelectDevids`, `DeleteFidOnDB`, `ReplaceFile`, `InsertFileOn` | `createClose`, in this order; the two in the middle only when the key has a file |
| `SelectFidOfKey` or `DeleteByFid`, then `SelectDevids`, `DeleteFidOnDB` | `deleteFile` by key or by fid |
| `SelectOldTempfiles` | `removeOldTempfilesFromDB` |
| `SelectAllDevids`, `StatAndDelete` | `checkFid` of the device cleaner |
| `UpdateFileOn`, `InsertTempfile`, `SetDrain`, `SetAlive` | statements that commit by themselves; the drain's update waits for row and gap locks |
| `Commit`, `Rollback`, `BreakDeadlock` | the end; after `Commit` the goroutines that publish `tasks` start |

A transaction whose first statement has to wait has not begun: it has seen and locked nothing.

### Listing

`IterFiles` is one request with `from` and `count`: the page is the first `Count` rows of
`file` above the last fid that the client has seen.  Between two pages any transaction of
`Metadata` may run.  `due` is a history variable, the files that have been there since
the listing began: `ListingComplete` says that all of them are listed.  A file that
closes while the listing goes on may be missed, as fids are handed out in order but
close in any order.

### Efes

`Copies == Fids \X Devices` are the paths `<fid>.fid` of all devices.  `disk` says
whether a path is absent, partial or full, and `aged` whether its mtime is older
than `CleanDiskFileTTL`.  The processes are cut where they wait or where another
process can get in between:

| process | state | steps |
|---|---|---|
| create-open | `opening` | `CreateOpenSelect` (findAliveDevice), `CreateOpenInsert` |
| upload of a copy | `upload` | `PatchCheck` (tempfile row), `PatchSave` (saveFile), `CreateClose`, `Abandon` |
| handlers that nobody waits for | `stray` | `LateCheck` (a request arrives late), `LateSave` (saveFile comes late) |
| delete | - | `DeleteKey`, `DeleteFid` |
| tempfile cleaner | - | `RemoveOldTempfiles` (any set of open uploads may be the expired ones) |
| delete tasks | `pending`, `queue` | `Publish` (or lose), `Consume` (and acknowledge, or lose the acknowledgement, or reject) |
| disk cleaner | `visit` | `CleanStat`, `CleanQueryFileOn`, `CleanQueryTempfile`, `CleanRemove`, `CleanError` |
| device cleaner | - | `CheckFidMissing`, `CheckFidReplicated` |
| drainer | `drainer` | `DrainStart`, `DrainList`, `DrainOpen`, `DrainSkip`, `DrainWrite`, `DrainSent` (or `DrainSentTorn`), `DrainUpdate`, `DrainRemove`, `DrainError`, `DrainExit` |
| environment | `events` | `Age` (time passes), `ServerRestart` |

An upload makes any number of requests,
of which each may carry a part of the file, break off, fail, or have its answer lost; a
handler may write several times before it answers.  A drainer, too, may write its target any
number of times (`DrainWrite`): a lost answer makes it send the whole file again, so the
target may be complete before `sendFile` returns, and be truncated again.

A handler is not stopped when its client gives up.  `stray` is the set of copies that such
a handler may still write (`LateSave`, any number of times).  A client that abandons its
upload and a drainer whose `sendFile` fails, or that exits, go on at once, as the code does
(`drain.go:95-101`), and leave a stray behind; a request may also arrive when its client has
given up (`LateCheck`).  Two constants say how much of this there is, and `SavesAsInEfes` and
`DrainsAsInEfes` show that `Upload` does no more:

* `Overlap`: may a client or a drainer go on with the *same* copy - resume it, close it,
  drain to it again - while a stray of its own may still write it?  Then a stray can
  truncate a copy that is being closed or has been closed, and `PatchSave` and
  `DrainSentTorn` may accept a copy that is not complete.
* `TornCreate`: may a drain find a `.fid` file that `createFile` has truncated next to the
  `.info` file of an earlier drain (`filereceiver.go:160-164`)?  It then accepts a copy with
  a hole (`DrainSentTorn`).

With either `Durable` does not hold, which is a fault of the code: see
[findings](#findings).  `reclaim` has both; the runs `writes` and `drain` and the theorems
that need it have neither, but strays of clients and drainers that have failed.
What a file contains is reduced to whether it is complete; files are immutable, so
every complete copy of a fid is the same file.

### Upload

`Efes` knows only that a PATCH may write all or a part of a file.  `Upload` is what
that stands for.  The file is a row of `Size` units; the contents of the `.fid` file
are the set of indexes that hold their unit, so a hole is an index that is missing.
Both ends compute their digests as the bytes pass and never from the disk, so of the digest
that is saved with an offset it only matters whether it is that of the units below
the offset, *whatever the disk holds* (`summed`).  It is not when a disk got full: the
error of `io.Copy` is dropped, and `MultiWriter` has not passed on to the digest the
buffer that the file took in part.  From then on the upload cannot succeed: the
comparison at the end of `sendFile` fails.

| actions | code |
|---|---|
| `Send`, `SendFinish`, `SendLost`, `GiveUp`, `Broken`, `Answer` | `send`, `patch`, `finishFile`: a request carries a chunk or breaks off, is lost, is given up after `send_timeout`, or is answered |
| `Head`, `Abandon` | the retry in `sendFile`: `getOffset`, `Seek` (never forward in a file, nowhere in a stream), or the end of `backoff.Retry` |
| `Check`, `Refuse` | `ServeHTTP`: the `tempfile` row is there, or the request is a drain's; or 404, as the upload has expired or was closed, and the client gives up for good |
| `Create`, `ResetInfo`, `InfoReset` | `createFile` at offset 0: truncate `.fid`, create `.info`, write it |
| `ReadInfo`, `OpenFails`, `Copy` | `saveFile`: compare the offset, open, copy what arrives |
| `Finish`, `SaveInfo`, `InfoSaved` | `saveFile`: delete `.info` and answer the digest, or create and write `.info` |
| `CopyToFullDisk`, `DiskFails` | a write that is cut short without an error; any other call that fails, and is answered with an error |
| `Crash` | the server dies between any two of these steps |

What `Efes` sees of all this is `CopyOnDisk`, `AgedCopies`, `UploadStep` and `StrayUpload`: a
handler past the check is `"checked"`, a client that has failed is `"none"` and one that has
accepted is `"sent"`, and a handler that is then still at work is a stray.  `AgedCopies` is
about the mtime: a copy that has not been written since `sendFile` began (`fresh`) may be
old.  For a drain it sees `DrainerState` and `StrayDrain` instead: the drainer goes from
`"opened"` with the first write to `"sending"`, and with the verdict of `sendFile` to `"sent"`,
or back to the loop at once, whatever handlers are left.

`seekable` says whether a file or a stream is sent, and `drains` whether `sendFile` runs for a
drainer.  A drain that is repeated finds on the target what the earlier ones have left: the
fid is the same, so the paths are.  `LeftByDrain` lets that be any prefix of the file, even all
of it, with an `.info` file that is behind, torn or absent, and whose digest is wrong if a
disk got full meanwhile; the disk cleaner may have taken the `.fid` file of the two.  It may
also be a file that begins with a hole, next to an offset behind the hole, which is what an
earlier drain leaves that was interrupted in `createFile` and then resumed; and with `Overlap`
any units at all.

That interruption is the one crash the design does not survive (`filereceiver.go:160-164`):
the server dies, or a call fails, when `createFile` has truncated the
`.fid` file and has not reset the `.info` file of an earlier drain.  HEAD then answers the old
offset, the repeated drain goes on behind a hole, the digests agree, and the drainer unlinks
its good copy.  Resetting `.info` first would close the window.  The history variable `torn`
says that this has happened and not been repaired by another `createFile`.  `Crash` and
`DiskFails` may come at this step as at any other; `Intact` and `InfoHonest` name the exception
(`drains` and `torn`), and `DrainsAsInEfes` allows `DrainSentTorn` only then, or with `Overlap`.  An upload of a client
begins without leftovers and cannot get there (`torn => drains`, part of the invariant).

The constant `Overlap` is that of `Efes`: the client may resume while the handler of a request
that it gave up still runs.  The run `upload_overlap` shows what then happens.

### Reads

One file of `Size` units under one path.  `have` is how much of it the path holds, or
`Gone`: `Unlink` is a delete or the end of a drain, `Rewrite` and `Append` a drain that
brings the file back.  The read server is `http.FileServer`, which is external: a
response is what the path holds when the GET arrives, from its first byte, and an
unlink does not disturb a body that is being read.

| actions | code |
|---|---|
| `ClientGetPath`, `ClientGet`, `ClientCopy` | `Client.Read`: path, GET, `io.Copy`; the body may break off anywhere |
| `Lookup` | `Root.Lookup`: path and size are cached in a `File` |
| `Open` | `File.Open` and `Release`: a handle without a body |
| `Read` | `FileHandle.Read`: close and reopen the body when the request is for another offset than the handle's (`Positioned`), then `io.ReadFull` (`ReadBody`) |

### Process, Lifecycle, DrainLifecycle

`Process` is `runUntilInterrupt` and `handleSignals`: the first signal calls
`Shutdown`, the second kills, and what `Run` returns ends the process.  `Lifecycle`
adds the HTTP servers (`listening`, `served`, `active` requests), the background
jobs, and `Shutdown` step by step: close the channel that stops the jobs, stop the
servers in order (`ShutdownCloses`, `ShutdownWaited`, `ShutdownTimesOut`), wait for
the jobs, close the database.  `Servers` and `Jobs` are constants, as the tracker has
one server and one job, the storage server up to three and two.  `DrainLifecycle` has
the loop of `Drainer.Run`, which looks at its shutdown channel between two files,
and the `Shutdown` that waits for it.

Operators whose comment begins with *Variant* are faulty versions of the operator
that follows them.  Nothing uses them: they are there for the mutants listed in
`PROJECT.json`, each of which must make its property fail.

## The runs

| run | bounds | shows |
|---|---|---|
| `listing` | 2 devices, 3 keys, 4 fids of which up to one old, pages of 2 | `SchemaOK`, `OpenOrClosed`, `NeverResurrected` of any interleaving of transactions; `ListingComplete`, `ListedOnce` of a listing that goes on meanwhile |
| `transactions` | 2 connections, 2 devices, 1 key, 3 fids of which up to one old, `FairTxSpec` | `TransactionsAreAtomic`, `ReplaceMeetsNoRow`, `TasksMatchRows`, `TransactionsEnd` |
| `writes` | 2 devices, 2 keys, 2 uploads or 1 upload and an old file on any devices, 2 restarts, errors or strays | `Durable`, `DeleteTaskSafe`, `CleanerSparesClosed`, `KeepsLocation`, `ImplementsKeyStore` with racing closes, deletes, expiry, late tasks and both cleaners |
| `drain` | 2 devices, both drainable, 1 upload, 4 drains, restarts, errors or strays | `Durable`, `SingleHome`, `DrainMovesElsewhere` |
| `reclaim` | 2 devices, drains onto the other one, 2 drains, restarts (which reset the status), errors or strays, `Overlap`, `TornCreate`, no timing assumption, `FairSpec` | `DeleteTaskSafe`, `GarbageCollected`, `DeletedIsGone` |
| `drain_onto_itself` | 1 drain, restarts reset the status | violates `DrainMovesElsewhere`, see [findings](#findings) |
| `upload` | a file or a stream of 3 units in chunks of 2, 2 lost requests, 2 crashes, 2 disk faults, `FairSpec` | `Intact`, `InfoHonest`, `Completes`, `SavesAsInEfes`, `DrainsAsInEfes` when requests do not overlap, for clients, and for drains over all that `LeftByDrain` allows |
| `upload_overlap` | 2 handlers at a time, 3 lost requests | violates `Intact`, see [findings](#findings) |
| `reads` | 4 units, requests of up to 2, one rewrite | `RightBytes`, `ReadWhole` |
| `lifecycle` | 3 servers, 2 jobs, 2 requests each, `FairSpec` | `DatabaseOutlivesHandlers`, `ProcessEnds` |
| `drain_lifecycle` | up to 4 files, `FairSpec` | `StopsBetweenFiles`, `ProcessEnds` |
| `active_requests` | as `lifecycle` | violates `ActiveRequestsFinish`, see [findings](#findings) |

Why small bounds are enough.  The code never looks at two fids together except
when one replaces the other under a key (two fids, `writes`; three with the old
one in `transactions`, four in `listing`, where two pages must be full), so one fid
shows every race between the jobs that unlink a
file and the ones that write it.  Two devices give a source and a target, let
two drains send the same file in opposite directions, and two device cleaners find the
same file replicated.  Every conflict of locks is one of two transactions; a ring of
three would add no new way to break it.  `MaxEvents` bounds how often a drain starts, a server
restarts, a query fails and a handler is left behind, all together, so that the runs stay
finite and end in time: two events let a drain be interrupted and started again, or a
restart or a stray meet a drain, and four (`drain`) let two drains that cross be interrupted
and repeated.  The theorems below have none
of these bounds.  Symmetry is used only in runs that check no liveness.

A file of three units and chunks of two give a full chunk, a short one, and a request
that breaks off at either end or in the middle of a chunk; the code treats all
further chunks alike.  For `reads` four units and requests of two are two requests that
follow each other, and a third position to rewind from or to.

Deadlock is checked in the runs of `Listing`, `Transactions`, `Efes` and `Reads` and
cannot occur, as a late delete of a fid and another read are always possible; it shows nothing
by itself (what a deadlock of transactions would be is the subject of
`TransactionsEnd`).  It is not checked in
the runs of `Upload`, `Lifecycle` and `DrainLifecycle`, where the upload or the process
ends and nothing is left to do; that it always comes to that is what `Completes` and
`ProcessEnds` say.

## Timing and fairness

Durations are not modelled: an upload or a drain may take for ever and a file may
grow older than `CleanDiskFileTTL` (24 hours by default) at any moment.  The disk
cleaner's safety rests on that number, so `Timely = TRUE` adds exactly what it is
there for:

* `MayAge`: whoever still means to make the database point at a copy does so
  before the copy has been left unwritten for the TTL;
* `VisitsApart`: the visit of one path by the disk cleaner - two queries and an
  unlink - does not overlap the start of a drain that will overwrite the same
  path.

Without it neither `Durable` nor `CleanerSparesClosed` holds: `writes.cfg` with `Timely =
FALSE` shows one way, see [findings](#findings).
The run `reclaim`, and the theorems listed below without that assumption, do without.

`Timely` says nothing of strays; that they do not meet an upload or a drain of the same
copy that goes on is `~Overlap`, a second assumption on time (a server that has lost its
connection ends its handler before the client, which waits for its backoff, comes again).

`FairSpec` assumes that time passes; that a request, a retry loop or a drain that
has begun goes on or ends (HTTP timeouts, and the 15 minutes after which
`backoff.Retry` gives up), so a handler that writes must answer and a drainer get past its
writes at some time; that
`tempfileCleaner`, which runs every minute, gets to every expired row; that a stray ends; and that a visit of `cleanDisk` that has begun ends (one weak fairness condition for its three last
steps: exactly one of them is possible at a time).  `CleanStat` has
strong fairness: a walk visits one path after the other, so a path is only
sometimes the next one, but every walk passes every path and walks are repeated for
ever.  Nothing is assumed of clients, of operators or of delete tasks: a task may be
lost every time, and still nothing is leaked.

In `Transactions`, a handler that may go on with its next statement does (strong
fairness of `Continue`: other transactions may take and release the locks it
waits for again and again, but InnoDB grants a lock in the order of the requests, so
nobody is passed over for ever), and deadlocks are detected.  Nothing has to begin, and
nobody has to roll back.

In `Upload`, handlers and the client go on once they have begun, and a chunk that is
sent again and again is sent whole in the end (strong fairness of a whole `Send`);
nobody has to give up, and a client that tries for ever in vain counts against
`Completes`.  The property names the only ways to try in vain: a crash has torn the
`.info` file, so that HEAD answers an error for ever; a stream has moved on from the
offset that the server asks for; or the server has, from an earlier drain, more than
the client has read, and `Sha1File` refuses to seek forward.  The code ends them by the
time limit of `backoff.Retry` only.  In `Lifecycle`, goroutines
run, and a `select` with a closed channel among its cases takes it in the end
(strong fairness of `JobStops`); requests need not end, as `ShutdownTimeout` bounds
the wait for them, and nobody has to send a signal.  In `DrainLifecycle` moving a file
ends, as `sendFile` gives up in the end.

## What is proved

All theorems hold for every value of the constants that the modules' ASSUMEs
allow.

| theorem | property | assumes |
|---|---|---|
| `MetadataCorrect` | `MetaTypeOK`, `SchemaOK`, `OpenOrClosed` | - |
| `DeadFidsStayDead` | `NeverResurrected` | - |
| `TypeCorrect` | `EfesTypeOK` | - |
| `DeleteTasksAreSafe` | `DeleteTaskSafe` | `ReplicasStay` |
| `NoFileIsLost` | `Durable` | `Calm` |
| `FilesKeepALocation` | `KeepsLocation` | `Calm` |
| `CleanerIsSafe` | `CleanerSparesClosed` | `Calm` |
| `DrainIsSafe` | `DrainMovesElsewhere` | `Calm` |
| `ClientsSeeAKeyStore` | `ImplementsKeyStore` | `Calm` |
| `OneHomeEach` | `SingleHome` | `Calm`, no replicas from older versions |
| `TransactionsTypeCorrect` | `TxTypeOK` | - |
| `TransactionsAreWhole` | `TransactionsAreAtomic` | - |
| `ReplaceNeverReplaces` | `ReplaceMeetsNoRow` | - |
| `TasksAreRight` | `TasksMatchRows` | - |
| `ListingTypeCorrect` | `ListingTypeOK` | - |
| `ListingIsComplete` | `ListingComplete` | - |
| `NoneIsListedTwice` | `ListedOnce` | - |
| `UploadTypeCorrect` | `UploadTypeOK` | - |
| `AcceptedIsIntact` | `Intact` | `~Overlap` |
| `InfoIsHonest` | `InfoHonest` | `~Overlap` |
| `UploadIsAsInEfes` | `SavesAsInEfes` | - |
| `DrainsAreAsInEfes` | `DrainsAsInEfes` | - |
| `ReadsTypeCorrect`, `HandleReadsRightBytes`, `ReadIsWhole` | `ReadsTypeOK`, `RightBytes`, `ReadWhole` | - |
| `LifecycleTypeCorrect` | `LifecycleTypeOK` | - |
| `DatabaseClosedLast` | `DatabaseOutlivesHandlers` | - |
| `DrainLifecycleTypeCorrect` | `DrainLifecycleTypeOK` | - |
| `DrainStopsBetweenFiles` | `StopsBetweenFiles` | - |

`ReplicasStay`: no file has replicas from an older version, or no device is drained.
`Calm`: the timing assumption, neither overlapping requests nor a torn `createFile` (`Tidy`), and where devices are drained, no replicas, no reset of the
status at start, and no `--dest` device that is drained itself.  None can be dropped.
`ReplicasStay` is implied by `Calm`; with replicas and drains at once TLC refutes
`DeleteTaskSafe` and `Durable`, and so it does `DrainMovesElsewhere` with resets and `Durable`
with `Overlap` or `TornCreate` (see [findings](#findings)).  So there are two kinds of systems for which nothing is lost: those
where older versions have left replicas, which the device cleaners remove, and those where
devices are drained.

The argument, from the bottom up.

`MetadataCorrect`: the three properties are inductive together.  `SchemaOK` alone
is not: that a new row cannot meet an old one of its fid needs `OpenOrClosed` and
the fact that rows are below `nextFid`.  `DeadFidsStayDead` follows step by step.

`TransactionsAreWhole` rests on `TxIInv`, the invariant of `TransactionsProofs`.
`LocksInv` says that locks of rows exclude each other, and that nobody inserts a row
into a gap that another transaction has locked.  `Shape` says, of each transaction by
itself, that what it will delete or insert is locked, and that what it has read is
still so.  A step of one transaction cannot disturb the `Shape` of another
(`ShapeStays`, `Undisturbed`), because it changes rows that it has locked, and the other
one has locked what its `Shape` is about.  So at `Commit` everything that was
read is as it was read, and the commit is the one action of `Metadata`
that the transaction stands for (`CommitRefines`); all other steps leave the tables
alone.  `ReplaceNeverReplaces` and `TasksAreRight` follow from the same `Shape`.

`ListingIsComplete` needs `Received`: every file that is `due` and not above the last fid
that was listed is in the list.  One page keeps it, by counting: a page is ordered
(`PageOrdered`); if it is full, all rows above `From` that are not on it
are above its last fid (`PageFull`); and if it is empty, there are none (`PageEmpty`).

`DeleteTasksAreSafe` needs more than that no task names a referenced copy: a task must
not name one that *will be* referenced when the task is consumed at last (`Over`).  Where
nobody drains, a row that is gone does not come back: a device cleaner may drop one
replica of a file that lives, and the task for it stays harmless.  Where devices are
drained, a drain may move a file that lives onto any device, so the *fid* of a task must be
dead for ever; that holds when no file has replicas, because then a file has at most one
row (`OneRow`), and a transaction that drops it kills the fid.  `RowsInv` and
`TasksInv` say this for each of the two kinds of systems.

`NoFileIsLost` rests on `DurableIInv`.  Without drains only its first four parts matter:

* `Fresh`: nothing is on any disk under a fid that was not handed out, so an
  upload starts from nothing;
* `UploadInv`: the copy of a running upload is not old and not visited, and
  complete once `sendFile` has returned;
* `StrayInv`: the copy of a stray is nobody's: no row points at it, no upload that can
  still be closed and no drain that can still move a row are at work on it;
* `VisitInv`: a path that the cleaner has not found in `file_on` does not come to
  be there while the visit lasts.  An upload cannot bring it there, by `UploadInv`;
  a drain cannot, because it writes its target, which makes it young, before
  it updates the row;
* `DrainInv`: a drainer's files are closed on its own device or dead, its target
  is another device, and from the first write on it is neither old nor visited; it is
  complete when `sendFile` has returned;
* `MovedInv`: a file does not return to a device whose drainer is about to unlink
  it.  That is the subtle one: it needs that a drained device keeps its status and
  that nobody drains onto a device that is drained.

The proof first says, in one lemma for each variable, which steps write it
(`DiskEffect`, `VisitEffect`, ...), so that each invariant looks only at the steps that
matter.  `StoreIInv` adds that every closed file has a row (`HomeInv`) and derives
the rest.  `FilesKeepALocation` is the step that `HomeInv` hides: a device cleaner
drops a row only for a copy that is not there, which `Durable` excludes, or in the
transaction that has seen another row of the file and keeps it, so of two device cleaners
that find the same replicas the second one finds one row only.  For the key store, that a transaction changes what one key holds or
nothing (`HolderEffect`), and that reads and acknowledgements agree.

`DatabaseClosedLast` holds for any number of servers, jobs and requests.  Its invariant
adds to the type that a server which `Shutdown` has passed is closed and idle
(`PassedInv`), and that the database is closed only past the last server with all
jobs stopped (`ClosedInv`); a failed `Serve` and slow requests cannot disturb it, as
`Shutdown` never passes a server that is busy.

`UploadTypeCorrect` also covers overlapping requests: it needs only that no body goes beyond
the file (`BodiesFit`), so that what a handler writes and counts stays inside it.

`AcceptedIsIntact` holds for every size and chunk size.  `UploadIInv` says that
one handler is at work at a time, and of that handler what is known at each of its
steps (`HandlerInv`): up to the moment when `.info` is written it is the old `.info` that says
how far the file is good, and from there on the handler itself.  `InfoHonest` alone
is not inductive, because a crash may come at any of these steps.  `ClientInv` says why a
client's upload is never torn: it sends offset 0 only to a server that has no offset to
lose, as a client that has sent something goes on only from what it is told.

`UploadIsAsInEfes` holds with and without overlap.  Its invariant, `SeenInv`, has `UploadIInv` only
where requests do not overlap.  Each action either leaves alone what `Efes` sees or
is one of the five (`EfesChecks`, `EfesSaves`, `EfesAbandons`, `EfesChecksLate`,
`EfesSavesLate`).  The step that tells the client that all is well needs `HandlerInv` when
requests do not overlap: an answer with a digest means a complete file.  When they do, `PatchSave`
promises no more than that the copy was written.

`DrainsAreAsInEfes` holds for every crash, overlap and leftover, too.  It needs one more invariant, because the target may hold the whole file
before `sendFile` has sent anything: the verdict must not come before the first write.
`FreshInv` says that nobody has a digest to answer, or an offset equal to the length, for a
`.fid` file that was not written since `sendFile` began: an interrupted drain never leaves
that offset, as the last chunk deletes the `.info` file instead of saving it.  `Touched`
names the handlers that know the file was written.  `UploadIsAsInEfes` uses it for the
mtime of what the client accepts.  That what is accepted is complete without `torn` and
`Overlap` is `HandlerInv` again.

`HandleReadsRightBytes` rests on `HandleInv`: the offset of a handle with a body is that of
the next byte of the body, plus the offset that the body was opened for.  After a failed open
the handle keeps an old offset, but no body, so the next read opens one.  `ReadIsWhole` needs
that a path holds all or nothing until a drain comes back (`WholeInv`).

`DrainStopsBetweenFiles`: `Run` returns from its loop or from the listing and never from
`moveFile` (`ReturnsInv`), and `Shutdown` cannot fail before it has passed the channel that
only `Run` closes (`WaitsInv`), so neither result can end the process in the middle of a
file.

Only model-checked: liveness (`GarbageCollected`, `DeletedIsGone`, `TransactionsEnd`,
`Completes`, `ProcessEnds`).  It rests on fairness, and so on ENABLED, which is out of the
prover's reach.  Every other property of a passing run is also a theorem.

## Findings

* **The disk cleaner asks its two questions in the wrong order** (`cleandisk.go:121`;
  no run of its own: set `Timely = FALSE` in `writes.cfg`).  It looks in `file_on` and then in `tempfile`; a create-close
  between the two moves the fid from the second table to the first, both queries
  miss it, and the file that was just acknowledged is unlinked.  The other order
  would close the window.  The file must have been left unwritten for the TTL.
* **A drain may choose its own device** (`drain.go:120`, run `drain_onto_itself`).  Only
  the status `drain` keeps the device out of the candidates, and
  `Docker/efes-server/entrypoint.sh` sets it to `alive` whenever the server starts.
  A restart in the middle of a drain lets `moveFile` send a file to itself:
  truncated first, unlinked last.
* **A delete task may outlive the drain of the file it names** (`cleandevice.go:143`; no run
  of its own: `drain.cfg` with `Legacy = 1` and `Drainable = {d1}`).  When a file of an older version
  has a replica, the device cleaner drops one row and publishes a task for that
  copy.  If the task is late, a drain may have moved the file back to that very device:
  the consumer, which does not ask the database, unlinks the only copy.  With two replicas
  and a drain onto the second one the drainer also truncates a good copy while it sends:
  the update of the row then fails on the duplicate key, and a drain that is interrupted has
  cost the replica.
* **A late handler truncates a resumed upload** (`filereceiver.go:176`, run
  `upload_overlap`).  A request at offset 0 that the client has given up is not
  cancelled on the server.  When it gets to `createFile` after a chunk was saved (by
  the resumed upload, or by an earlier drain), and the handler of the next chunk
  has found the old offset in the `.info` file, the chunk is lost and the digests
  agree nevertheless: neither is computed from the disk.  It may even come after the
  last chunk: the run's trace is a repeated drain that sends the rest of a file and
  accepts it, and finds the target emptied.
* **A late handler may outlive the upload** (`filereceiver.go:74`; no run of its own:
  `writes.cfg` with `Overlap = TRUE` violates `Durable`, in this way and as before).  The `tempfile` row is looked for once, before `saveFile`.  A
  handler that is past it when the upload is resumed, completed and closed truncates a file
  that create-close has acknowledged.  No text of the repository says that a request is
  cancelled when its client has gone.
* **A crash in `createFile` can cost a file that is drained** (`filereceiver.go:160-164`; no
  run of its own: `drain.cfg` with `TornCreate = TRUE`, and `Intact` without its exception).
  A drain that is repeated over the leftovers of an earlier one, and whose first request is
  interrupted between the truncation of the `.fid` file and the reset of the `.info` file, goes
  on at the old offset, and the copy that it accepts begins with a hole.  The drainer then
  moves the row and unlinks the source.
* **Active requests are not waited for** (`main.go:298`, run `active_requests`).
  `Shutdown` makes `Serve` return `ErrServerClosed` at once, `Run` returns that, and
  `log.Fatal` ends the process; `main.go:311` announces the opposite.  For the same
  reason the lines of `runUntilInterrupt` that would wait for `Shutdown` (`main.go:299`)
  are never reached, and a drain exits before its `Shutdown` has returned.
* **A FUSE read that does not begin at 0 gets the wrong bytes** (`mount.go:168`).  `open`
  sets a header named `bytes`, with the offset that the handle had, where HTTP has
  `Range`, so the body begins with the first byte of the file whatever the offset is.
  `RightBytes` is stated for bodies opened at offset 0 for that reason; the model
  has the code's behaviour, and without that condition TLC refutes the property in a
  few steps.  No doc or test claims the opposite, so it is not a run.
* **A body that breaks off looks like the end of the file** (`mount.go:154`).
  `io.ErrUnexpectedEOF` is swallowed together with the one that `io.ReadFull`
  returns at the end of a file, so a broken connection is a short read without an error.
  Likewise `Lookup` caches path and size in the node: a file that moves afterwards
  cannot be opened, and one that a drain is just bringing back has the size it had then.
* **The comment at `tracker.go:535` fears what cannot happen.**  It says that `replace into
  file` may meet a row of the same key and leave a stale `file_on` row.  With gap
  locks it cannot: whoever found no row of the key holds the gap, and the second
  one to insert waits or is the victim of the deadlock detection
  (`ReplaceMeetsNoRow`, proved).  It could at READ COMMITTED.
* **A full disk is noticed late** (`filereceiver.go:209`).  The error of `io.Copy` is
  dropped, and the upload goes on to its last byte only to fail at the comparison of the
  digests; nothing wrong is accepted (`Intact`, with `CopyToFullDisk`).

## What is left out

* **The POST and DELETE handlers of the file receiver**, which no client of the repository
  calls, and a transport that still reads the source after its request was given up.
* **Which of the eligible devices is selected.**  `Efes` takes any device that
  is alive, or none.  The 60 seconds of the heartbeat are a duration, which the
  database compares with its own clock; the freer half, the random choice and the
  preference for the client's host, rack or zone only order the candidates, and no property
  depends on the order.  (`getClientIP` returns `ip:port` where there is no
  `X-Forwarded-For` header, so the preference works behind a proxy only.)
* **Start and end of a server beyond `Lifecycle`**: the opening of the listeners, and
  the delete-task consumer and the device cleaner at shutdown, for which nobody waits.
* **Dry runs, and files with other extensions** in the disk cleaner.
* **Disk statistics** are reported to the database for `findAliveDevice` and the
  operator.  **Chunk sizes** are read from the configuration; `Upload` has one as a constant,
  and breaks a request anywhere.
* **Hash functions**: pure functions on bytes, used here only by what they tell apart.
  **Status display, progress bars, wire types and configuration** have no control
  worth a model.

`PROJECT.json` says so for each component.

## Plan

Done: every module above, and a theorem for every safety property that a run checks.  What
would come next:

1. The choice of a device against its specification, as operators over bounded inputs.
2. Overlapping requests: under which bound on the life of a stray a resumed upload is safe.
3. Replicas and drains together, with the assumption that delete tasks are consumed before
   a drain begins.

## Running

    tlc -config writes.cfg MCEfes
    tlapm EfesProofs.tla
