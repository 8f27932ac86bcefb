------------------------------ MODULE Metadata ------------------------------
(***************************************************************************)
(* The tables of the MySQL database that every efes process shares, and    *)
(* the transactions the processes run on them.  A table is the set of its  *)
(* rows: tempfile and file_on rows are <<fid, devid>>, file rows are       *)
(* <<fid, dkey>>.  A transaction is one step: each of them takes its row   *)
(* locks (SELECT ... FOR UPDATE) before it writes, so InnoDB serialises    *)
(* the conflicting ones.  The specification of this module lets anybody    *)
(* run any transaction at any time; module Efes says who runs which, when. *)
(***************************************************************************)
EXTENDS Naturals, FiniteSets

CONSTANTS
    Devices,    \* rows of table device
    Keys,       \* values of file.dkey
    MaxFid,     \* bound: AUTO_INCREMENT values a behaviour may hand out
    Legacy      \* bound: up to so many fids are closed files before the model
                \* starts, on one or more devices each (older versions
                \* replicated)

ASSUME MetadataAssumption ==
    /\ MaxFid \in Nat
    /\ Legacy \in 0..MaxFid

Fids == 1..MaxFid

Copies == Fids \X Devices

VARIABLES
    tempfile,   \* rows <<fid, devid>> of uploads that are not closed yet
    file,       \* rows <<fid, dkey>> of the closed files
    fileOn,     \* rows <<fid, devid>>: where the closed files are
    draining,   \* devices with status 'drain'; the others are 'alive'
    nextFid     \* AUTO_INCREMENT of tempfile: InnoDB never hands one out twice

metaVars == <<tempfile, file, fileOn, draining, nextFid>>

MetaTypeOK ==
    /\ tempfile \subseteq Copies
    /\ file \subseteq Fids \X Keys
    /\ fileOn \subseteq Copies
    /\ draining \subseteq Devices
    /\ nextFid \in 1..(MaxFid + 1)

MetaInit ==
    /\ tempfile = {}
    /\ nextFid \in 1..(Legacy + 1)
    /\ \E keyOf \in [1..(nextFid - 1) -> Keys] :
         /\ \A f, g \in 1..(nextFid - 1) : keyOf[f] = keyOf[g] => f = g
         /\ file = {<<f, keyOf[f]>> : f \in 1..(nextFid - 1)}
    /\ fileOn \in SUBSET ((1..(nextFid - 1)) \X Devices)
    /\ \A f \in 1..(nextFid - 1) : \E d \in Devices : <<f, d>> \in fileOn
    /\ draining = {}

-----------------------------------------------------------------------------
(* What the queries see. *)

HasTempfile(f) == \E d \in Devices : <<f, d>> \in tempfile

Closed(f) == \E k \in Keys : <<f, k>> \in file

Live(f) == HasTempfile(f) \/ Closed(f)

\* The copies the database knows of: an upload in progress or a closed file.
Referenced == tempfile \cup fileOn

RowsOf(fids) == {p \in fileOn : p[1] \in fids}

FidsOfKey(k) == {f \in Fids : <<f, k>> \in file}

-----------------------------------------------------------------------------
(* The transactions. *)

\* insert into tempfile: the database picks the fid.
InsertTempfile(d) ==
    /\ nextFid \in Fids
    /\ tempfile' = tempfile \cup {<<nextFid, d>>}
    /\ nextFid' = nextFid + 1
    /\ UNCHANGED <<file, fileOn, draining>>

\* Variant: the file row stays.
DeleteFidsKeepFile(fids) ==
    /\ fileOn' = fileOn \ RowsOf(fids)
    /\ UNCHANGED <<tempfile, file, draining, nextFid>>

\* deleteFidOnDB for every fid of the set.
DeleteFids(fids) ==
    /\ fileOn' = fileOn \ RowsOf(fids)
    /\ file' = {r \in file : r[1] \notin fids}
    /\ UNCHANGED <<tempfile, draining, nextFid>>

\* Variant: fid and devid are swapped in the insert into file_on.
CloseTempfileSwapped(f, d, k) ==
    /\ <<f, d>> \in tempfile
    /\ tempfile' = tempfile \ {<<f, d>>}
    /\ file' = {r \in file : r[1] \notin FidsOfKey(k)} \cup {<<f, k>>}
    /\ fileOn' = (fileOn \ RowsOf(FidsOfKey(k))) \cup {<<d, f>>}
    /\ UNCHANGED <<draining, nextFid>>

\* Variant: the file that has the key is not looked for.
CloseTempfileNoLookup(f, d, k) ==
    /\ <<f, d>> \in tempfile
    /\ tempfile' = tempfile \ {<<f, d>>}
    /\ file' = file \cup {<<f, k>>}
    /\ fileOn' = fileOn \cup {<<f, d>>}
    /\ UNCHANGED <<draining, nextFid>>

\* Variant: the tempfile row is not deleted.
CloseTempfileKeepsRow(f, d, k) ==
    /\ <<f, d>> \in tempfile
    /\ file' = {r \in file : r[1] \notin FidsOfKey(k)} \cup {<<f, k>>}
    /\ fileOn' = (fileOn \ RowsOf(FidsOfKey(k))) \cup {<<f, d>>}
    /\ UNCHANGED <<tempfile, draining, nextFid>>

\* create-close: the tempfile row becomes a file row and a file_on row, in the
\* place of the fid that had the key.
CloseTempfile(f, d, k) ==
    /\ <<f, d>> \in tempfile
    /\ tempfile' = tempfile \ {<<f, d>>}
    /\ file' = {r \in file : r[1] \notin FidsOfKey(k)} \cup {<<f, k>>}
    /\ fileOn' = (fileOn \ RowsOf(FidsOfKey(k))) \cup {<<f, d>>}
    /\ UNCHANGED <<draining, nextFid>>

\* removeOldTempfilesFromDB: the rows older than TempfileTooOld.  Age is not
\* modelled, so any set of rows may be the old ones.
ExpireTempfiles(rows) ==
    /\ rows # {} /\ rows \subseteq tempfile
    /\ tempfile' = tempfile \ rows
    /\ UNCHANGED <<file, fileOn, draining, nextFid>>

\* Variant: the row is inserted, and the old one stays.
MoveRowInsert(f, src, dst) ==
    /\ fileOn' = IF <<f, src>> \in fileOn THEN fileOn \cup {<<f, dst>>}
                                          ELSE fileOn
    /\ UNCHANGED <<tempfile, file, draining, nextFid>>

\* Variant: a row is written whether there was one or not.
MoveRowReplace(f, src, dst) ==
    /\ fileOn' = (fileOn \ {<<f, src>>}) \cup {<<f, dst>>}
    /\ UNCHANGED <<tempfile, file, draining, nextFid>>

\* update file_on set devid=dst where devid=src and fid=f: no row is no error,
\* a row that is there already is a duplicate key and changes nothing.
MoveRow(f, src, dst) ==
    /\ fileOn' = IF <<f, src>> \in fileOn /\ <<f, dst>> \notin fileOn
                   THEN (fileOn \ {<<f, src>>}) \cup {<<f, dst>>}
                   ELSE fileOn
    /\ UNCHANGED <<tempfile, file, draining, nextFid>>

\* deleteFidFromCurrentDevice and deleteFidFromOtherDevices.
DropRows(rows) ==
    /\ fileOn' = fileOn \ rows
    /\ UNCHANGED <<tempfile, file, draining, nextFid>>

\* update device set status='drain'.
SetDrain(d) ==
    /\ draining' = draining \cup {d}
    /\ UNCHANGED <<tempfile, file, fileOn, nextFid>>

\* ON DUPLICATE KEY UPDATE status='alive', when a server container starts.
SetAlive(d) ==
    /\ draining' = draining \ {d}
    /\ UNCHANGED <<tempfile, file, fileOn, nextFid>>

MetaNext ==
    \/ \E d \in Devices : InsertTempfile(d) \/ SetDrain(d) \/ SetAlive(d)
    \/ \E f \in Fids : DeleteFids({f})
    \/ \E f \in Fids, d \in Devices, k \in Keys : CloseTempfile(f, d, k)
    \/ \E rows \in SUBSET tempfile : ExpireTempfiles(rows)
    \/ \E f \in Fids, src, dst \in Devices : MoveRow(f, src, dst)
    \/ \E rows \in SUBSET fileOn : DropRows(rows)

MetaSpec == MetaInit /\ [][MetaNext]_metaVars

-----------------------------------------------------------------------------
(* Properties. *)

\* No transaction runs into the constraints of schema.sql: one tempfile row and
\* one file row per fid, one fid per key, file_on rows for closed files only.
\* create-close counts on its REPLACE never hitting a file that still has
\* file_on rows (tracker.go:535-543).
SchemaOK ==
    /\ \A p, q \in tempfile : p[1] = q[1] => p = q
    /\ \A r, s \in file : (r[1] = s[1] \/ r[2] = s[2]) => r = s
    /\ \A p \in fileOn : Closed(p[1])

\* A fid is an upload or a file, never both: the tempfile cleaner does not
\* publish delete tasks for a file that has been closed (tempfile.go:56-85),
\* and a fid the database has not handed out yet is neither.
OpenOrClosed ==
    /\ \A f \in Fids : ~(HasTempfile(f) /\ Closed(f))
    /\ \A f \in nextFid..MaxFid : ~Live(f)

\* An upload that was closed, expired or deleted is over: no late request of
\* its client, no drain in flight and no retry makes its fid live again, or
\* leaves a file_on row behind for it (drain.go:129, tracker.go:501-513).
NeverResurrected ==
    [][\A f \in Fids : f < nextFid /\ ~Live(f)
                         => ~Live(f)' /\ RowsOf({f})' = {}]_metaVars
=============================================================================
