---------------------------- MODULE Transactions ----------------------------
(***************************************************************************)
(* The transactions of module Metadata statement by statement, as several  *)
(* connections run them at once.  The variables of Metadata are what has   *)
(* been committed; tx holds, for each connection, what its transaction has *)
(* read, what it will write, and the locks it has.                         *)
(*                                                                         *)
(* The database is InnoDB at its default isolation, REPEATABLE READ, which *)
(* is external to the repository.  Every read of these transactions is a   *)
(* SELECT ... FOR UPDATE: it sees the committed rows at the moment it gets *)
(* its locks.  A row that is found is locked; a row that is not there is   *)
(* locked as a gap, which keeps others from inserting it but not from      *)
(* locking the same gap.  Locks are held to the end of the transaction, so *)
(* its writes may as well take effect when it commits.                     *)
(*                                                                         *)
(* Locks are exact here.  In InnoDB a gap also covers the neighbours of    *)
(* the row that is missing, and a scan locks what it passes over: that     *)
(* only makes more transactions wait, or die in a deadlock, and a          *)
(* transaction of this module may die at any moment.                       *)
(***************************************************************************)
EXTENDS Metadata

CONSTANT Workers    \* connections that may have a transaction open

VARIABLE tx

txVars == <<metaVars, tx>>

\* The statement that is next.
Steps == {"idle", "lookup", "devids", "delete", "replace", "insertOn", "stat",
          "commit"}

Locks == ({"tempfile", "fid", "fileOn"} \X Fids) \cup ({"key"} \X Keys)

Transaction ==
    [at : Steps,
     old : 0..MaxFid,           \* the fid whose copies are looked up
     tasks : SUBSET Copies,     \* the copies that have been found for it
     newFile : SUBSET (Fids \X Keys), newOn : SUBSET Copies,    \* to insert
     dropTemp : SUBSET Copies, dropFile : SUBSET (Fids \X Keys),
     dropOn : SUBSET Copies,                                    \* to delete
     rows : SUBSET Locks, gaps : SUBSET Locks]

Idle == [at |-> "idle", old |-> 0, tasks |-> {}, newFile |-> {}, newOn |-> {},
         dropTemp |-> {}, dropFile |-> {}, dropOn |-> {},
         rows |-> {}, gaps |-> {}]

TxTypeOK == MetaTypeOK /\ tx \in [Workers -> Transaction]

TxInit == MetaInit /\ tx = [w \in Workers |-> Idle]

-----------------------------------------------------------------------------
(* Locks. *)

\* The clustered record and the entry of the unique index of file rows.
FileLocks(rows) == UNION {{<<"fid", r[1]>>, <<"key", r[2]>>} : r \in rows}

\* The committed file rows that a new row of the transaction would displace.
SameKey(t) == {r \in file : \E s \in t.newFile : r[2] = s[2]}
SameFidOrKey(t) == {r \in file : \E s \in t.newFile : r[1] = s[1] \/ r[2] = s[2]}

\* What the next statement of a transaction has to lock.
Wanted(t) ==
    CASE t.at = "lookup" -> {<<"key", r[2]>> : r \in t.newFile}
                              \cup FileLocks(SameKey(t))
      [] t.at = "devids" -> {<<"fileOn", t.old>>}
      [] t.at = "delete" -> {<<"fileOn", t.old>>, <<"fid", t.old>>}
                              \cup FileLocks({r \in file : r[1] = t.old})
      [] t.at = "replace" -> FileLocks(t.newFile \cup SameFidOrKey(t))
      [] t.at = "insertOn" -> {<<"fileOn", p[1]>> : p \in t.newOn}
      [] OTHER -> {}

\* A gap stands in the way of inserts only.
Held(u, inserting) == tx[u].rows \cup (IF inserting THEN tx[u].gaps ELSE {})

Blockers(w) ==
    {u \in Workers \ {w} :
       Wanted(tx[w]) \cap Held(u, tx[w].at \in {"replace", "insertOn"}) # {}}

Free(locks, inserting) == \A u \in Workers : locks \cap Held(u, inserting) = {}

\* The statement gets its locks and the transaction becomes t: locks that are
\* on nothing are gaps.
Execute(w, t, present) ==
    /\ tx' = [tx EXCEPT ![w] =
                [t EXCEPT !.rows = @ \cup (Wanted(tx[w]) \cap present),
                          !.gaps = @ \cup (Wanted(tx[w]) \ present)]]
    /\ UNCHANGED metaVars

Present == FileLocks(file) \cup {<<"fileOn", p[1]>> : p \in fileOn}

Begin(w, t) ==
    /\ tx[w] = Idle
    /\ tx' = [tx EXCEPT ![w] = t]
    /\ UNCHANGED metaVars

Statement(w, step) == tx[w].at = step /\ Blockers(w) = {}

-----------------------------------------------------------------------------
(* The statements.  A transaction that waits for its first lock has seen   *)
(* nothing and holds nothing: it begins when it gets that lock.            *)

\* Variant: fid and devid are swapped in the insert into file_on.
SelectTempfileSwapped(w, p, k) ==
    /\ p \in tempfile
    /\ Free({<<"tempfile", p[1]>>}, FALSE)
    /\ Begin(w, [Idle EXCEPT !.at = "lookup",
                             !.newFile = {<<p[1], k>>}, !.newOn = {<<p[2], p[1]>>},
                             !.dropTemp = {p},
                             !.rows = {<<"tempfile", p[1]>>}])

\* Variant: without FOR UPDATE.
SelectTempfileUnlocked(w, p, k) ==
    /\ p \in tempfile
    /\ Begin(w, [Idle EXCEPT !.at = "lookup",
                             !.newFile = {<<p[1], k>>}, !.newOn = {p},
                             !.dropTemp = {p}])

\* createClose: select devid from tempfile, delete from tempfile.
SelectTempfile(w, p, k) ==
    /\ p \in tempfile
    /\ Free({<<"tempfile", p[1]>>}, FALSE)
    /\ Begin(w, [Idle EXCEPT !.at = "lookup",
                             !.newFile = {<<p[1], k>>}, !.newOn = {p},
                             !.dropTemp = {p},
                             !.rows = {<<"tempfile", p[1]>>}])

\* Variant: without FOR UPDATE.
SelectOldFidUnlocked(w) ==
    LET old == SameKey(tx[w]) IN
    /\ tx[w].at = "lookup"
    /\ \/ /\ old = {}
          /\ tx' = [tx EXCEPT ![w].at = "replace"]
       \/ \E r \in old : tx' = [tx EXCEPT ![w].at = "devids", ![w].old = r[1]]
    /\ UNCHANGED metaVars

\* createClose: select fid from file where dkey=?.
SelectOldFid(w) ==
    LET old == SameKey(tx[w]) IN
    /\ Statement(w, "lookup")
    /\ \/ /\ old = {}
          /\ Execute(w, [tx[w] EXCEPT !.at = "replace"], Present)
       \/ \E r \in old :
            Execute(w, [tx[w] EXCEPT !.at = "devids", !.old = r[1]], Present)

\* deleteFile by key: the same query; no row is no transaction.
SelectFidOfKey(w, k) ==
    \E r \in file :
      /\ r[2] = k
      /\ Free(FileLocks({r}), FALSE)
      /\ Begin(w, [Idle EXCEPT !.at = "devids", !.old = r[1],
                               !.rows = FileLocks({r})])

\* deleteFile by fid goes to deleteFidOnDB at once.
DeleteByFid(w, f) == Begin(w, [Idle EXCEPT !.at = "devids", !.old = f])

\* Variant: without FOR UPDATE.
SelectDevidsUnlocked(w) ==
    /\ tx[w].at = "devids"
    /\ tx' = [tx EXCEPT ![w].at = "delete", ![w].tasks = RowsOf({tx[w].old})]
    /\ UNCHANGED metaVars

\* getDevicesOfFid.
SelectDevids(w) ==
    /\ Statement(w, "devids")
    /\ Execute(w, [tx[w] EXCEPT !.at = "delete",
                                !.tasks = RowsOf({tx[w].old})], Present)

\* deleteFidOnDB: delete from file_on, delete from file.
DeleteFidOnDB(w) ==
    LET t == tx[w] IN
    /\ Statement(w, "delete")
    /\ Execute(w, [t EXCEPT !.at = IF t.newFile = {} THEN "commit" ELSE "replace",
                            !.dropOn = RowsOf({t.old}),
                            !.dropFile = {r \in file : r[1] = t.old}], Present)

\* replace into file: a row that is in the way and has not been deleted by the
\* transaction itself goes too.
ReplaceFile(w) ==
    LET t == tx[w] IN
    /\ Statement(w, "replace")
    /\ Execute(w, [t EXCEPT !.at = "insertOn",
                            !.dropFile = @ \cup SameFidOrKey(t)], Wanted(t))

InsertFileOn(w) ==
    /\ Statement(w, "insertOn")
    /\ Execute(w, [tx[w] EXCEPT !.at = "commit"], Wanted(tx[w]))

\* removeOldTempfilesFromDB: select the old rows, delete them.
SelectOldTempfiles(w, rows) ==
    /\ rows # {} /\ rows \subseteq tempfile
    /\ Free({<<"tempfile", p[1]>> : p \in rows}, FALSE)
    /\ Begin(w, [Idle EXCEPT !.at = "commit", !.tasks = rows, !.dropTemp = rows,
                             !.rows = {<<"tempfile", p[1]>> : p \in rows}])

\* checkFid: getAllDevidsForFid, and again no row is no transaction.
SelectAllDevids(w, f) ==
    /\ RowsOf({f}) # {}
    /\ Free({<<"fileOn", f>>}, FALSE)
    /\ Begin(w, [Idle EXCEPT !.at = "stat", !.old = f, !.tasks = RowsOf({f}),
                             !.rows = {<<"fileOn", f>>}])

\* Variant: without the deferred Rollback and the Commit of the case in which
\* there is nothing to delete.
StatAndDeleteLeaks(w) ==
    LET t == tx[w] IN
    /\ t.at = "stat"
    /\ \E p \in t.tasks :
         /\ t.tasks # {p}
         /\ tx' = [tx EXCEPT ![w] =
                     [t EXCEPT !.at = "commit", !.tasks = @ \ {p},
                               !.dropOn = fileOn \cap (t.tasks \ {p})]]
    /\ UNCHANGED metaVars

\* checkFid: os.Stat finds the copy of the own device p gone, or finds it and
\* deletes the rows of the other devices.
StatAndDelete(w) ==
    LET t == tx[w] IN
    /\ t.at = "stat"
    /\ \E p \in t.tasks :
         \E others \in {{}, t.tasks \ {p}} :
           tx' = [tx EXCEPT ![w] =
                    [t EXCEPT !.at = "commit", !.tasks = others,
                              !.dropOn = fileOn \cap
                                (IF others = {} THEN {p} ELSE others)]]
    /\ UNCHANGED metaVars

\* The transaction becomes visible and its locks are released; the goroutines
\* that publish tx[w].tasks start.
Commit(w) ==
    LET t == tx[w] IN
    /\ t.at = "commit"
    /\ tempfile' = tempfile \ t.dropTemp
    /\ file' = (file \ t.dropFile) \cup t.newFile
    /\ fileOn' = (fileOn \ t.dropOn) \cup t.newOn
    /\ tx' = [tx EXCEPT ![w] = Idle]
    /\ UNCHANGED <<draining, nextFid>>

\* The client hangs up (BeginTx has the context of its request), a statement
\* or the commit fails, the process dies: the database rolls back.
Rollback(w) ==
    /\ tx[w] # Idle
    /\ tx' = [tx EXCEPT ![w] = Idle]
    /\ UNCHANGED metaVars

\* The database finds transactions that wait for each other and fails one.
BreakDeadlock(w) ==
    /\ \E ring \in SUBSET Workers :
         w \in ring /\ \A u \in ring : Blockers(u) \cap ring # {}
    /\ Rollback(w)

(* Statements outside a transaction, which commit by themselves.           *)

\* update file_on set devid=dst where devid=src and fid=f: a row that is there
\* is deleted and inserted anew, a row that is not makes nobody wait.
UpdateFileOn(f, src, dst) ==
    /\ <<f, src>> \in fileOn => Free({<<"fileOn", f>>}, TRUE)
    /\ MoveRow(f, src, dst)
    /\ UNCHANGED tx

SingleStatement ==
    \/ \E d \in Devices : (InsertTempfile(d) \/ SetDrain(d) \/ SetAlive(d))
                            /\ UNCHANGED tx
    \/ \E f \in Fids, src, dst \in Devices : UpdateFileOn(f, src, dst)

BeginTransaction(w) ==
    \/ \E p \in Copies, k \in Keys : SelectTempfile(w, p, k)
    \/ \E k \in Keys : SelectFidOfKey(w, k)
    \/ \E f \in Fids : DeleteByFid(w, f) \/ SelectAllDevids(w, f)
    \/ \E rows \in SUBSET tempfile : SelectOldTempfiles(w, rows)

Continue(w) ==
    \/ SelectOldFid(w) \/ SelectDevids(w) \/ DeleteFidOnDB(w)
    \/ ReplaceFile(w) \/ InsertFileOn(w) \/ StatAndDelete(w) \/ Commit(w)

TxNext ==
    \/ \E w \in Workers :
         BeginTransaction(w) \/ Continue(w) \/ Rollback(w) \/ BreakDeadlock(w)
    \/ SingleStatement

TxSpec == TxInit /\ [][TxNext]_txVars

(* Fairness: a handler goes on with its transaction, the database grants   *)
(* locks in the order they were asked for, so nobody waits for ever for    *)
(* locks that are released again and again, and it looks for deadlocks.    *)
FairTxSpec ==
    /\ TxSpec
    /\ \A w \in Workers : SF_txVars(Continue(w)) /\ WF_txVars(BreakDeadlock(w))

-----------------------------------------------------------------------------
(* Properties. *)

\* Several transactions at once, interleaved statement by statement, change
\* the tables only as the whole transactions of module Metadata, one after the
\* other: what createClose, deleteFile, checkFid and removeOldTempfiles read
\* is still so when they commit (tracker.go:495-560).
TransactionsAreAtomic == MetaSpec

\* REPLACE INTO never replaces: the row of the key has been deleted by the
\* transaction itself, and nobody can insert another before it does
\* (tracker.go:535-539 expects that somebody can).
ReplaceMeetsNoRow ==
    \A w \in Workers :
        Statement(w, "replace") => SameFidOrKey(tx[w]) \subseteq tx[w].dropFile

\* The delete tasks that go out after a commit are for copies that the commit
\* made unreferenced, and a file that it deletes has tasks for all its copies:
\* the list of devices that getDevicesOfFid or getAllDevidsForFid returned is
\* still right, whatever a drain did meanwhile (tracker.go:526-566).
TasksMatchRows ==
    [][\A w \in Workers :
         Commit(w) =>
           /\ tx[w].tasks \cap (tempfile \cup fileOn)' = {}
           /\ \A p \in fileOn \ fileOn' : Closed(p[1])' \/ p \in tx[w].tasks]_txVars

\* Every transaction ends although createClose and deleteFile by fid take the
\* locks of file and file_on in opposite orders (tracker.go:521-526,
\* tracker.go:618-626), and so does every gap lock with every insert.
TransactionsEnd == \A w \in Workers : tx[w] # Idle ~> tx[w] = Idle
=============================================================================
