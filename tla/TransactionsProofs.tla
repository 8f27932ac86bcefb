-------------------------- MODULE TransactionsProofs --------------------------
(***************************************************************************)
(* The transactions of the trackers and of the device cleaner, interleaved *)
(* statement by statement, are transactions: for any number of connections *)
(* module Transactions implements Metadata.  The invariant says what the   *)
(* locks of a transaction keep true until it commits.                      *)
(***************************************************************************)
EXTENDS Transactions, MetadataProofs

-----------------------------------------------------------------------------
(* The inductive invariant. *)

HasLock(t, l) == l \in t.rows \cup t.gaps

\* The file row of a fid.
FileOf(f) == {r \in file : r[1] = f}

\* The locks on the records that the transaction has inserted.
Inserted(t) ==
    (IF t.at \in {"insertOn", "commit"} THEN FileLocks(t.newFile) ELSE {})
      \cup (IF t.at = "commit" THEN {<<"fileOn", p[1]>> : p \in t.newOn} ELSE {})

\* A transaction deletes only rows that it has locked.
DropsLocked(t) ==
    /\ {<<"tempfile", p[1]>> : p \in t.dropTemp} \subseteq t.rows
    /\ FileLocks(t.dropFile) \subseteq t.rows
    /\ {<<"fileOn", p[1]>> : p \in t.dropOn} \subseteq t.rows

\* A record is locked once, nobody has inserted into a gap, and what has been
\* inserted and not committed is locked.
LocksInv ==
    /\ \A u, w \in Workers : u # w =>
         /\ tx[u].rows \cap tx[w].rows = {}
         /\ tx[u].gaps \cap Inserted(tx[w]) = {}
    /\ \A w \in Workers :
         /\ tx[w].gaps \cap Present = {}
         /\ Inserted(tx[w]) \subseteq tx[w].rows
         /\ DropsLocked(tx[w])

\* Nothing has been read of the old file, and nothing deleted.
Keeps(t) == t.tasks = {} /\ t.dropFile = {} /\ t.dropOn = {}

\* deleteFidOnDB: what getDevicesOfFid returned and what will be deleted are the
\* rows that are there now, as they are locked, or their absence is.
Removing(t, done) ==
    \/ t.at = "devids" /\ Keeps(t)
    \/ /\ t.at = "delete" /\ t.dropFile = {} /\ t.dropOn = {}
       /\ t.tasks = RowsOf({t.old}) /\ HasLock(t, <<"fileOn", t.old>>)
    \/ /\ t.at \in done
       /\ t.tasks = RowsOf({t.old}) /\ HasLock(t, <<"fileOn", t.old>>)
       /\ HasLock(t, <<"fid", t.old>>)
       /\ t.dropOn = RowsOf({t.old}) /\ t.dropFile = FileOf(t.old)

\* createClose, while it looks for a file that has the key, and when there is
\* none and the gap is locked.
Creating(t) ==
    \E p \in tempfile, k \in Keys :
      /\ t.newFile = {<<p[1], k>>} /\ t.newOn = {p} /\ t.dropTemp = {p}
      /\ t.old = 0 /\ Keeps(t)
      /\ \/ t.at = "lookup"
         \/ t.at \in {"replace", "insertOn", "commit"} /\ <<"key", k>> \in t.gaps

\* createClose in the place of a file that has the key: its row is locked.
Replacing(t) ==
    \E p \in tempfile, k \in Keys :
      /\ t.newFile = {<<p[1], k>>} /\ t.newOn = {p} /\ t.dropTemp = {p}
      /\ <<t.old, k>> \in file /\ FileLocks({<<t.old, k>>}) \subseteq t.rows

\* deleteFile.
Deleting(t) ==
    t.newFile = {} /\ t.newOn = {} /\ t.dropTemp = {} /\ t.old \in Fids

\* removeOldTempfilesFromDB.
Expiring(t) ==
    /\ t.at = "commit" /\ t.newFile = {} /\ t.newOn = {}
    /\ t.dropFile = {} /\ t.dropOn = {}
    /\ t.tasks = t.dropTemp /\ t.dropTemp # {} /\ t.dropTemp \subseteq tempfile

\* checkFid.
Checking(t) ==
    /\ t.newFile = {} /\ t.newOn = {} /\ t.dropTemp = {} /\ t.dropFile = {}
    /\ t.old \in Fids /\ <<"fileOn", t.old>> \in t.rows
    /\ \/ t.at = "stat" /\ t.dropOn = {} /\ t.tasks = RowsOf({t.old})
       \/ /\ t.at = "commit"
          /\ t.dropOn \subseteq RowsOf({t.old})
          /\ t.tasks \in {{}, t.dropOn}

Shape(t) ==
    \/ t = Idle \/ Creating(t) \/ Expiring(t) \/ Checking(t)
    \/ Replacing(t) /\ Removing(t, {"replace", "insertOn", "commit"})
    \/ Deleting(t) /\ Removing(t, {"commit"})

TxIInv ==
    /\ TxTypeOK /\ MetaInv /\ LocksInv
    /\ \A w \in Workers : Shape(tx[w])

-----------------------------------------------------------------------------
(* Steps of one transaction that change nothing but its own state. *)

\* The other transactions notice nothing but its locks.
LEMMA QuietStep ==
  ASSUME TxIInv, UNCHANGED metaVars,
         NEW w \in Workers, NEW t \in Transaction, tx' = [tx EXCEPT ![w] = t],
         \A u \in Workers \ {w} : /\ t.rows \cap tx[u].rows = {}
                                 /\ t.gaps \cap Inserted(tx[u]) = {}
                                 /\ tx[u].gaps \cap Inserted(t) = {},
         t.gaps \cap Present = {}, Inserted(t) \subseteq t.rows,
         DropsLocked(t), Shape(t)
  PROVE  TxIInv'
<1>1. /\ tempfile' = tempfile /\ file' = file /\ fileOn' = fileOn
      /\ draining' = draining /\ nextFid' = nextFid
  BY DEF metaVars
<1>2. /\ tx \in [Workers -> Transaction]
      /\ tx'[w] = t /\ \A u \in Workers : u # w => tx'[u] = tx[u]
  BY DEF TxIInv, TxTypeOK
<1>3. TxTypeOK'
  BY <1>1, <1>2 DEF TxIInv, TxTypeOK, MetaTypeOK
<1>4. MetaInv'
  BY <1>1 DEF TxIInv, MetaInv, MetaTypeOK, SchemaOK, OpenOrClosed, Live,
              HasTempfile, Closed
<1>5. Present' = Present
  BY <1>1 DEF Present
<1>6. LocksInv'
  <2>1. ASSUME NEW u \in Workers, NEW v \in Workers, u # v
        PROVE  /\ tx'[u].rows \cap tx'[v].rows = {}
               /\ tx'[u].gaps \cap Inserted(tx'[v]) = {}
    BY <2>1, <1>2 DEF TxIInv, LocksInv
  <2>2. ASSUME NEW u \in Workers
        PROVE  /\ tx'[u].gaps \cap Present = {}
               /\ Inserted(tx'[u]) \subseteq tx'[u].rows
               /\ DropsLocked(tx'[u])
    BY <1>2 DEF TxIInv, LocksInv
  <2>3. ASSUME NEW u \in Workers
        PROVE  /\ Inserted(tx[u])' = Inserted(tx'[u])
               /\ DropsLocked(tx[u])' = DropsLocked(tx'[u])
    BY DEF Inserted, DropsLocked, FileLocks
  <2> QED
    BY <2>1, <2>2, <2>3, <1>5 DEF LocksInv
<1>7. ASSUME NEW u \in Workers PROVE Shape(tx[u])'
  <2>1. Shape(tx'[u])
    BY <1>2 DEF TxIInv
  <2>2. /\ Deleting(tx[u])' = Deleting(tx'[u])
        /\ Expiring(tx[u])' = Expiring(tx'[u])
        /\ Checking(tx[u])' = Checking(tx'[u])
        /\ \A done : Removing(tx[u], done)' = Removing(tx'[u], done)
    BY <1>1 DEF Deleting, Expiring, Checking, Removing, Keeps, HasLock, RowsOf,
                FileOf
  <2>3. /\ Creating(tx[u])' = Creating(tx'[u])
        /\ Replacing(tx[u])' = Replacing(tx'[u])
    BY <1>1 DEF Creating, Replacing, Keeps, FileLocks
  <2> QED
    BY <2>1, <2>2, <2>3 DEF Shape, Idle
<1> QED
  BY <1>3, <1>4, <1>6, <1>7 DEF TxIInv

LEMMA Granted ==
  ASSUME TxIInv, NEW w \in Workers, Blockers(w) = {}
  PROVE  \A u \in Workers \ {w} :
           /\ Wanted(tx[w]) \cap tx[u].rows = {}
           /\ tx[w].at \in {"replace", "insertOn"}
                => Wanted(tx[w]) \cap tx[u].gaps = {}
BY DEF Blockers, Held

\* A statement that gets its locks, what it reads and writes in r.
LEMMA ExecuteStep ==
  ASSUME TxIInv, NEW w \in Workers, Blockers(w) = {},
         NEW t \in Transaction, t.rows = tx[w].rows, t.gaps = tx[w].gaps,
         NEW present, Wanted(tx[w]) \cap Present \subseteq present,
         Wanted(tx[w]) \subseteq Locks,
         Execute(w, t, present),
         Inserted(t) \subseteq Inserted(tx[w])
           \cup (IF tx[w].at \in {"replace", "insertOn"}
                   THEN Wanted(tx[w]) \cap present ELSE {}),
         NEW r, r = [t EXCEPT !.rows = @ \cup (Wanted(tx[w]) \cap present),
                              !.gaps = @ \cup (Wanted(tx[w]) \ present)],
         DropsLocked(r), Shape(r)
  PROVE  TxIInv'
<1> DEFINE W == Wanted(tx[w])
<1>1. /\ r \in Transaction
      /\ r.rows = tx[w].rows \cup (W \cap present)
      /\ r.gaps = tx[w].gaps \cup (W \ present)
      /\ Inserted(r) = Inserted(t)
  BY DEF Transaction, Inserted
<1>2. UNCHANGED metaVars /\ tx' = [tx EXCEPT ![w] = r]
  BY DEF Execute
<1>3. /\ tx[w].gaps \cap Present = {}
      /\ Inserted(tx[w]) \subseteq tx[w].rows
      /\ \A u \in Workers : Inserted(tx[u]) \subseteq tx[u].rows
  BY DEF TxIInv, LocksInv
<1>4. \A u \in Workers \ {w} :
        /\ tx[w].rows \cap tx[u].rows = {}
        /\ tx[w].gaps \cap Inserted(tx[u]) = {}
        /\ tx[u].gaps \cap Inserted(tx[w]) = {}
  BY DEF TxIInv, LocksInv
<1>5. ASSUME NEW u \in Workers \ {w}
      PROVE  /\ r.rows \cap tx[u].rows = {}
             /\ r.gaps \cap Inserted(tx[u]) = {}
             /\ tx[u].gaps \cap Inserted(r) = {}
  <2>1. W \cap tx[u].rows = {}
    BY Granted
  <2>2. tx[w].at \in {"replace", "insertOn"} => W \cap tx[u].gaps = {}
    BY Granted
  <2> QED
    BY <1>1, <1>3, <1>4, <2>1, <2>2
<1>6. r.gaps \cap Present = {} /\ Inserted(r) \subseteq r.rows
  BY <1>1, <1>3
<1> HIDE DEF W
<1> QED
  BY <1>1, <1>2, <1>5, <1>6, QuietStep

-----------------------------------------------------------------------------
(* The first statement of each transaction. *)

LEMMA LockType ==
  /\ \A f \in Fids : /\ <<"tempfile", f>> \in Locks /\ <<"fid", f>> \in Locks
                     /\ <<"fileOn", f>> \in Locks
  /\ \A k \in Keys : <<"key", k>> \in Locks
  /\ \A rows \in SUBSET (Fids \X Keys) : FileLocks(rows) \subseteq Locks
<1>1. /\ \A f \in Fids : /\ <<"tempfile", f>> \in Locks /\ <<"fid", f>> \in Locks
                         /\ <<"fileOn", f>> \in Locks
      /\ \A k \in Keys : <<"key", k>> \in Locks
  BY DEF Locks
<1> QED
  BY <1>1 DEF FileLocks

LEMMA IdleType == Idle \in Transaction
BY MetadataAssumption DEF Idle, Transaction, Steps

\* For the type of what a statement makes of its transaction.
LEMMA StepType ==
  \A at \in {"lookup", "devids", "delete", "replace", "insertOn", "stat",
            "commit"} : at \in Steps
BY DEF Steps

LEMMA BeginStep ==
  ASSUME TxIInv, NEW w \in Workers, NEW t \in Transaction, Begin(w, t),
         \A u \in Workers : t.rows \cap tx[u].rows = {},
         t.gaps = {}, Inserted(t) = {}, DropsLocked(t), Shape(t)
  PROVE  TxIInv'
<1>1. UNCHANGED metaVars /\ tx' = [tx EXCEPT ![w] = t]
  BY DEF Begin
<1>2. \A u \in Workers \ {w} : /\ t.rows \cap tx[u].rows = {}
                               /\ t.gaps \cap Inserted(tx[u]) = {}
                               /\ tx[u].gaps \cap Inserted(t) = {}
  OBVIOUS
<1> QED
  BY <1>1, <1>2, QuietStep

LEMMA SelectTempfileInv ==
  ASSUME TxIInv, NEW w \in Workers, NEW p \in Copies, NEW k \in Keys,
         SelectTempfile(w, p, k)
  PROVE  TxIInv'
<1> DEFINE t == [Idle EXCEPT !.at = "lookup",
                             !.newFile = {<<p[1], k>>}, !.newOn = {p},
                             !.dropTemp = {p},
                             !.rows = {<<"tempfile", p[1]>>}]
<1>1. p \in tempfile /\ Begin(w, t) /\ Free({<<"tempfile", p[1]>>}, FALSE)
  BY DEF SelectTempfile
<1>2. p[1] \in Fids
  BY DEF Copies
<1>3. /\ t.at = "lookup" /\ t.old = 0 /\ t.tasks = {}
      /\ t.newFile = {<<p[1], k>>} /\ t.newOn = {p} /\ t.dropTemp = {p}
      /\ t.dropFile = {} /\ t.dropOn = {}
      /\ t.rows = {<<"tempfile", p[1]>>} /\ t.gaps = {}
  BY DEF Idle
<1>4. t \in Transaction
  <2>1. {<<p[1], k>>} \in SUBSET (Fids \X Keys) /\ {p} \in SUBSET Copies
    BY <1>2
  <2>2. {<<"tempfile", p[1]>>} \in SUBSET Locks
    BY <1>2, LockType
  <2> QED
    BY <2>1, <2>2, IdleType, StepType DEF Transaction
<1> HIDE DEF t
<1>5. \A u \in Workers : t.rows \cap tx[u].rows = {}
  BY <1>1, <1>3 DEF Free, Held
<1>6. Inserted(t) = {}
  BY <1>3 DEF Inserted
<1>7. DropsLocked(t)
  BY <1>3 DEF DropsLocked, FileLocks
<1>8. Shape(t)
  BY <1>1, <1>3 DEF Shape, Creating, Keeps
<1> QED
  BY <1>1, <1>3, <1>4, <1>5, <1>6, <1>7, <1>8, BeginStep

LEMMA SelectFidOfKeyInv ==
  ASSUME TxIInv, NEW w \in Workers, NEW k \in Keys, SelectFidOfKey(w, k)
  PROVE  TxIInv'
<1>1. PICK r \in file :
        /\ Free(FileLocks({r}), FALSE)
        /\ Begin(w, [Idle EXCEPT !.at = "devids", !.old = r[1],
                                 !.rows = FileLocks({r})])
  BY DEF SelectFidOfKey
<1> DEFINE t == [Idle EXCEPT !.at = "devids", !.old = r[1],
                             !.rows = FileLocks({r})]
<1>2. r[1] \in Fids /\ r[2] \in Keys
  BY DEF TxIInv, MetaInv, MetaTypeOK
<1>3. /\ t.at = "devids" /\ t.old = r[1] /\ t.tasks = {}
      /\ t.newFile = {} /\ t.newOn = {} /\ t.dropTemp = {}
      /\ t.dropFile = {} /\ t.dropOn = {}
      /\ t.rows = FileLocks({r}) /\ t.gaps = {}
  BY DEF Idle
<1>4. t \in Transaction
  <2>1. FileLocks({r}) \in SUBSET Locks
    BY LockType DEF TxIInv, MetaInv, MetaTypeOK
  <2>2. r[1] \in 0..MaxFid
    BY <1>2, MetadataAssumption DEF Fids
  <2> QED
    BY <2>1, <2>2, IdleType, StepType DEF Transaction
<1> HIDE DEF t
<1>5. \A u \in Workers : t.rows \cap tx[u].rows = {}
  BY <1>1, <1>3 DEF Free, Held
<1>6. Inserted(t) = {}
  BY <1>3 DEF Inserted
<1>7. DropsLocked(t)
  BY <1>3 DEF DropsLocked, FileLocks
<1>8. Shape(t)
  BY <1>2, <1>3 DEF Shape, Deleting, Removing, Keeps
<1> QED
  BY <1>1, <1>3, <1>4, <1>5, <1>6, <1>7, <1>8, BeginStep DEF t

LEMMA DeleteByFidInv ==
  ASSUME TxIInv, NEW w \in Workers, NEW f \in Fids, DeleteByFid(w, f)
  PROVE  TxIInv'
<1> DEFINE t == [Idle EXCEPT !.at = "devids", !.old = f]
<1>1. Begin(w, t)
  BY DEF DeleteByFid
<1>2. /\ t.at = "devids" /\ t.old = f /\ t.tasks = {}
      /\ t.newFile = {} /\ t.newOn = {} /\ t.dropTemp = {}
      /\ t.dropFile = {} /\ t.dropOn = {} /\ t.rows = {} /\ t.gaps = {}
  BY DEF Idle
<1>3. t \in Transaction
  <2>1. f \in 0..MaxFid
    BY MetadataAssumption DEF Fids
  <2> QED
    BY <2>1, IdleType, StepType DEF Transaction
<1> HIDE DEF t
<1>4. Inserted(t) = {} /\ DropsLocked(t)
  BY <1>2 DEF Inserted, DropsLocked, FileLocks
<1>5. Shape(t)
  BY <1>2 DEF Shape, Deleting, Removing, Keeps
<1> QED
  BY <1>1, <1>2, <1>3, <1>4, <1>5, BeginStep

LEMMA SelectOldTempfilesInv ==
  ASSUME TxIInv, NEW w \in Workers, NEW rows, SelectOldTempfiles(w, rows)
  PROVE  TxIInv'
<1> DEFINE L == {<<"tempfile", p[1]>> : p \in rows}
           t == [Idle EXCEPT !.at = "commit", !.tasks = rows,
                             !.dropTemp = rows, !.rows = L]
<1>1. /\ rows # {} /\ rows \subseteq tempfile
      /\ Free(L, FALSE) /\ Begin(w, t)
  BY DEF SelectOldTempfiles
<1>2. /\ t.at = "commit" /\ t.tasks = rows /\ t.dropTemp = rows
      /\ t.newFile = {} /\ t.newOn = {} /\ t.dropFile = {} /\ t.dropOn = {}
      /\ t.rows = L /\ t.gaps = {}
  BY DEF Idle
<1>3. t \in Transaction
  <2>1. rows \in SUBSET Copies
    BY <1>1 DEF TxIInv, MetaInv, MetaTypeOK
  <2>2. L \in SUBSET Locks
    BY <2>1, LockType DEF Copies
  <2> HIDE DEF L
  <2> QED
    BY <2>1, <2>2, IdleType, StepType DEF Transaction
<1> HIDE DEF t
<1>4. \A u \in Workers : t.rows \cap tx[u].rows = {}
  BY <1>1, <1>2 DEF Free, Held
<1>5. Inserted(t) = {}
  BY <1>2 DEF Inserted, FileLocks
<1>6. DropsLocked(t)
  BY <1>2 DEF DropsLocked, FileLocks
<1>7. Shape(t)
  BY <1>1, <1>2 DEF Shape, Expiring
<1> QED
  BY <1>1, <1>2, <1>3, <1>4, <1>5, <1>6, <1>7, BeginStep

LEMMA SelectAllDevidsInv ==
  ASSUME TxIInv, NEW w \in Workers, NEW f \in Fids, SelectAllDevids(w, f)
  PROVE  TxIInv'
<1> DEFINE t == [Idle EXCEPT !.at = "stat", !.old = f, !.tasks = RowsOf({f}),
                             !.rows = {<<"fileOn", f>>}]
<1>1. Free({<<"fileOn", f>>}, FALSE) /\ Begin(w, t)
  BY DEF SelectAllDevids
<1>2. /\ t.at = "stat" /\ t.old = f /\ t.tasks = RowsOf({f})
      /\ t.newFile = {} /\ t.newOn = {} /\ t.dropTemp = {}
      /\ t.dropFile = {} /\ t.dropOn = {}
      /\ t.rows = {<<"fileOn", f>>} /\ t.gaps = {}
  BY DEF Idle
<1>3. t \in Transaction
  <2>1. RowsOf({f}) \in SUBSET Copies
    BY DEF TxIInv, MetaInv, MetaTypeOK, RowsOf
  <2>2. {<<"fileOn", f>>} \in SUBSET Locks
    BY LockType
  <2>3. f \in 0..MaxFid
    BY MetadataAssumption DEF Fids
  <2> QED
    BY <2>1, <2>2, <2>3, IdleType, StepType DEF Transaction
<1> HIDE DEF t
<1>4. \A u \in Workers : t.rows \cap tx[u].rows = {}
  BY <1>1, <1>2 DEF Free, Held
<1>5. Inserted(t) = {} /\ DropsLocked(t)
  BY <1>2 DEF Inserted, DropsLocked, FileLocks
<1>6. Shape(t)
  BY <1>2 DEF Shape, Checking
<1> QED
  BY <1>1, <1>2, <1>3, <1>4, <1>5, <1>6, BeginStep

-----------------------------------------------------------------------------
(* The statements that go on. *)

LEMMA PresentLocks ==
  /\ \A r \in file : FileLocks({r}) \subseteq Present
  /\ \A p \in fileOn : <<"fileOn", p[1]>> \in Present
  /\ \A f : <<"fid", f>> \in Present => \E r \in file : r[1] = f
  /\ \A k : <<"key", k>> \in Present => \E r \in file : r[2] = k
  /\ \A f : <<"fileOn", f>> \in Present => \E p \in fileOn : p[1] = f
BY DEF Present, FileLocks

LEMMA WorkerType == ASSUME TxIInv, NEW w \in Workers PROVE tx[w] \in Transaction
BY DEF TxIInv, TxTypeOK

\* What Shape says of a transaction that is at its lookup.
LEMMA AtLookup ==
  ASSUME TxIInv, NEW w \in Workers, tx[w].at = "lookup"
  PROVE  \E p \in tempfile, k \in Keys :
           /\ tx[w].newFile = {<<p[1], k>>} /\ tx[w].newOn = {p}
           /\ tx[w].dropTemp = {p} /\ tx[w].old = 0 /\ Keeps(tx[w])
<1>1. Shape(tx[w]) /\ tx[w] # Idle
  BY DEF TxIInv, Idle
<1>2. /\ ~Expiring(tx[w]) /\ ~Checking(tx[w])
      /\ ~Removing(tx[w], {"replace", "insertOn", "commit"})
      /\ ~Removing(tx[w], {"commit"})
  BY DEF Expiring, Checking, Removing
<1> QED
  BY <1>1, <1>2 DEF Shape, Creating

LEMMA SelectOldFidInv ==
  ASSUME TxIInv, NEW w \in Workers, SelectOldFid(w)
  PROVE  TxIInv'
<1>1. tx[w].at = "lookup" /\ Blockers(w) = {}
  BY DEF SelectOldFid, Statement
<1>2. PICK p \in tempfile, k \in Keys :
        /\ tx[w].newFile = {<<p[1], k>>} /\ tx[w].newOn = {p}
        /\ tx[w].dropTemp = {p} /\ tx[w].old = 0 /\ Keeps(tx[w])
  BY <1>1, AtLookup
<1>3. Wanted(tx[w]) = {<<"key", k>>} \cup FileLocks(SameKey(tx[w]))
  BY <1>1, <1>2 DEF Wanted
<1>4. SameKey(tx[w]) = {r \in file : r[2] = k}
  BY <1>2 DEF SameKey
<1>5. file \subseteq Fids \X Keys
  BY DEF TxIInv, MetaInv, MetaTypeOK
<1>6. Wanted(tx[w]) \subseteq Locks
  BY <1>3, <1>4, <1>5, LockType
<1>7. DropsLocked(tx[w])
  BY DEF TxIInv, LocksInv
<1>8. CASE /\ SameKey(tx[w]) = {}
           /\ Execute(w, [tx[w] EXCEPT !.at = "replace"], Present)
  <2> DEFINE t == [tx[w] EXCEPT !.at = "replace"]
             r == [t EXCEPT !.rows = @ \cup (Wanted(tx[w]) \cap Present),
                            !.gaps = @ \cup (Wanted(tx[w]) \ Present)]
  <2>1. /\ t \in Transaction /\ t.rows = tx[w].rows /\ t.gaps = tx[w].gaps
        /\ Inserted(t) = {}
    BY WorkerType, StepType DEF Transaction, Inserted
  <2>2. /\ r.at = "replace" /\ r.old = 0 /\ r.tasks = {}
        /\ r.newFile = {<<p[1], k>>} /\ r.newOn = {p} /\ r.dropTemp = {p}
        /\ r.dropFile = {} /\ r.dropOn = {}
        /\ tx[w].rows \subseteq r.rows
        /\ Wanted(tx[w]) \ Present \subseteq r.gaps
    BY <1>2, WorkerType DEF Keeps, Transaction
  <2>3. r = [t EXCEPT !.rows = @ \cup (Wanted(tx[w]) \cap Present),
                      !.gaps = @ \cup (Wanted(tx[w]) \ Present)]
    OBVIOUS
  <2> HIDE DEF t, r
  <2>4. <<"key", k>> \in r.gaps
    BY <1>3, <1>4, <1>8, <2>2, PresentLocks
  <2>5. Shape(r)
    BY <2>2, <2>4 DEF Shape, Creating, Keeps
  <2>6. DropsLocked(r)
    BY <1>2, <1>7, <2>2 DEF DropsLocked, FileLocks
  <2> QED
    BY <1>1, <1>6, <1>8, <2>1, <2>3, <2>5, <2>6, ExecuteStep DEF t
<1>9. ASSUME NEW o \in SameKey(tx[w]),
             Execute(w, [tx[w] EXCEPT !.at = "devids", !.old = o[1]], Present)
      PROVE  TxIInv'
  <2> DEFINE t == [tx[w] EXCEPT !.at = "devids", !.old = o[1]]
             r == [t EXCEPT !.rows = @ \cup (Wanted(tx[w]) \cap Present),
                            !.gaps = @ \cup (Wanted(tx[w]) \ Present)]
  <2>1. o \in file /\ o[2] = k /\ o = <<o[1], k>> /\ o[1] \in 0..MaxFid
    BY <1>4, <1>5, MetadataAssumption DEF Fids
  <2>2. /\ t \in Transaction /\ t.rows = tx[w].rows /\ t.gaps = tx[w].gaps
        /\ Inserted(t) = {}
    BY <2>1, WorkerType, StepType DEF Transaction, Inserted
  <2>3. /\ r.at = "devids" /\ r.old = o[1] /\ r.tasks = {}
        /\ r.newFile = {<<p[1], k>>} /\ r.newOn = {p} /\ r.dropTemp = {p}
        /\ r.dropFile = {} /\ r.dropOn = {}
        /\ tx[w].rows \subseteq r.rows
        /\ Wanted(tx[w]) \cap Present \subseteq r.rows
    BY <1>2, WorkerType DEF Keeps, Transaction
  <2>4. r = [t EXCEPT !.rows = @ \cup (Wanted(tx[w]) \cap Present),
                      !.gaps = @ \cup (Wanted(tx[w]) \ Present)]
    OBVIOUS
  <2> HIDE DEF t, r
  <2>5. FileLocks({<<r.old, k>>}) \subseteq r.rows
    <3>1. FileLocks({o}) \subseteq Present
      BY <2>1, PresentLocks
    <3>2. FileLocks({o}) \subseteq Wanted(tx[w])
      BY <1>3, <1>9 DEF FileLocks
    <3> QED
      BY <2>1, <2>3, <3>1, <3>2
  <2>6. Shape(r)
    <3>1. <<r.old, k>> \in file
      BY <2>1, <2>3
    <3>2. Replacing(r)
      BY <2>3, <2>5, <3>1 DEF Replacing
    <3>3. Removing(r, {"replace", "insertOn", "commit"})
      BY <2>3 DEF Removing, Keeps
    <3> QED
      BY <3>2, <3>3 DEF Shape
  <2>7. DropsLocked(r)
    BY <1>2, <1>7, <2>3 DEF DropsLocked, FileLocks
  <2> QED
    BY <1>1, <1>6, <1>9, <2>2, <2>4, <2>6, <2>7, ExecuteStep DEF t
<1> QED
  BY <1>8, <1>9 DEF SelectOldFid

\* What Shape says of a transaction that is in deleteFidOnDB.
LEMMA AtRemoval ==
  ASSUME TxIInv, NEW w \in Workers, tx[w].at \in {"devids", "delete"}
  PROVE  /\ Replacing(tx[w]) \/ Deleting(tx[w])
         /\ tx[w].old \in Fids
         /\ tx[w].dropFile = {} /\ tx[w].dropOn = {}
         /\ tx[w].at = "delete" => /\ tx[w].tasks = RowsOf({tx[w].old})
                                   /\ HasLock(tx[w], <<"fileOn", tx[w].old>>)
<1>1. Shape(tx[w]) /\ tx[w] # Idle
  BY DEF TxIInv, Idle
<1>2. ~Expiring(tx[w]) /\ ~Checking(tx[w]) /\ ~Creating(tx[w])
  BY DEF Expiring, Checking, Creating
<1>3. \/ Replacing(tx[w]) /\ Removing(tx[w], {"replace", "insertOn", "commit"})
      \/ Deleting(tx[w]) /\ Removing(tx[w], {"commit"})
  BY <1>1, <1>2 DEF Shape
<1>4. tx[w].old \in Fids
  <2>1. \A k : <<tx[w].old, k>> \in file => tx[w].old \in Fids
    BY DEF TxIInv, MetaInv, MetaTypeOK
  <2> QED
    BY <1>3, <2>1 DEF Replacing, Deleting
<1> QED
  BY <1>3, <1>4 DEF Removing, Keeps

\* The step of such a transaction, t, keeps what it replaces or deletes.
LEMMA RemovalGoesOn ==
  ASSUME NEW t, NEW r, Replacing(t) \/ Deleting(t),
         r.newFile = t.newFile, r.newOn = t.newOn, r.dropTemp = t.dropTemp,
         r.old = t.old, t.rows \subseteq r.rows,
         Removing(r, IF t.newFile = {} THEN {"commit"}
                     ELSE {"replace", "insertOn", "commit"})
  PROVE  Shape(r)
<1>1. CASE Replacing(t)
  <2>1. Replacing(r) /\ t.newFile # {}
    BY <1>1 DEF Replacing
  <2> QED
    BY <2>1 DEF Shape
<1>2. CASE Deleting(t)
  <2>1. Deleting(r) /\ t.newFile = {}
    BY <1>2 DEF Deleting
  <2> QED
    BY <2>1 DEF Shape
<1> QED
  BY <1>1, <1>2

LEMMA SelectDevidsInv ==
  ASSUME TxIInv, NEW w \in Workers, SelectDevids(w)
  PROVE  TxIInv'
<1> DEFINE t == [tx[w] EXCEPT !.at = "delete", !.tasks = RowsOf({tx[w].old})]
           r == [t EXCEPT !.rows = @ \cup (Wanted(tx[w]) \cap Present),
                          !.gaps = @ \cup (Wanted(tx[w]) \ Present)]
<1>1. tx[w].at = "devids" /\ Blockers(w) = {} /\ Execute(w, t, Present)
  BY DEF SelectDevids, Statement
<1>2. Wanted(tx[w]) = {<<"fileOn", tx[w].old>>}
  BY <1>1 DEF Wanted
<1>3. /\ Replacing(tx[w]) \/ Deleting(tx[w])
      /\ tx[w].old \in Fids
      /\ tx[w].dropFile = {} /\ tx[w].dropOn = {}
  BY <1>1, AtRemoval
<1>4. Wanted(tx[w]) \subseteq Locks
  BY <1>2, <1>3, LockType
<1>5. /\ t \in Transaction /\ t.rows = tx[w].rows /\ t.gaps = tx[w].gaps
      /\ Inserted(t) = {}
  <2>1. RowsOf({tx[w].old}) \in SUBSET Copies
    BY DEF TxIInv, MetaInv, MetaTypeOK, RowsOf
  <2> QED
    BY <2>1, WorkerType, StepType DEF Transaction, Inserted
<1>6. /\ r.at = "delete" /\ r.old = tx[w].old /\ r.tasks = RowsOf({tx[w].old})
      /\ r.newFile = tx[w].newFile /\ r.newOn = tx[w].newOn
      /\ r.dropTemp = tx[w].dropTemp
      /\ r.dropFile = {} /\ r.dropOn = {}
      /\ tx[w].rows \subseteq r.rows
      /\ Wanted(tx[w]) \subseteq r.rows \cup r.gaps
  BY <1>3, WorkerType DEF Transaction
<1>7. r = [t EXCEPT !.rows = @ \cup (Wanted(tx[w]) \cap Present),
                    !.gaps = @ \cup (Wanted(tx[w]) \ Present)]
  OBVIOUS
<1> HIDE DEF t, r
<1>8. Shape(r)
  <2>1. \A done : Removing(r, done)
    BY <1>2, <1>6 DEF Removing, HasLock
  <2> QED
    BY <1>3, <1>6, <2>1, RemovalGoesOn
<1>9. DropsLocked(r)
  BY <1>6 DEF TxIInv, LocksInv, DropsLocked, FileLocks
<1> QED
  BY <1>1, <1>4, <1>5, <1>7, <1>8, <1>9, ExecuteStep

LEMMA DeleteFidOnDBInv ==
  ASSUME TxIInv, NEW w \in Workers, DeleteFidOnDB(w)
  PROVE  TxIInv'
<1> DEFINE next == IF tx[w].newFile = {} THEN "commit" ELSE "replace"
           t == [tx[w] EXCEPT !.at = next, !.dropOn = RowsOf({tx[w].old}),
                              !.dropFile = FileOf(tx[w].old)]
           r == [t EXCEPT !.rows = @ \cup (Wanted(tx[w]) \cap Present),
                          !.gaps = @ \cup (Wanted(tx[w]) \ Present)]
<1>1. tx[w].at = "delete" /\ Blockers(w) = {} /\ Execute(w, t, Present)
  BY DEF DeleteFidOnDB, Statement, FileOf
<1>2. Wanted(tx[w]) = {<<"fileOn", tx[w].old>>, <<"fid", tx[w].old>>}
                        \cup FileLocks(FileOf(tx[w].old))
  BY <1>1 DEF Wanted, FileOf
<1>3. /\ Replacing(tx[w]) \/ Deleting(tx[w])
      /\ tx[w].old \in Fids
      /\ tx[w].tasks = RowsOf({tx[w].old})
      /\ HasLock(tx[w], <<"fileOn", tx[w].old>>)
  BY <1>1, AtRemoval
<1>4. /\ RowsOf({tx[w].old}) \in SUBSET Copies
      /\ FileOf(tx[w].old) \in SUBSET (Fids \X Keys)
  BY DEF TxIInv, MetaInv, MetaTypeOK, RowsOf, FileOf
<1>5. Wanted(tx[w]) \subseteq Locks
  BY <1>2, <1>3, <1>4, LockType
<1>6. t \in Transaction /\ t.rows = tx[w].rows /\ t.gaps = tx[w].gaps
  BY <1>4, WorkerType, StepType DEF Transaction
<1>7. Inserted(t) = {}
  <2>1. /\ tx[w].newFile = {} => tx[w].newOn = {}
        /\ t.newFile = tx[w].newFile /\ t.newOn = tx[w].newOn /\ t.at = next
    BY <1>3, WorkerType DEF Transaction, Replacing, Deleting
  <2> HIDE DEF t
  <2> QED
    BY <2>1 DEF Inserted, FileLocks
<1>8. /\ r.at = next /\ r.old = tx[w].old /\ r.tasks = RowsOf({tx[w].old})
      /\ r.newFile = tx[w].newFile /\ r.newOn = tx[w].newOn
      /\ r.dropTemp = tx[w].dropTemp
      /\ r.dropFile = FileOf(tx[w].old) /\ r.dropOn = RowsOf({tx[w].old})
      /\ tx[w].rows \subseteq r.rows
      /\ Wanted(tx[w]) \cap Present \subseteq r.rows
      /\ Wanted(tx[w]) \subseteq r.rows \cup r.gaps
  BY <1>3, WorkerType DEF Transaction
<1>9. r = [t EXCEPT !.rows = @ \cup (Wanted(tx[w]) \cap Present),
                    !.gaps = @ \cup (Wanted(tx[w]) \ Present)]
  OBVIOUS
<1> HIDE DEF t, r
<1>10. Shape(r)
  <2>1. HasLock(r, <<"fileOn", r.old>>) /\ HasLock(r, <<"fid", r.old>>)
    BY <1>2, <1>8 DEF HasLock
  <2>2. Removing(r, IF tx[w].newFile = {} THEN {"commit"}
                    ELSE {"replace", "insertOn", "commit"})
    BY <1>8, <2>1 DEF Removing
  <2> QED
    BY <1>3, <1>8, <2>2, RemovalGoesOn
<1>11. DropsLocked(r)
  <2>1. {<<"tempfile", p[1]>> : p \in r.dropTemp} \subseteq r.rows
    BY <1>8 DEF TxIInv, LocksInv, DropsLocked
  <2>2. FileLocks(r.dropFile) \subseteq r.rows
    <3>1. FileLocks(FileOf(tx[w].old)) \subseteq Present
      BY DEF FileOf, FileLocks, Present
    <3> QED
      BY <1>2, <1>8, <3>1
  <2>3. {<<"fileOn", p[1]>> : p \in r.dropOn} \subseteq r.rows
    <3>1. \A p \in RowsOf({tx[w].old}) :
            p[1] = tx[w].old /\ <<"fileOn", p[1]>> \in Present
      BY PresentLocks DEF RowsOf
    <3> QED
      BY <1>2, <1>8, <3>1
  <2> QED
    BY <2>1, <2>2, <2>3 DEF DropsLocked
<1> QED
  BY <1>1, <1>5, <1>6, <1>7, <1>9, <1>10, <1>11, ExecuteStep

\* What Shape says of a transaction that inserts its file.
LEMMA AtInsert ==
  ASSUME TxIInv, NEW w \in Workers, tx[w].at \in {"replace", "insertOn"}
  PROVE  /\ \/ Creating(tx[w])
            \/ /\ Replacing(tx[w])
               /\ Removing(tx[w], {"replace", "insertOn", "commit"})
         /\ \E p \in tempfile, k \in Keys :
              /\ tx[w].newFile = {<<p[1], k>>} /\ tx[w].newOn = {p}
              /\ tx[w].dropTemp = {p}
<1>1. Shape(tx[w]) /\ tx[w] # Idle
  BY DEF TxIInv, Idle
<1>2. ~Expiring(tx[w]) /\ ~Checking(tx[w]) /\ ~Removing(tx[w], {"commit"})
  BY DEF Expiring, Checking, Removing
<1> QED
  BY <1>1, <1>2 DEF Shape, Creating, Replacing

\* REPLACE deletes nothing: the row in the way, if there was one, has been
\* deleted by the transaction, and another cannot have been inserted.
LEMMA NothingReplaced ==
  ASSUME TxIInv, NEW w \in Workers, tx[w].at \in {"replace", "insertOn"}
  PROVE  SameFidOrKey(tx[w]) \subseteq tx[w].dropFile
<1> SUFFICES ASSUME NEW r \in SameFidOrKey(tx[w]) PROVE r \in tx[w].dropFile
  OBVIOUS
<1>1. /\ file \subseteq Fids \X Keys
      /\ \A a, b \in file : (a[1] = b[1] \/ a[2] = b[2]) => a = b
      /\ \A p \in tempfile : p[1] \in Fids
      /\ \A p \in tempfile : \A a \in file : a[1] # p[1]
  BY DEF TxIInv, MetaInv, MetaTypeOK, SchemaOK, OpenOrClosed, HasTempfile,
         Closed, Copies
<1>2. CASE Creating(tx[w])
  <2>1. PICK p \in tempfile, k \in Keys :
          tx[w].newFile = {<<p[1], k>>} /\ <<"key", k>> \in tx[w].gaps
    BY <1>2 DEF Creating
  <2>2. r \in file /\ (r[1] = p[1] \/ r[2] = k)
    BY <2>1 DEF SameFidOrKey
  <2>3. <<"key", k>> \notin Present
    BY <2>1 DEF TxIInv, LocksInv
  <2>4. r[2] # k
    BY <2>2, <2>3 DEF Present, FileLocks
  <2> QED
    BY <1>1, <2>2, <2>4
<1>3. CASE Replacing(tx[w]) /\ Removing(tx[w], {"replace", "insertOn", "commit"})
  <2>1. PICK p \in tempfile, k \in Keys :
          tx[w].newFile = {<<p[1], k>>} /\ <<tx[w].old, k>> \in file
    BY <1>3 DEF Replacing
  <2>2. r \in file /\ (r[1] = p[1] \/ r[2] = k)
    BY <2>1 DEF SameFidOrKey
  <2>3. r = <<tx[w].old, k>>
    BY <1>1, <2>1, <2>2
  <2>4. tx[w].dropFile = FileOf(tx[w].old)
    BY <1>3 DEF Removing
  <2> QED
    BY <2>2, <2>3, <2>4 DEF FileOf
<1> QED
  BY <1>2, <1>3, AtInsert

\* A step that only gets more locks keeps what the transaction is.
LEMMA InsertGoesOn ==
  ASSUME NEW t, NEW r, t.at \in {"replace", "insertOn"},
         r.at \in {"insertOn", "commit"},
         \/ Creating(t)
         \/ Replacing(t) /\ Removing(t, {"replace", "insertOn", "commit"}),
         r.old = t.old, r.tasks = t.tasks, r.newFile = t.newFile,
         r.newOn = t.newOn, r.dropTemp = t.dropTemp,
         r.dropFile = t.dropFile, r.dropOn = t.dropOn,
         t.rows \subseteq r.rows, t.gaps \subseteq r.gaps
  PROVE  Shape(r)
<1>1. CASE Creating(t)
  <2>1. PICK p \in tempfile, k \in Keys :
          /\ t.newFile = {<<p[1], k>>} /\ t.newOn = {p} /\ t.dropTemp = {p}
          /\ t.old = 0 /\ Keeps(t) /\ <<"key", k>> \in t.gaps
    BY <1>1 DEF Creating
  <2>2. Keeps(r) /\ <<"key", k>> \in r.gaps
    BY <2>1 DEF Keeps
  <2>3. Creating(r)
    BY <2>1, <2>2 DEF Creating
  <2> QED
    BY <2>3 DEF Shape
<1>2. CASE Replacing(t) /\ Removing(t, {"replace", "insertOn", "commit"})
  <2>1. Replacing(r)
    BY <1>2 DEF Replacing
  <2>2. Removing(r, {"replace", "insertOn", "commit"})
    BY <1>2 DEF Removing, HasLock
  <2> QED
    BY <2>1, <2>2 DEF Shape
<1> QED
  BY <1>1, <1>2

LEMMA ReplaceFileInv ==
  ASSUME TxIInv, NEW w \in Workers, ReplaceFile(w)
  PROVE  TxIInv'
<1> DEFINE W == Wanted(tx[w])
           t == [tx[w] EXCEPT !.at = "insertOn",
                              !.dropFile = @ \cup SameFidOrKey(tx[w])]
           r == [t EXCEPT !.rows = @ \cup (W \cap W), !.gaps = @ \cup (W \ W)]
<1>1. tx[w].at = "replace" /\ Blockers(w) = {} /\ Execute(w, t, W)
  BY DEF ReplaceFile, Statement
<1>2. PICK p \in tempfile, k \in Keys :
        /\ tx[w].newFile = {<<p[1], k>>} /\ tx[w].newOn = {p}
        /\ tx[w].dropTemp = {p}
  BY <1>1, AtInsert
<1>3. W = FileLocks(tx[w].newFile \cup SameFidOrKey(tx[w]))
  BY <1>1 DEF Wanted
<1>4. /\ tx[w].newFile \cup SameFidOrKey(tx[w]) \in SUBSET (Fids \X Keys)
      /\ SameFidOrKey(tx[w]) \subseteq tx[w].dropFile
  <2>1. /\ file \subseteq Fids \X Keys /\ p[1] \in Fids
        /\ SameFidOrKey(tx[w]) \subseteq file
    BY DEF SameFidOrKey, TxIInv, MetaInv, MetaTypeOK, Copies
  <2>2. SameFidOrKey(tx[w]) \subseteq tx[w].dropFile
    BY <1>1, NothingReplaced
  <2> QED
    BY <1>2, <2>1, <2>2
<1>5. W \subseteq Locks
  BY <1>3, <1>4, LockType
<1>6. /\ t \in Transaction /\ t.rows = tx[w].rows /\ t.gaps = tx[w].gaps
      /\ t.at = "insertOn" /\ t.newFile = tx[w].newFile
  BY <1>4, WorkerType, StepType DEF Transaction
<1>7. /\ r.at = "insertOn" /\ r.old = tx[w].old /\ r.tasks = tx[w].tasks
      /\ r.newFile = tx[w].newFile /\ r.newOn = tx[w].newOn
      /\ r.dropTemp = tx[w].dropTemp /\ r.dropFile = tx[w].dropFile
      /\ r.dropOn = tx[w].dropOn
      /\ tx[w].rows \subseteq r.rows /\ tx[w].gaps \subseteq r.gaps
  BY <1>4, WorkerType DEF Transaction
<1>8. r = [t EXCEPT !.rows = @ \cup (W \cap W), !.gaps = @ \cup (W \ W)]
  OBVIOUS
<1> HIDE DEF t, r
<1>9. Inserted(t) \subseteq Inserted(tx[w]) \cup (W \cap W)
  BY <1>3, <1>6 DEF Inserted, FileLocks
<1>10. Shape(r)
  BY <1>1, <1>7, AtInsert, InsertGoesOn
<1>11. DropsLocked(r)
  BY <1>7 DEF TxIInv, LocksInv, DropsLocked
<1> QED
  <2> HIDE DEF W
  <2>1. W \cap Present \subseteq W
    OBVIOUS
  <2> QED
    BY <1>1, <1>5, <1>6, <1>8, <1>9, <1>10, <1>11, <2>1, ExecuteStep DEF W

LEMMA InsertFileOnInv ==
  ASSUME TxIInv, NEW w \in Workers, InsertFileOn(w)
  PROVE  TxIInv'
<1> DEFINE W == Wanted(tx[w])
           t == [tx[w] EXCEPT !.at = "commit"]
           r == [t EXCEPT !.rows = @ \cup (W \cap W), !.gaps = @ \cup (W \ W)]
<1>1. tx[w].at = "insertOn" /\ Blockers(w) = {} /\ Execute(w, t, W)
  BY DEF InsertFileOn, Statement
<1>2. PICK p \in tempfile, k \in Keys :
        /\ tx[w].newFile = {<<p[1], k>>} /\ tx[w].newOn = {p}
        /\ tx[w].dropTemp = {p}
  BY <1>1, AtInsert
<1>3. W = {<<"fileOn", q[1]>> : q \in tx[w].newOn}
  BY <1>1 DEF Wanted
<1>4. W \subseteq Locks
  BY <1>2, <1>3, LockType DEF TxIInv, MetaInv, MetaTypeOK, Copies
<1>5. /\ t \in Transaction /\ t.rows = tx[w].rows /\ t.gaps = tx[w].gaps
      /\ t.at = "commit" /\ t.newFile = tx[w].newFile /\ t.newOn = tx[w].newOn
  BY WorkerType, StepType DEF Transaction
<1>6. /\ r.at = "commit" /\ r.old = tx[w].old /\ r.tasks = tx[w].tasks
      /\ r.newFile = tx[w].newFile /\ r.newOn = tx[w].newOn
      /\ r.dropTemp = tx[w].dropTemp /\ r.dropFile = tx[w].dropFile
      /\ r.dropOn = tx[w].dropOn
      /\ tx[w].rows \subseteq r.rows /\ tx[w].gaps \subseteq r.gaps
  BY WorkerType DEF Transaction
<1>7. r = [t EXCEPT !.rows = @ \cup (W \cap W), !.gaps = @ \cup (W \ W)]
  OBVIOUS
<1> HIDE DEF t, r
<1>8. Inserted(t) \subseteq Inserted(tx[w]) \cup (W \cap W)
  BY <1>1, <1>3, <1>5 DEF Inserted
<1>9. Shape(r)
  BY <1>1, <1>6, AtInsert, InsertGoesOn
<1>10. DropsLocked(r)
  BY <1>6 DEF TxIInv, LocksInv, DropsLocked
<1> QED
  <2> HIDE DEF W
  <2>1. W \cap Present \subseteq W
    OBVIOUS
  <2> QED
    BY <1>1, <1>4, <1>5, <1>7, <1>8, <1>9, <1>10, <2>1, ExecuteStep DEF W

LEMMA StatAndDeleteInv ==
  ASSUME TxIInv, NEW w \in Workers, StatAndDelete(w)
  PROVE  TxIInv'
<1>1. tx[w].at = "stat" /\ UNCHANGED metaVars
  BY DEF StatAndDelete
<1>2. PICK p \in tx[w].tasks : \E others \in {{}, tx[w].tasks \ {p}} :
        tx' = [tx EXCEPT ![w] =
                 [tx[w] EXCEPT !.at = "commit", !.tasks = others,
                               !.dropOn = fileOn \cap
                                 (IF others = {} THEN {p} ELSE others)]]
  BY DEF StatAndDelete
<1>2a. PICK others \in {{}, tx[w].tasks \ {p}} :
        tx' = [tx EXCEPT ![w] =
                 [tx[w] EXCEPT !.at = "commit", !.tasks = others,
                               !.dropOn = fileOn \cap
                                 (IF others = {} THEN {p} ELSE others)]]
  BY <1>2
<1> DEFINE t == [tx[w] EXCEPT !.at = "commit", !.tasks = others,
                              !.dropOn = fileOn \cap
                                (IF others = {} THEN {p} ELSE others)]
<1>3. Checking(tx[w])
  <2>1. Shape(tx[w]) /\ tx[w] # Idle
    BY <1>1 DEF TxIInv, Idle
  <2>2. /\ ~Creating(tx[w]) /\ ~Expiring(tx[w])
        /\ ~Removing(tx[w], {"replace", "insertOn", "commit"})
        /\ ~Removing(tx[w], {"commit"})
    BY <1>1 DEF Creating, Expiring, Removing
  <2> QED
    BY <2>1, <2>2 DEF Shape
<1>4. /\ tx[w].newFile = {} /\ tx[w].newOn = {} /\ tx[w].dropTemp = {}
      /\ tx[w].dropFile = {} /\ tx[w].old \in Fids
      /\ <<"fileOn", tx[w].old>> \in tx[w].rows
      /\ tx[w].tasks = RowsOf({tx[w].old})
  BY <1>1, <1>3 DEF Checking
<1>5. /\ others \subseteq RowsOf({tx[w].old})
      /\ p \in RowsOf({tx[w].old})
      /\ RowsOf({tx[w].old}) \subseteq fileOn
      /\ fileOn \subseteq Copies
  BY <1>4 DEF RowsOf, TxIInv, MetaInv, MetaTypeOK
<1>6. t \in Transaction
  BY <1>5, WorkerType, StepType DEF Transaction
<1>7. /\ t.at = "commit" /\ t.tasks = others /\ t.old = tx[w].old
      /\ t.dropOn = IF others = {} THEN {p} ELSE others
      /\ t.newFile = {} /\ t.newOn = {} /\ t.dropTemp = {} /\ t.dropFile = {}
      /\ t.rows = tx[w].rows /\ t.gaps = tx[w].gaps
  BY <1>4, <1>5, WorkerType DEF Transaction
<1>8. tx' = [tx EXCEPT ![w] = t]
  BY <1>2a
<1> HIDE DEF t
<1>9. Inserted(t) = {}
  BY <1>7 DEF Inserted, FileLocks
<1>10. \A u \in Workers \ {w} : /\ t.rows \cap tx[u].rows = {}
                                /\ t.gaps \cap Inserted(tx[u]) = {}
                                /\ tx[u].gaps \cap Inserted(t) = {}
  BY <1>7, <1>9 DEF TxIInv, LocksInv
<1>11. t.gaps \cap Present = {} /\ Inserted(t) \subseteq t.rows
  BY <1>7, <1>9 DEF TxIInv, LocksInv
<1>12. DropsLocked(t)
  BY <1>4, <1>5, <1>7 DEF DropsLocked, FileLocks, RowsOf
<1>13. Shape(t)
  BY <1>4, <1>5, <1>7 DEF Shape, Checking
<1> QED
  BY <1>1, <1>6, <1>8, <1>10, <1>11, <1>12, <1>13, QuietStep

LEMMA RollbackInv ==
  ASSUME TxIInv, NEW w \in Workers, Rollback(w)
  PROVE  TxIInv'
<1>1. UNCHANGED metaVars /\ tx' = [tx EXCEPT ![w] = Idle]
  BY DEF Rollback
<1>2. /\ Idle.rows = {} /\ Idle.gaps = {} /\ Idle.at = "idle"
      /\ Idle.dropTemp = {} /\ Idle.dropFile = {} /\ Idle.dropOn = {}
  BY DEF Idle
<1>3. Inserted(Idle) = {} /\ DropsLocked(Idle)
  BY <1>2 DEF Inserted, DropsLocked, FileLocks
<1>4. Shape(Idle)
  BY DEF Shape
<1> QED
  BY <1>1, <1>2, <1>3, <1>4, IdleType, QuietStep

-----------------------------------------------------------------------------
(* Steps that change the tables. *)

\* What the other transactions have read and locked stays as it is.
Undisturbed(u) ==
    /\ \A f : HasLock(tx[u], <<"fileOn", f>>) => RowsOf({f})' = RowsOf({f})
    /\ \A f : HasLock(tx[u], <<"fid", f>>) => FileOf(f)' = FileOf(f)
    /\ \A r \in file : FileLocks({r}) \subseteq tx[u].rows => r \in file'
    /\ \A p \in tempfile : <<"tempfile", p[1]>> \in tx[u].rows => p \in tempfile'

LEMMA ShapeStays ==
  ASSUME TxIInv, NEW u \in Workers, tx'[u] = tx[u], Undisturbed(u)
  PROVE  Shape(tx[u])'
<1> DEFINE t == tx[u]
<1>1. Shape(t) /\ DropsLocked(t)
  BY DEF TxIInv, LocksInv
<1>2. \A p \in t.dropTemp : p \in tempfile => p \in tempfile'
  BY <1>1 DEF DropsLocked, Undisturbed
<1>3. CASE t = Idle
  BY <1>3 DEF Shape, Idle
<1>4. CASE Creating(t)
  <2>1. PICK p \in tempfile, k \in Keys :
          /\ t.newFile = {<<p[1], k>>} /\ t.newOn = {p} /\ t.dropTemp = {p}
          /\ t.old = 0 /\ Keeps(t)
          /\ \/ t.at = "lookup"
             \/ /\ t.at \in {"replace", "insertOn", "commit"}
                /\ <<"key", k>> \in t.gaps
    BY <1>4 DEF Creating
  <2>2. p \in tempfile'
    BY <1>2, <2>1
  <2>3. Keeps(tx'[u])
    BY <2>1 DEF Keeps
  <2>4. Creating(tx[u])'
    BY <2>1, <2>2, <2>3 DEF Creating, Keeps
  <2> QED
    BY <2>4 DEF Shape
<1>5. CASE Expiring(t)
  <2>1. Expiring(tx[u])'
    BY <1>2, <1>5 DEF Expiring
  <2> QED
    BY <2>1 DEF Shape
<1>6. CASE Checking(t)
  <2>1. RowsOf({t.old})' = RowsOf({t.old})
    BY <1>6 DEF Checking, Undisturbed, HasLock
  <2>2. Checking(tx[u])'
    BY <1>6, <2>1 DEF Checking
  <2> QED
    BY <2>2 DEF Shape
<1>7. ASSUME NEW done, Removing(t, done) PROVE Removing(t, done)'
  <2>1. CASE t.at = "devids" /\ Keeps(t)
    BY <2>1 DEF Removing, Keeps
  <2>2. CASE HasLock(t, <<"fileOn", t.old>>) /\ ~HasLock(t, <<"fid", t.old>>)
    <3>1. RowsOf({t.old})' = RowsOf({t.old})
      BY <2>2 DEF Undisturbed
    <3> QED
      BY <1>7, <2>2, <3>1 DEF Removing, HasLock, Keeps
  <2>3. CASE HasLock(t, <<"fileOn", t.old>>) /\ HasLock(t, <<"fid", t.old>>)
    <3>1. RowsOf({t.old})' = RowsOf({t.old}) /\ FileOf(t.old)' = FileOf(t.old)
      BY <2>3 DEF Undisturbed
    <3> QED
      BY <1>7, <2>3, <3>1 DEF Removing, HasLock, Keeps
  <2> QED
    BY <1>7, <2>1, <2>2, <2>3 DEF Removing
<1>8. CASE Replacing(t) /\ Removing(t, {"replace", "insertOn", "commit"})
  <2>1. PICK p \in tempfile, k \in Keys :
          /\ t.newFile = {<<p[1], k>>} /\ t.newOn = {p} /\ t.dropTemp = {p}
          /\ <<t.old, k>> \in file /\ FileLocks({<<t.old, k>>}) \subseteq t.rows
    BY <1>8 DEF Replacing
  <2>2. p \in tempfile'
    BY <1>2, <2>1
  <2>3. <<t.old, k>> \in file'
    BY <2>1 DEF Undisturbed
  <2>4. Replacing(tx[u])'
    BY <2>1, <2>2, <2>3 DEF Replacing, FileLocks
  <2> QED
    BY <1>7, <1>8, <2>4 DEF Shape
<1>9. CASE Deleting(t) /\ Removing(t, {"commit"})
  <2>1. Deleting(tx[u])'
    BY <1>9 DEF Deleting
  <2> QED
    BY <1>7, <1>9, <2>1 DEF Shape
<1> QED
  BY <1>1, <1>3, <1>4, <1>5, <1>6, <1>8, <1>9 DEF Shape

\* A step that changes the tables, and ends a transaction or none.
LEMMA TableStep ==
  ASSUME TxIInv, MetaInv', tx' \in [Workers -> Transaction],
         \A u \in Workers :
           \/ tx'[u] = Idle
           \/ tx'[u] = tx[u] /\ Undisturbed(u) /\ tx[u].gaps \cap Present' = {}
  PROVE  TxIInv'
<1>1. TxTypeOK'
  BY DEF MetaInv, TxTypeOK
<1>2. ASSUME NEW u \in Workers PROVE Shape(tx[u])'
  <2>1. CASE tx'[u] = Idle
    BY <2>1 DEF Shape, Idle
  <2>2. CASE tx'[u] = tx[u] /\ Undisturbed(u)
    BY <2>2, ShapeStays
  <2> QED
    BY <2>1, <2>2
<1>3. LocksInv'
  <2>1. /\ Idle.rows = {} /\ Idle.gaps = {} /\ Idle.at = "idle"
        /\ Idle.dropTemp = {} /\ Idle.dropFile = {} /\ Idle.dropOn = {}
    BY DEF Idle
  <2>2. Inserted(Idle) = {} /\ DropsLocked(Idle)
    BY <2>1 DEF Inserted, DropsLocked, FileLocks
  <2>3. ASSUME NEW u \in Workers, NEW v \in Workers, u # v
        PROVE  /\ tx'[u].rows \cap tx'[v].rows = {}
               /\ tx'[u].gaps \cap Inserted(tx'[v]) = {}
    BY <2>1, <2>2, <2>3 DEF TxIInv, LocksInv
  <2>4. ASSUME NEW u \in Workers
        PROVE  /\ tx'[u].gaps \cap Present' = {}
               /\ Inserted(tx'[u]) \subseteq tx'[u].rows
               /\ DropsLocked(tx'[u])
    BY <2>1, <2>2 DEF TxIInv, LocksInv
  <2>5. ASSUME NEW u \in Workers
        PROVE  /\ Inserted(tx[u])' = Inserted(tx'[u])
               /\ DropsLocked(tx[u])' = DropsLocked(tx'[u])
    BY DEF Inserted, DropsLocked, FileLocks
  <2> QED
    BY <2>3, <2>4, <2>5 DEF LocksInv
<1> QED
  BY <1>1, <1>2, <1>3 DEF TxIInv

\* What a transaction is that commits.
LEMMA AtCommit ==
  ASSUME TxIInv, NEW w \in Workers, tx[w].at = "commit"
  PROVE  \/ Creating(tx[w]) \/ Expiring(tx[w]) \/ Checking(tx[w])
         \/ Replacing(tx[w]) /\ Removing(tx[w], {"replace", "insertOn", "commit"})
         \/ Deleting(tx[w]) /\ Removing(tx[w], {"commit"})
BY DEF TxIInv, Shape, Idle

LEMMA TablesType ==
  ASSUME TxIInv
  PROVE  /\ tempfile \subseteq Fids \X Devices /\ file \subseteq Fids \X Keys
         /\ fileOn \subseteq Fids \X Devices
         /\ \A a, b \in file : (a[1] = b[1] \/ a[2] = b[2]) => a = b
         /\ \A p \in fileOn : \E k \in Keys : <<p[1], k>> \in file
         /\ \A p \in tempfile : \A a \in file : a[1] # p[1]
         /\ \A p \in tempfile : \A q \in fileOn : q[1] # p[1]
<1>1. /\ tempfile \subseteq Fids \X Devices /\ file \subseteq Fids \X Keys
      /\ fileOn \subseteq Fids \X Devices
      /\ \A a, b \in file : (a[1] = b[1] \/ a[2] = b[2]) => a = b
      /\ \A p \in fileOn : \E k \in Keys : <<p[1], k>> \in file
  BY DEF TxIInv, MetaInv, MetaTypeOK, SchemaOK, Closed, Copies
<1>2. ASSUME NEW p \in tempfile, NEW a \in file PROVE a[1] # p[1]
  BY <1>1 DEF TxIInv, MetaInv, OpenOrClosed, HasTempfile, Closed
<1>3. ASSUME NEW p \in tempfile, NEW q \in fileOn PROVE q[1] # p[1]
  BY <1>1, <1>2
<1> QED
  BY <1>1, <1>2, <1>3

\* A commit is one transaction of module Metadata.
LEMMA CommitRefines ==
  ASSUME TxIInv, NEW w \in Workers, Commit(w)
  PROVE  MetaNext
<1> DEFINE t == tx[w]
<1>1. /\ t.at = "commit"
      /\ tempfile' = tempfile \ t.dropTemp
      /\ file' = (file \ t.dropFile) \cup t.newFile
      /\ fileOn' = (fileOn \ t.dropOn) \cup t.newOn
      /\ UNCHANGED <<draining, nextFid>>
  BY DEF Commit
<1> HIDE DEF t
<1>2. CASE Creating(t)
  <2>1. PICK p \in tempfile, k \in Keys :
          /\ t.newFile = {<<p[1], k>>} /\ t.newOn = {p} /\ t.dropTemp = {p}
          /\ t.dropFile = {} /\ t.dropOn = {} /\ <<"key", k>> \in t.gaps
    BY <1>1, <1>2 DEF Creating, Keeps
  <2>2. p[1] \in Fids /\ p[2] \in Devices /\ p = <<p[1], p[2]>>
    BY TablesType
  <2>3. <<"key", k>> \notin Present
    BY <2>1 DEF TxIInv, LocksInv, t
  <2>4. FidsOfKey(k) = {}
    BY <2>3, PresentLocks DEF FidsOfKey, Present, FileLocks
  <2>5. /\ {r \in file : r[1] \notin FidsOfKey(k)} = file
        /\ RowsOf(FidsOfKey(k)) = {}
    BY <2>4 DEF RowsOf
  <2>6. CloseTempfile(p[1], p[2], k)
    BY <1>1, <2>1, <2>2, <2>5 DEF CloseTempfile
  <2> QED
    BY <2>2, <2>6 DEF MetaNext
<1>3. CASE Replacing(t) /\ Removing(t, {"replace", "insertOn", "commit"})
  <2>1. PICK p \in tempfile, k \in Keys :
          /\ t.newFile = {<<p[1], k>>} /\ t.newOn = {p} /\ t.dropTemp = {p}
          /\ <<t.old, k>> \in file
    BY <1>3 DEF Replacing
  <2>2. p[1] \in Fids /\ p[2] \in Devices /\ p = <<p[1], p[2]>>
    BY TablesType
  <2>3. t.dropOn = RowsOf({t.old}) /\ t.dropFile = FileOf(t.old)
    BY <1>1, <1>3 DEF Removing
  <2>4. FidsOfKey(k) = {t.old}
    <3>1. \A f \in FidsOfKey(k) : f = t.old
      BY <2>1, TablesType DEF FidsOfKey
    <3>2. t.old \in FidsOfKey(k)
      BY <2>1, TablesType DEF FidsOfKey
    <3> QED
      BY <3>1, <3>2
  <2>5. {r \in file : r[1] \notin FidsOfKey(k)} = file \ FileOf(t.old)
    BY <2>4 DEF FileOf
  <2>6. CloseTempfile(p[1], p[2], k)
    BY <1>1, <2>1, <2>2, <2>3, <2>4, <2>5 DEF CloseTempfile
  <2> QED
    BY <2>2, <2>6 DEF MetaNext
<1>4. CASE Deleting(t) /\ Removing(t, {"commit"})
  <2>1. t.dropOn = RowsOf({t.old}) /\ t.dropFile = FileOf(t.old)
    BY <1>1, <1>4 DEF Removing
  <2>2. t.newFile = {} /\ t.newOn = {} /\ t.dropTemp = {} /\ t.old \in Fids
    BY <1>4 DEF Deleting
  <2>3. file \ FileOf(t.old) = {r \in file : r[1] \notin {t.old}}
    BY DEF FileOf
  <2>4. DeleteFids({t.old})
    BY <1>1, <2>1, <2>2, <2>3 DEF DeleteFids
  <2> QED
    BY <2>2, <2>4 DEF MetaNext
<1>5. CASE Expiring(t)
  <2>1. ExpireTempfiles(t.dropTemp)
    BY <1>1, <1>5 DEF Expiring, ExpireTempfiles
  <2> QED
    BY <1>5, <2>1 DEF Expiring, MetaNext
<1>6. CASE Checking(t)
  <2>1. t.dropOn \subseteq fileOn
    BY <1>1, <1>6 DEF Checking, RowsOf
  <2>2. DropRows(t.dropOn)
    BY <1>1, <1>6 DEF Checking, DropRows
  <2> QED
    BY <2>1, <2>2 DEF MetaNext
<1> QED
  BY <1>1, <1>2, <1>3, <1>4, <1>5, <1>6, AtCommit DEF t

LEMMA CommitInv ==
  ASSUME TxIInv, NEW w \in Workers, Commit(w)
  PROVE  TxIInv'
<1> DEFINE t == tx[w]
<1>1. /\ t.at = "commit"
      /\ tempfile' = tempfile \ t.dropTemp
      /\ file' = (file \ t.dropFile) \cup t.newFile
      /\ fileOn' = (fileOn \ t.dropOn) \cup t.newOn
      /\ tx' = [tx EXCEPT ![w] = Idle]
  BY DEF Commit
<1>2. MetaInv'
  BY CommitRefines, MetaNextInv DEF TxIInv
<1>3. /\ tx' \in [Workers -> Transaction] /\ tx'[w] = Idle
      /\ \A u \in Workers : u # w => tx'[u] = tx[u]
  BY <1>1, IdleType DEF TxIInv, TxTypeOK
<1>4. /\ FileLocks(t.newFile) \subseteq Inserted(t)
      /\ {<<"fileOn", p[1]>> : p \in t.newOn} \subseteq Inserted(t)
      /\ Inserted(t) \subseteq t.rows
      /\ {<<"tempfile", p[1]>> : p \in t.dropTemp} \subseteq t.rows
      /\ FileLocks(t.dropFile) \subseteq t.rows
      /\ {<<"fileOn", p[1]>> : p \in t.dropOn} \subseteq t.rows
  BY <1>1 DEF TxIInv, LocksInv, DropsLocked, Inserted
<1>5. ASSUME NEW u \in Workers, u # w
      PROVE  Undisturbed(u) /\ tx[u].gaps \cap Present' = {}
  <2> HIDE DEF t
  <2>1. /\ tx[u].rows \cap t.rows = {} /\ tx[u].gaps \cap Inserted(t) = {}
        /\ tx[u].gaps \cap Present = {}
    BY <1>5 DEF TxIInv, LocksInv, t
  <2>2. /\ \A r \in t.newFile \cup t.dropFile :
             <<"fid", r[1]>> \in FileLocks({r})
        /\ \A r \in t.newFile : FileLocks({r}) \subseteq Inserted(t)
        /\ \A r \in t.dropFile : FileLocks({r}) \subseteq t.rows
        /\ \A p \in t.newOn : <<"fileOn", p[1]>> \in Inserted(t)
        /\ \A p \in t.dropOn : <<"fileOn", p[1]>> \in t.rows
        /\ \A p \in t.dropTemp : <<"tempfile", p[1]>> \in t.rows
    BY <1>4 DEF FileLocks
  <2>3. ASSUME NEW f, HasLock(tx[u], <<"fileOn", f>>)
        PROVE  RowsOf({f})' = RowsOf({f})
    <3>1. \A p \in t.newOn : p[1] # f
      BY <1>4, <2>1, <2>2, <2>3 DEF HasLock
    <3>2. \A p \in fileOn : p \in t.dropOn => p[1] # f
      BY <2>1, <2>2, <2>3, PresentLocks DEF HasLock
    <3> QED
      BY <1>1, <3>1, <3>2 DEF RowsOf
  <2>4. ASSUME NEW f, HasLock(tx[u], <<"fid", f>>)
        PROVE  FileOf(f)' = FileOf(f)
    <3>1. \A r \in t.newFile : r[1] # f
      BY <1>4, <2>1, <2>2, <2>4 DEF HasLock
    <3>2. ASSUME NEW r \in file, r \in t.dropFile, r[1] = f PROVE FALSE
      <4>1. <<"fid", f>> \in t.rows /\ <<"fid", f>> \in Present
        BY <2>2, <3>2, PresentLocks
      <4> QED
        BY <2>1, <2>4, <4>1 DEF HasLock
    <3> QED
      BY <1>1, <3>1, <3>2 DEF FileOf
  <2>5. ASSUME NEW r \in file, FileLocks({r}) \subseteq tx[u].rows
        PROVE  r \in file'
    <3>1. r \notin t.dropFile
      BY <2>1, <2>2, <2>5
    <3> QED
      BY <1>1, <3>1
  <2>6. ASSUME NEW p \in tempfile, <<"tempfile", p[1]>> \in tx[u].rows
        PROVE  p \in tempfile'
    BY <1>1, <2>1, <2>2, <2>6
  <2>7. Present' \subseteq Present \cup Inserted(t)
    <3>1. FileLocks(file') \subseteq FileLocks(file) \cup FileLocks(t.newFile)
      BY <1>1 DEF FileLocks
    <3>2. Present' = FileLocks(file') \cup {<<"fileOn", p[1]>> : p \in fileOn'}
      BY DEF Present, FileLocks
    <3>3. {<<"fileOn", p[1]>> : p \in fileOn'}
            \subseteq {<<"fileOn", p[1]>> : p \in fileOn} \cup Inserted(t)
      BY <1>1, <2>2
    <3> QED
      BY <1>4, <3>1, <3>2, <3>3 DEF Present
  <2> QED
    BY <2>1, <2>3, <2>4, <2>5, <2>6, <2>7 DEF Undisturbed
<1> QED
  BY <1>2, <1>3, <1>5, TableStep

LEMMA UpdateFileOnInv ==
  ASSUME TxIInv, NEW f \in Fids, NEW src \in Devices, NEW dst \in Devices,
         UpdateFileOn(f, src, dst)
  PROVE  TxIInv'
<1>1. /\ tx' = tx /\ tempfile' = tempfile /\ file' = file
      /\ fileOn' = IF <<f, src>> \in fileOn /\ <<f, dst>> \notin fileOn
                     THEN (fileOn \ {<<f, src>>}) \cup {<<f, dst>>} ELSE fileOn
      /\ <<f, src>> \in fileOn => Free({<<"fileOn", f>>}, TRUE)
  BY DEF UpdateFileOn, MoveRow
<1>2. MetaInv'
  BY MoveRowInv DEF TxIInv, UpdateFileOn
<1>3. Present' = Present
  <2>1. {<<"fileOn", p[1]>> : p \in fileOn'} = {<<"fileOn", p[1]>> : p \in fileOn}
    <3>1. CASE fileOn' = fileOn
      BY <3>1
    <3>2. CASE <<f, src>> \in fileOn
                 /\ fileOn' = (fileOn \ {<<f, src>>}) \cup {<<f, dst>>}
      <4>1. <<f, src>>[1] = f /\ <<f, dst>>[1] = f
        OBVIOUS
      <4> QED
        BY <3>2, <4>1
    <3> QED
      BY <1>1, <3>1, <3>2
  <2> QED
    BY <1>1, <2>1 DEF Present, FileLocks
<1>4. ASSUME NEW u \in Workers PROVE Undisturbed(u)
  <2>1. ASSUME NEW g, HasLock(tx[u], <<"fileOn", g>>)
        PROVE  RowsOf({g})' = RowsOf({g})
    <3>1. CASE <<f, src>> \notin fileOn
      BY <1>1, <3>1 DEF RowsOf
    <3>2. CASE <<f, src>> \in fileOn
      <4>1. g # f
        BY <1>1, <2>1, <3>2 DEF Free, Held, HasLock
      <4> QED
        BY <1>1, <4>1 DEF RowsOf
    <3> QED
      BY <3>1, <3>2
  <2>2. \A g : FileOf(g)' = FileOf(g)
    BY <1>1 DEF FileOf
  <2> QED
    BY <1>1, <2>1, <2>2 DEF Undisturbed
<1>5. /\ tx \in [Workers -> Transaction]
      /\ \A u \in Workers : tx[u].gaps \cap Present = {}
  BY DEF TxIInv, TxTypeOK, LocksInv
<1> QED
  BY <1>1, <1>2, <1>3, <1>4, <1>5, TableStep

LEMMA DeviceStatementInv ==
  ASSUME TxIInv, UNCHANGED tx, NEW d \in Devices,
         InsertTempfile(d) \/ SetDrain(d) \/ SetAlive(d)
  PROVE  TxIInv'
<1>1. file' = file /\ fileOn' = fileOn /\ tempfile \subseteq tempfile'
  BY DEF InsertTempfile, SetDrain, SetAlive
<1>2. MetaInv'
  BY InsertTempfileInv, StatusInv DEF TxIInv
<1>3. Present' = Present
  BY <1>1 DEF Present
<1>4. \A u \in Workers : Undisturbed(u)
  BY <1>1 DEF Undisturbed, RowsOf, FileOf
<1>5. /\ tx \in [Workers -> Transaction]
      /\ \A u \in Workers : tx[u].gaps \cap Present = {}
  BY DEF TxIInv, TxTypeOK, LocksInv
<1> QED
  BY <1>2, <1>3, <1>4, <1>5, TableStep

-----------------------------------------------------------------------------
(* The specification. *)

LEMMA TxInitInv == TxInit => TxIInv
<1> SUFFICES ASSUME TxInit PROVE TxIInv
  OBVIOUS
<1>1. MetaInv
  BY MetaInitInv DEF TxInit
<1>2. /\ \A w \in Workers : tx[w] = Idle
      /\ tx \in [Workers -> Transaction]
  BY IdleType DEF TxInit
<1>3. /\ Idle.rows = {} /\ Idle.gaps = {} /\ Idle.at = "idle"
      /\ Idle.dropTemp = {} /\ Idle.dropFile = {} /\ Idle.dropOn = {}
  BY DEF Idle
<1>4. Inserted(Idle) = {} /\ DropsLocked(Idle)
  BY <1>3 DEF Inserted, DropsLocked, FileLocks
<1>5. LocksInv
  BY <1>2, <1>3, <1>4 DEF LocksInv
<1> QED
  BY <1>1, <1>2, <1>5 DEF TxIInv, TxTypeOK, MetaInv, Shape

\* Every step keeps the invariant, and is a transaction on the tables or none.
LEMMA TxNextInv ==
  TxIInv /\ [TxNext]_txVars => TxIInv' /\ [MetaNext]_metaVars
<1> SUFFICES ASSUME TxIInv, [TxNext]_txVars PROVE TxIInv' /\ [MetaNext]_metaVars
  OBVIOUS
<1>1. ASSUME NEW w \in Workers, BeginTransaction(w)
      PROVE  TxIInv' /\ UNCHANGED metaVars
  <2>1. TxIInv'
    BY <1>1, SelectTempfileInv, SelectFidOfKeyInv, DeleteByFidInv,
       SelectAllDevidsInv, SelectOldTempfilesInv DEF BeginTransaction
  <2>2. UNCHANGED metaVars
    BY <1>1 DEF BeginTransaction, SelectTempfile, SelectFidOfKey, DeleteByFid,
                SelectAllDevids, SelectOldTempfiles, Begin
  <2> QED
    BY <2>1, <2>2
<1>2. ASSUME NEW w \in Workers, Commit(w) PROVE TxIInv' /\ MetaNext
  BY <1>2, CommitInv, CommitRefines
<1>3. ASSUME NEW w \in Workers, Continue(w), ~Commit(w)
      PROVE  TxIInv' /\ UNCHANGED metaVars
  <2>1. TxIInv'
    BY <1>3, SelectOldFidInv, SelectDevidsInv, DeleteFidOnDBInv,
       ReplaceFileInv, InsertFileOnInv, StatAndDeleteInv DEF Continue
  <2>2. UNCHANGED metaVars
    BY <1>3 DEF Continue, SelectOldFid, SelectDevids, DeleteFidOnDB,
                ReplaceFile, InsertFileOn, StatAndDelete, Execute
  <2> QED
    BY <2>1, <2>2
<1>4. ASSUME NEW w \in Workers, Rollback(w) \/ BreakDeadlock(w)
      PROVE  TxIInv' /\ UNCHANGED metaVars
  BY <1>4, RollbackInv DEF Rollback, BreakDeadlock
<1>5. ASSUME SingleStatement PROVE TxIInv' /\ MetaNext
  <2>1. ASSUME NEW d \in Devices, UNCHANGED tx,
               InsertTempfile(d) \/ SetDrain(d) \/ SetAlive(d)
        PROVE  TxIInv' /\ MetaNext
    BY <2>1, DeviceStatementInv DEF MetaNext
  <2>2. ASSUME NEW f \in Fids, NEW src \in Devices, NEW dst \in Devices,
               UpdateFileOn(f, src, dst)
        PROVE  TxIInv' /\ MetaNext
    BY <2>2, UpdateFileOnInv DEF UpdateFileOn, MetaNext
  <2> QED
    BY <1>5, <2>1, <2>2 DEF SingleStatement
<1>6. CASE UNCHANGED txVars
  <2>1. tx' = tx /\ UNCHANGED metaVars
    BY <1>6 DEF txVars
  <2>2. MetaInv'
    BY <2>1, MetaNextInv DEF TxIInv
  <2>3. Present' = Present
    BY <2>1 DEF metaVars, Present
  <2>4. \A u \in Workers : Undisturbed(u)
    BY <2>1 DEF metaVars, Undisturbed, RowsOf, FileOf
  <2>5. /\ tx \in [Workers -> Transaction]
        /\ \A u \in Workers : tx[u].gaps \cap Present = {}
    BY DEF TxIInv, TxTypeOK, LocksInv
  <2> QED
    BY <2>1, <2>2, <2>3, <2>4, <2>5, TableStep
<1> QED
  BY <1>1, <1>2, <1>3, <1>4, <1>5, <1>6 DEF TxNext

\* Tables and connections have their types.
THEOREM TransactionsTypeCorrect == TxSpec => []TxTypeOK
<1>1. TxIInv => TxTypeOK
  BY DEF TxIInv
<1> QED
  BY <1>1, TxInitInv, TxNextInv, PTL DEF TxSpec

\* For any number of connections, which get their locks and lose their
\* transactions in any order, the tables change by whole transactions only.
THEOREM TransactionsAreWhole == TxSpec => TransactionsAreAtomic
<1>1. TxInit => MetaInit
  BY DEF TxInit
<1> QED
  BY <1>1, TxInitInv, TxNextInv, PTL
     DEF TxSpec, TransactionsAreAtomic, MetaSpec

\* REPLACE INTO of createClose never deletes a row.
THEOREM ReplaceNeverReplaces == TxSpec => []ReplaceMeetsNoRow
<1>1. TxIInv => ReplaceMeetsNoRow
  BY NothingReplaced DEF ReplaceMeetsNoRow, Statement
<1> QED
  BY <1>1, TxInitInv, TxNextInv, PTL DEF TxSpec

\* What the tasks of a committing transaction name, the commit has made
\* unreferenced, and of a file that goes it forgets no copy.
LEMMA CommitTasks ==
  ASSUME TxIInv, NEW w \in Workers, Commit(w)
  PROVE  /\ tx[w].tasks \cap (tempfile \cup fileOn)' = {}
         /\ \A p \in fileOn \ fileOn' : Closed(p[1])' \/ p \in tx[w].tasks
<1> DEFINE t == tx[w]
<1>1. /\ t.at = "commit"
      /\ tempfile' = tempfile \ t.dropTemp
      /\ file' = (file \ t.dropFile) \cup t.newFile
      /\ fileOn' = (fileOn \ t.dropOn) \cup t.newOn
  BY DEF Commit
<1> HIDE DEF t
<1>2. CASE Creating(t)
  <2>1. t.tasks = {} /\ t.dropOn = {}
    BY <1>2 DEF Creating, Keeps
  <2> QED
    BY <1>1, <2>1 DEF t
<1>3. CASE \/ Replacing(t) /\ Removing(t, {"replace", "insertOn", "commit"})
           \/ Deleting(t) /\ Removing(t, {"commit"})
  <2>1. t.tasks = RowsOf({t.old}) /\ t.dropOn = RowsOf({t.old})
    BY <1>1, <1>3 DEF Removing
  <2>2. \A p \in t.newOn : p[1] # t.old
    <3>1. CASE Replacing(t)
      <4>1. PICK p \in tempfile, k \in Keys :
              t.newOn = {p} /\ <<t.old, k>> \in file
        BY <3>1 DEF Replacing
      <4> QED
        BY <4>1, TablesType
    <3>2. CASE Deleting(t)
      BY <3>2 DEF Deleting
    <3> QED
      BY <1>3, <3>1, <3>2
  <2>3. t.tasks \cap fileOn' = {}
    BY <1>1, <2>1, <2>2 DEF RowsOf
  <2>4. t.tasks \cap tempfile' = {}
    BY <1>1, <2>1, TablesType DEF RowsOf
  <2> QED
    BY <1>1, <2>1, <2>3, <2>4 DEF t
<1>4. CASE Expiring(t)
  <2>1. /\ t.tasks = t.dropTemp /\ t.dropTemp \subseteq tempfile
        /\ fileOn' = fileOn
    BY <1>1, <1>4 DEF Expiring
  <2> QED
    BY <1>1, <2>1, TablesType DEF t
<1>5. CASE Checking(t)
  <2>1. /\ t.dropOn \subseteq fileOn /\ t.tasks \subseteq t.dropOn
        /\ fileOn' = fileOn \ t.dropOn /\ file' = file /\ tempfile' = tempfile
    BY <1>1, <1>5 DEF Checking, RowsOf
  <2>2. \A p \in fileOn : Closed(p[1])'
    BY <2>1, TablesType DEF Closed
  <2> QED
    BY <2>1, <2>2, TablesType DEF t
<1> QED
  BY <1>1, <1>2, <1>3, <1>4, <1>5, AtCommit DEF t

\* The delete tasks that go out after a commit are the right ones.
THEOREM TasksAreRight == TxSpec => TasksMatchRows
<1>1. TxIInv /\ [TxNext]_txVars
        => [\A w \in Workers :
              Commit(w) =>
                /\ tx[w].tasks \cap (tempfile \cup fileOn)' = {}
                /\ \A p \in fileOn \ fileOn' :
                     Closed(p[1])' \/ p \in tx[w].tasks]_txVars
  BY CommitTasks
<1> QED
  BY <1>1, TxInitInv, TxNextInv, PTL DEF TxSpec, TasksMatchRows
=============================================================================
