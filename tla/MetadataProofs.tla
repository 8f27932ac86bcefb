--------------------------- MODULE MetadataProofs ---------------------------
(***************************************************************************)
(* What the tables keep true whoever runs the transactions of module       *)
(* Metadata, in whatever order, for any number of devices, keys and fids.  *)
(***************************************************************************)
EXTENDS Metadata, TLAPS

\* The inductive invariant is the conjunction of what the runs check.
MetaInv == MetaTypeOK /\ SchemaOK /\ OpenOrClosed

LEMMA MetaInitInv == MetaInit => MetaInv
<1> SUFFICES ASSUME MetaInit PROVE MetaInv
  OBVIOUS
<1> USE MetadataAssumption
<1>1. MetaTypeOK
  BY DEF MetaInit, MetaTypeOK, Fids, Copies
<1>2. SchemaOK
  BY DEF MetaInit, SchemaOK, Closed, Fids
<1>3. OpenOrClosed
  BY DEF MetaInit, OpenOrClosed, HasTempfile, Closed, Live, Fids
<1> QED
  BY <1>1, <1>2, <1>3 DEF MetaInv

LEMMA InsertTempfileInv ==
  ASSUME MetaInv, NEW d \in Devices, InsertTempfile(d)
  PROVE  MetaInv'
<1> USE MetadataAssumption DEF MetaInv, InsertTempfile
<1>1. MetaTypeOK'
  BY DEF MetaTypeOK, Fids, Copies
<1>2. SchemaOK'
  <2>1. \A p \in tempfile : p[1] # nextFid
    BY DEF MetaTypeOK, OpenOrClosed, HasTempfile, Live, Fids, Copies
  <2>2. \A p, q \in tempfile' : p[1] = q[1] => p = q
    BY <2>1 DEF SchemaOK
  <2> QED
    BY <2>2 DEF SchemaOK, Closed
<1>3. OpenOrClosed'
  <2>1. ~Live(nextFid)
    BY DEF MetaTypeOK, OpenOrClosed, Fids
  <2>2. \A f \in Fids : HasTempfile(f)' <=> HasTempfile(f) \/ f = nextFid
    BY DEF HasTempfile
  <2>3. \A f \in Fids : Closed(f)' <=> Closed(f)
    BY DEF Closed
  <2>4. \A f \in Fids : ~(HasTempfile(f) /\ Closed(f))'
    BY <2>1, <2>2, <2>3 DEF OpenOrClosed, Live
  <2>5. \A f \in nextFid'..MaxFid : f \in nextFid..MaxFid /\ f \in Fids /\ f # nextFid
    BY DEF MetaTypeOK, Fids
  <2> QED
    BY <2>2, <2>3, <2>4, <2>5 DEF OpenOrClosed, Live
<1> QED
  BY <1>1, <1>2, <1>3

LEMMA DeleteFidsInv ==
  ASSUME MetaInv, NEW fids \in SUBSET Fids, DeleteFids(fids)
  PROVE  MetaInv'
<1> USE DEF MetaInv, DeleteFids, RowsOf
<1>1. MetaTypeOK'
  BY DEF MetaTypeOK
<1>2. SchemaOK'
  BY DEF MetaTypeOK, SchemaOK, Closed, Copies
<1>3. OpenOrClosed'
  BY DEF MetaTypeOK, OpenOrClosed, Closed, HasTempfile, Live
<1> QED
  BY <1>1, <1>2, <1>3

LEMMA CloseTempfileInv ==
  ASSUME MetaInv, NEW f \in Fids, NEW d \in Devices, NEW k \in Keys,
         CloseTempfile(f, d, k)
  PROVE  MetaInv'
<1> USE DEF MetaInv, CloseTempfile, RowsOf, FidsOfKey
<1>1. MetaTypeOK'
  BY DEF MetaTypeOK, Copies
<1>2. ~Closed(f)
  BY DEF OpenOrClosed, HasTempfile
<1>3. SchemaOK'
  <2>1. \A p, q \in tempfile' : p[1] = q[1] => p = q
    BY DEF SchemaOK
  <2>2. \A r, s \in file' : (r[1] = s[1] \/ r[2] = s[2]) => r = s
    <3>1. \A r \in file : r[1] # f
      BY <1>2 DEF MetaTypeOK, Closed
    <3>2. \A r \in file : r[2] = k => r[1] \in FidsOfKey(k)
      BY DEF MetaTypeOK
    <3> QED
      BY <3>1, <3>2 DEF SchemaOK
  <2>3. ASSUME NEW p \in fileOn' PROVE Closed(p[1])'
    <3>1. CASE p = <<f, d>>
      BY <3>1 DEF Closed
    <3>2. CASE p \in fileOn /\ p[1] \notin FidsOfKey(k)
      <4>1. PICK j \in Keys : <<p[1], j>> \in file
        BY <3>2 DEF SchemaOK, Closed
      <4> QED
        BY <3>2, <4>1 DEF Closed
    <3> QED
      BY <3>1, <3>2
  <2> QED
    BY <2>1, <2>2, <2>3 DEF SchemaOK
<1>4. OpenOrClosed'
  BY <1>2 DEF MetaTypeOK, SchemaOK, OpenOrClosed, Closed, HasTempfile, Live, Copies
<1> QED
  BY <1>1, <1>3, <1>4

LEMMA ExpireTempfilesInv ==
  ASSUME MetaInv, NEW rows, ExpireTempfiles(rows)
  PROVE  MetaInv'
BY DEF MetaInv, ExpireTempfiles, MetaTypeOK, SchemaOK, OpenOrClosed, Closed,
       HasTempfile, Live

LEMMA MoveRowInv ==
  ASSUME MetaInv, NEW f \in Fids, NEW src \in Devices, NEW dst \in Devices,
         MoveRow(f, src, dst)
  PROVE  MetaInv'
<1> USE DEF MetaInv, MoveRow
<1>1. MetaTypeOK'
  BY DEF MetaTypeOK, Copies
<1>2. \A p \in fileOn' : p \in fileOn \/ (p = <<f, dst>> /\ <<f, src>> \in fileOn)
  OBVIOUS
<1>3. SchemaOK'
  BY <1>2 DEF SchemaOK, Closed
<1>4. OpenOrClosed'
  BY DEF OpenOrClosed, Closed, HasTempfile, Live
<1> QED
  BY <1>1, <1>3, <1>4

LEMMA DropRowsInv ==
  ASSUME MetaInv, NEW rows, DropRows(rows)
  PROVE  MetaInv'
BY DEF MetaInv, DropRows, MetaTypeOK, SchemaOK, OpenOrClosed, Closed,
       HasTempfile, Live

LEMMA StatusInv ==
  ASSUME MetaInv, NEW d \in Devices, SetDrain(d) \/ SetAlive(d)
  PROVE  MetaInv'
BY DEF MetaInv, SetDrain, SetAlive, MetaTypeOK, SchemaOK, OpenOrClosed, Closed,
       HasTempfile, Live

LEMMA MetaNextInv == MetaInv /\ [MetaNext]_metaVars => MetaInv'
<1> SUFFICES ASSUME MetaInv, [MetaNext]_metaVars PROVE MetaInv'
  OBVIOUS
<1>1. ASSUME NEW d \in Devices, InsertTempfile(d) PROVE MetaInv'
  BY <1>1, InsertTempfileInv
<1>2. ASSUME NEW d \in Devices, SetDrain(d) \/ SetAlive(d) PROVE MetaInv'
  BY <1>2, StatusInv
<1>3. ASSUME NEW f \in Fids, DeleteFids({f}) PROVE MetaInv'
  BY <1>3, DeleteFidsInv
<1>4. ASSUME NEW f \in Fids, NEW d \in Devices, NEW k \in Keys,
             CloseTempfile(f, d, k)
      PROVE  MetaInv'
  BY <1>4, CloseTempfileInv
<1>5. ASSUME NEW rows \in SUBSET tempfile, ExpireTempfiles(rows) PROVE MetaInv'
  BY <1>5, ExpireTempfilesInv
<1>6. ASSUME NEW f \in Fids, NEW src \in Devices, NEW dst \in Devices,
             MoveRow(f, src, dst)
      PROVE  MetaInv'
  BY <1>6, MoveRowInv
<1>7. ASSUME NEW rows \in SUBSET fileOn, DropRows(rows) PROVE MetaInv'
  BY <1>7, DropRowsInv
<1>8. CASE UNCHANGED metaVars
  BY <1>8 DEF metaVars, MetaInv, MetaTypeOK, SchemaOK, OpenOrClosed, Closed,
              HasTempfile, Live
<1> QED
  BY <1>1, <1>2, <1>3, <1>4, <1>5, <1>6, <1>7, <1>8 DEF MetaNext

\* The tables have their types, no transaction runs into a constraint of the
\* schema, and no fid is an upload and a file at once.
THEOREM MetadataCorrect == MetaSpec => [](MetaTypeOK /\ SchemaOK /\ OpenOrClosed)
<1>1. MetaInv => MetaTypeOK /\ SchemaOK /\ OpenOrClosed
  BY DEF MetaInv
<1> QED
  BY <1>1, MetaInitInv, MetaNextInv, PTL DEF MetaSpec

-----------------------------------------------------------------------------
(* A dead fid stays dead: only an insert into tempfile gives life, to the  *)
(* next fid, and only a tempfile row can become a file.                    *)

LEMMA DeadStaysDead ==
  ASSUME MetaInv, [MetaNext]_metaVars, NEW f \in Fids, f < nextFid, ~Live(f)
  PROVE  ~Live(f)'
<1> USE MetadataAssumption DEF Live, HasTempfile, Closed
<1>1. ASSUME NEW d \in Devices, InsertTempfile(d) PROVE ~Live(f)'
  <2>1. f # nextFid
    BY DEF MetaInv, MetaTypeOK, Fids
  <2> QED
    BY <1>1, <2>1 DEF InsertTempfile
<1>2. ASSUME NEW d \in Devices, SetDrain(d) \/ SetAlive(d) PROVE ~Live(f)'
  BY <1>2 DEF SetDrain, SetAlive
<1>3. ASSUME NEW g \in Fids, DeleteFids({g}) PROVE ~Live(f)'
  BY <1>3 DEF DeleteFids
<1>4. ASSUME NEW g \in Fids, NEW d \in Devices, NEW k \in Keys,
             CloseTempfile(g, d, k)
      PROVE  ~Live(f)'
  BY <1>4 DEF CloseTempfile
<1>5. ASSUME NEW rows \in SUBSET tempfile, ExpireTempfiles(rows) PROVE ~Live(f)'
  BY <1>5 DEF ExpireTempfiles
<1>6. ASSUME NEW g \in Fids, NEW src \in Devices, NEW dst \in Devices,
             MoveRow(g, src, dst)
      PROVE  ~Live(f)'
  BY <1>6 DEF MoveRow
<1>7. ASSUME NEW rows \in SUBSET fileOn, DropRows(rows) PROVE ~Live(f)'
  BY <1>7 DEF DropRows
<1>8. CASE UNCHANGED metaVars
  BY <1>8 DEF metaVars
<1> QED
  BY <1>1, <1>2, <1>3, <1>4, <1>5, <1>6, <1>7, <1>8 DEF MetaNext

\* No step of any process makes a fid live again or leaves a file_on row for it:
\* fids are not reused, and what moves a row does not create one.
THEOREM DeadFidsStayDead == MetaSpec => NeverResurrected
<1>1. MetaInv /\ MetaInv' /\ [MetaNext]_metaVars
        => [\A f \in Fids : f < nextFid /\ ~Live(f)
              => ~Live(f)' /\ RowsOf({f})' = {}]_metaVars
  <2> SUFFICES ASSUME MetaInv, MetaInv', [MetaNext]_metaVars,
                      NEW f \in Fids, f < nextFid, ~Live(f)
               PROVE  ~Live(f)' /\ RowsOf({f})' = {}
    OBVIOUS
  <2>1. ~Live(f)'
    BY DeadStaysDead
  <2>2. \A p \in fileOn' : Closed(p[1])'
    BY DEF MetaInv, SchemaOK
  <2>3. \A p \in fileOn' : p[1] # f
    BY <2>1, <2>2 DEF Live
  <2> QED
    BY <2>1, <2>3 DEF RowsOf
<1> QED
  BY <1>1, MetaInitInv, MetaNextInv, PTL DEF MetaSpec, NeverResurrected
=============================================================================
