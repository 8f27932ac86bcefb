----------------------------- MODULE ListingProofs -----------------------------
(***************************************************************************)
(* A listing that is read page by page is complete and names no file       *)
(* twice, whatever the transactions do between two pages: for any number   *)
(* of files and any page size.                                             *)
(***************************************************************************)
EXTENDS Listing, MetadataProofs, FiniteSetTheorems, SequenceTheorems

Rows == Fids \X Keys

-----------------------------------------------------------------------------
(* A page. *)

LEMMA RowsFinite ==
  ASSUME MetaInv, NEW rows \in SUBSET file
  PROVE  IsFiniteSet(rows)
<1> DEFINE fid == [r \in file |-> r[1]]
<1>1. IsFiniteSet(Fids)
  BY MetadataAssumption, FS_Interval DEF Fids
<1>2. fid \in Injection(file, Fids)
  <2>1. fid \in [file -> Fids]
    BY DEF MetaInv, MetaTypeOK
  <2>2. \A r, s \in file : fid[r] = fid[s] => r = s
    BY DEF MetaInv, SchemaOK
  <2> QED
    BY <2>1, <2>2 DEF Injection, IsInjective
<1>3. IsFiniteSet(file)
  BY <1>1, <1>2, FS_Injection
<1> QED
  BY <1>3, FS_Subset

\* The fids of a page increase.
LEMMA PageOrdered ==
  ASSUME MetaInv, NEW from \in Nat, NEW n \in 0..Count,
         NEW page \in [1..n -> After(from)], Len(page) = n,
         IsPage(page, After(from)),
         NEW i \in 1..n, NEW j \in 1..n, i < j
  PROVE  page[i][1] < page[j][1]
<1> DEFINE Before(k) == {r \in After(from) : r[1] < page[k][1]}
<1>1. Cardinality(Before(i)) = i - 1 /\ Cardinality(Before(j)) = j - 1
  BY DEF IsPage
<1>2. page[i] \in file /\ page[j] \in file
  BY DEF After
<1>3. page[i][1] \in Int /\ page[j][1] \in Int /\ \A r \in file : r[1] \in Int
  BY <1>2, MetadataAssumption DEF MetaInv, MetaTypeOK, Fids
<1>4. IsFiniteSet(Before(i))
  BY RowsFinite DEF After
<1>5. CASE page[j][1] <= page[i][1]
  <2>1. Before(j) \in SUBSET Before(i)
    BY <1>3, <1>5 DEF After
  <2>2. Cardinality(Before(j)) <= Cardinality(Before(i))
    BY <1>4, <2>1, FS_Subset
  <2> QED
    BY <1>1, <2>2
<1> QED
  BY <1>3, <1>5

\* No row is passed over.
LEMMA PageFull ==
  ASSUME MetaInv, NEW from \in Nat, NEW n \in 0..Count, n # 0,
         NEW page \in [1..n -> After(from)], Len(page) = n,
         IsPage(page, After(from)),
         NEW r \in After(from), r[1] <= page[n][1]
  PROVE  \E i \in 1..n : page[i] = r
<1> DEFINE Q == {q \in After(from) : q[1] <= page[n][1]}
           P == {q \in After(from) : q[1] < page[n][1]}
<1>1. n \in 1..n /\ n \in Nat
  BY ListingAssumption
<1>2. \A i \in 1..n : page[i] \in file /\ page[i] \in After(from)
  BY DEF After
<1>3. \A q \in file : q[1] \in Int
  BY MetadataAssumption DEF MetaInv, MetaTypeOK, Fids
<1>4. IsFiniteSet(Q) /\ IsFiniteSet(P)
  BY RowsFinite DEF After
<1>5. Cardinality(Q) = n
  <2>1. Cardinality(P) = n - 1
    BY <1>1 DEF IsPage
  <2>2. Q = P \cup {page[n]}
    <3>1. \A q \in After(from) : q[1] = page[n][1] => q = page[n]
      BY <1>1, <1>2 DEF After, MetaInv, SchemaOK
    <3>2. page[n] \in Q
      BY <1>1, <1>2, <1>3
    <3>3. \A q \in Q : q \in P \/ q = page[n]
      BY <1>1, <1>2, <1>3, <3>1 DEF After
    <3>4. P \subseteq Q
      BY <1>1, <1>2, <1>3 DEF After
    <3> QED
      BY <3>2, <3>3, <3>4
  <2>3. page[n] \notin P
    BY <1>1, <1>2, <1>3
  <2>4. Cardinality(P \cup {page[n]}) = Cardinality(P) + 1
    <3> HIDE DEF P
    <3> QED
      BY <1>4, <2>3, FS_AddElement
  <2> HIDE DEF P, Q
  <2> QED
    BY <1>1, <2>1, <2>2, <2>4
<1>6. page \in Injection(1..n, Q)
  <2>1. \A i \in 1..n : page[i] \in Q
    <3> SUFFICES ASSUME NEW i \in 1..n PROVE page[i][1] <= page[n][1]
      BY <1>2
    <3>1. CASE i = n
      BY <1>1, <1>2, <1>3, <3>1
    <3>2. CASE i < n
      BY <1>1, <1>2, <1>3, <3>2, PageOrdered
    <3> QED
      BY <3>1, <3>2
  <2>2. ASSUME NEW i \in 1..n, NEW j \in 1..n, page[i] = page[j] PROVE i = j
    <3>1. i < j \/ j < i \/ i = j
      OBVIOUS
    <3>2. i < j => page[i][1] < page[j][1]
      BY PageOrdered
    <3>3. j < i => page[j][1] < page[i][1]
      BY PageOrdered
    <3> QED
      BY <1>2, <1>3, <2>2, <3>1, <3>2, <3>3
  <2>3. page \in [1..n -> Q]
    BY <2>1
  <2> HIDE DEF Q
  <2> QED
    BY <2>2, <2>3 DEF Injection, IsInjective
<1>7. page \in Surjection(1..n, Q)
  <2>1. Cardinality(1..n) = n
    BY <1>1, FS_Interval
  <2> HIDE DEF Q
  <2> QED
    BY <1>4, <1>5, <1>6, <2>1, FS_Injection
<1>8. r \in Q
  OBVIOUS
<1> HIDE DEF Q
<1> QED
  BY <1>7, <1>8 DEF Surjection

\* An empty page means that nothing is left.
LEMMA PageEmpty ==
  ASSUME MetaInv, NEW from \in Nat, NEW page, Len(page) = 0,
         IsPage(page, After(from))
  PROVE  After(from) = {}
<1>1. IsFiniteSet(After(from))
  BY RowsFinite DEF After
<1>2. Cardinality(After(from)) = 0
  BY ListingAssumption DEF IsPage
<1> QED
  BY <1>1, <1>2, FS_EmptySet

LEMMA PageIsSeq ==
  ASSUME NEW S, NEW n \in Nat, NEW page \in [1..n -> S]
  PROVE  page \in Seq(S) /\ Len(page) = n
OBVIOUS
-----------------------------------------------------------------------------
(* The inductive invariant. *)

\* What was there when the listing began and is still there, and is not behind
\* the client, has been received.
Received ==
    \A r \in due : r[1] <= From => \E i \in 1..Len(listed) : listed[i] = r

ListingIInv ==
    /\ MetaInv /\ ListedOnce /\ ListingComplete /\ Received
    /\ listed \in Seq(Rows) /\ due \subseteq file
    /\ reader \in {"idle", "reading", "done"}

LEMMA FromType ==
  ASSUME listed \in Seq(Rows)
  PROVE  /\ From \in Nat
         /\ listed # <<>> => /\ Len(listed) \in 1..Len(listed)
                             /\ From = listed[Len(listed)][1]
<1>1. CASE listed = <<>>
  BY <1>1 DEF From
<1>2. CASE listed # <<>>
  <2>1. Len(listed) \in Nat \ {0}
    BY <1>2, EmptySeq
  <2>2. listed[Len(listed)] \in Rows
    BY <2>1, ElementOfSeq
  <2> QED
    BY <1>2, <2>1, <2>2, MetadataAssumption DEF From, Rows, Fids
<1> QED
  BY <1>1, <1>2

LEMMA ListingInitInv == ListingInit => ListingIInv
<1> SUFFICES ASSUME ListingInit PROVE ListingIInv
  OBVIOUS
<1>1. MetaInv
  BY MetaInitInv DEF ListingInit
<1>2. listed = <<>> /\ due = {} /\ reader = "idle"
  BY DEF ListingInit
<1>3. listed \in Seq(Rows) /\ Len(listed) = 0
  BY <1>2, EmptySeq
<1> QED
  BY <1>1, <1>2, <1>3 DEF ListingIInv, ListedOnce, ListingComplete, Received

LEMMA BeginListingInv ==
  ASSUME ListingIInv, BeginListing
  PROVE  ListingIInv'
<1>1. /\ tempfile' = tempfile /\ file' = file /\ fileOn' = fileOn
      /\ draining' = draining /\ nextFid' = nextFid
      /\ reader' = "reading" /\ listed' = <<>> /\ due' = file
  BY DEF BeginListing, metaVars
<1>2. MetaInv'
  BY <1>1, MetaNextInv DEF ListingIInv, metaVars
<1>3. listed' \in Seq(Rows) /\ Len(listed') = 0
  BY <1>1, EmptySeq
<1>4. From' = 0
  BY <1>1 DEF From
<1>5. \A r \in file : r[1] \in 1..MaxFid
  BY DEF ListingIInv, MetaInv, MetaTypeOK, Fids
<1>6. Received'
  BY <1>1, <1>4, <1>5, MetadataAssumption DEF Received
<1> QED
  BY <1>1, <1>2, <1>3, <1>6 DEF ListingIInv, ListedOnce, ListingComplete

LEMMA TransactionInv ==
  ASSUME ListingIInv, Transaction
  PROVE  ListingIInv'
<1>1. MetaNext /\ due' = due \cap file' /\ reader' = reader /\ listed' = listed
  BY DEF Transaction
<1>2. MetaInv'
  BY <1>1, MetaNextInv DEF ListingIInv
<1>3. From' = From
  BY <1>1 DEF From
<1> QED
  BY <1>1, <1>2, <1>3
     DEF ListingIInv, ListedOnce, ListingComplete, Received

LEMMA IterFilesInv ==
  ASSUME ListingIInv, IterFiles
  PROVE  ListingIInv'
<1>1. PICK n \in 0..Count : \E page \in [1..n -> After(From)] :
        /\ IsPage(page, After(From)) /\ listed' = listed \o page
        /\ reader' = IF n = 0 THEN "done" ELSE "reading"
  BY DEF IterFiles
<1>2. PICK page \in [1..n -> After(From)] :
        /\ IsPage(page, After(From)) /\ listed' = listed \o page
        /\ reader' = IF n = 0 THEN "done" ELSE "reading"
  BY <1>1
<1>3. /\ tempfile' = tempfile /\ file' = file /\ fileOn' = fileOn
      /\ draining' = draining /\ nextFid' = nextFid /\ due' = due
      /\ reader = "reading"
  BY DEF IterFiles, metaVars
<1>4. MetaInv /\ MetaInv'
  BY <1>3, MetaNextInv DEF ListingIInv, metaVars
<1>5. After(From) \subseteq Rows /\ listed \in Seq(Rows)
  BY DEF After, ListingIInv, MetaInv, MetaTypeOK, Rows
<1>6. page \in Seq(Rows) /\ Len(page) = n /\ n \in Nat
  BY <1>5, ListingAssumption, PageIsSeq
<1>7. /\ listed' \in Seq(Rows) /\ Len(listed') = Len(listed) + n
      /\ Len(listed) \in Nat
      /\ \A i \in 1..Len(listed) : listed'[i] = listed[i]
      /\ \A i \in (Len(listed) + 1)..(Len(listed) + n) :
           listed'[i] = page[i - Len(listed)] /\ i - Len(listed) \in 1..n
  <2>1. Len(listed) \in Nat
    BY <1>5, LenProperties
  <2>2. /\ listed \o page \in Seq(Rows)
        /\ Len(listed \o page) = Len(listed) + n
        /\ \A i \in 1..(Len(listed) + n) :
             (listed \o page)[i] = IF i <= Len(listed) THEN listed[i]
                                   ELSE page[i - Len(listed)]
    BY <1>5, <1>6, ConcatProperties
  <2> QED
    BY <1>2, <1>6, <2>1, <2>2
<1>8. From \in Nat /\ (listed # <<>> => From = listed[Len(listed)][1])
  BY <1>5, FromType
<1>9. \A i \in 1..n : page[i] \in After(From)
  BY <1>2
<1>10. CASE n = 0
  <2>1. After(From) = {}
    BY <1>2, <1>4, <1>6, <1>8, <1>10, PageEmpty
  <2>2. listed' = listed
    BY <1>5, <1>6, <1>7, <1>10, SeqEqual
  <2>3. From' = From
    BY <2>2 DEF From
  <2>4. \A r \in due : r[1] <= From
    BY <1>8, <2>1, MetadataAssumption
       DEF After, ListingIInv, MetaInv, MetaTypeOK, Fids
  <2> QED
    BY <1>2, <1>3, <1>4, <1>5, <1>10, <2>2, <2>3, <2>4
       DEF ListingIInv, ListedOnce, ListingComplete, Received
<1>11. CASE n # 0
  <2>1. n \in 1..n /\ listed' # <<>>
    BY <1>6, <1>7, <1>11, EmptySeq
  <2>2. From' = page[n][1]
    BY <1>6, <1>7, <2>1 DEF From
  <2>3. ListedOnce'
    <3> SUFFICES ASSUME NEW i \in 1..Len(listed'), NEW j \in 1..Len(listed'),
                        i < j
                 PROVE  listed'[i][1] < listed'[j][1]
      BY DEF ListedOnce
    <3>1. CASE j <= Len(listed)
      <4>1. i \in 1..Len(listed) /\ j \in 1..Len(listed)
        BY <1>7, <3>1
      <4> QED
        BY <1>7, <4>1 DEF ListingIInv, ListedOnce
    <3>2. CASE i > Len(listed)
      <4>1. /\ i - Len(listed) \in 1..n /\ j - Len(listed) \in 1..n
            /\ i - Len(listed) < j - Len(listed)
            /\ listed'[i] = page[i - Len(listed)]
            /\ listed'[j] = page[j - Len(listed)]
        BY <1>6, <1>7, <3>2
      <4> QED
        BY <1>2, <1>4, <1>6, <1>8, <4>1, PageOrdered
    <3>3. CASE i <= Len(listed) /\ j > Len(listed)
      <4>1. i \in 1..Len(listed) /\ listed # <<>> /\ Len(listed) \in 1..Len(listed)
        BY <1>7, <3>3, EmptySeq
      <4>2. listed[i] \in Rows /\ listed[Len(listed)] \in Rows
        BY <1>5, <4>1, ElementOfSeq
      <4>3. listed[i][1] <= From
        <5>1. CASE i = Len(listed)
          BY <1>8, <4>1, <5>1
        <5>2. CASE i < Len(listed)
          <6>1. listed[i][1] < listed[Len(listed)][1]
            BY <4>1, <5>2 DEF ListingIInv, ListedOnce
          <6> QED
            BY <1>8, <4>1, <4>2, <6>1, MetadataAssumption DEF Rows, Fids
        <5> QED
          BY <1>7, <4>1, <5>1, <5>2
      <4>4. listed'[j] \in After(From) /\ listed'[i] = listed[i]
        BY <1>6, <1>7, <1>9, <3>3, <4>1
      <4>5. listed'[j][1] > From /\ listed'[j] \in Rows
        BY <1>5, <4>4 DEF After
      <4> QED
        BY <1>8, <4>2, <4>3, <4>4, <4>5, MetadataAssumption DEF Rows, Fids
    <3> QED
      BY <1>6, <1>7, <3>1, <3>2, <3>3
  <2>4. Received'
    <3> SUFFICES ASSUME NEW r \in due, r[1] <= page[n][1]
                 PROVE  \E i \in 1..Len(listed') : listed'[i] = r
      BY <1>3, <2>2 DEF Received
    <3>1. CASE r[1] <= From
      <4>1. PICK i \in 1..Len(listed) : listed[i] = r
        BY <3>1 DEF ListingIInv, Received
      <4>2. i \in 1..Len(listed') /\ listed'[i] = r
        BY <1>6, <1>7, <4>1
      <4> QED
        BY <4>2
    <3>2. CASE r \in After(From)
      <4>1. PICK i \in 1..n : page[i] = r
        BY <1>2, <1>4, <1>6, <1>8, <1>11, <3>2, PageFull
      <4>2. /\ Len(listed) + i \in 1..Len(listed')
            /\ listed'[Len(listed) + i] = r
        BY <1>6, <1>7, <4>1
      <4> QED
        BY <4>2
    <3> QED
      BY <1>8, <3>1, <3>2, MetadataAssumption
         DEF After, ListingIInv, MetaInv, MetaTypeOK, Fids
  <2> QED
    BY <1>2, <1>3, <1>4, <1>7, <1>11, <2>3, <2>4
       DEF ListingIInv, ListingComplete
<1> QED
  BY <1>10, <1>11

-----------------------------------------------------------------------------
(* The specification. *)

LEMMA ListingNextInv == ListingIInv /\ [ListingNext]_listVars => ListingIInv'
<1> SUFFICES ASSUME ListingIInv, [ListingNext]_listVars PROVE ListingIInv'
  OBVIOUS
<1>1. CASE UNCHANGED listVars
  <2>1. /\ UNCHANGED metaVars /\ file' = file
        /\ reader' = reader /\ listed' = listed /\ due' = due
    BY <1>1 DEF listVars, metaVars
  <2>2. MetaInv'
    BY <2>1, MetaNextInv DEF ListingIInv
  <2> QED
    BY <2>1, <2>2
       DEF ListingIInv, ListedOnce, ListingComplete, Received, From
<1> QED
  BY <1>1, BeginListingInv, IterFilesInv, TransactionInv DEF ListingNext

\* The tables, the client and what it has received keep their types.
THEOREM ListingTypeCorrect == ListingSpec => []ListingTypeOK
<1>1. ListingIInv => ListingTypeOK
  BY ElementOfSeq DEF ListingIInv, ListingTypeOK, MetaInv, Rows
<1> QED
  BY <1>1, ListingInitInv, ListingNextInv, PTL DEF ListingSpec

\* A listing that has ended names every file that was there all the time.
THEOREM ListingIsComplete == ListingSpec => []ListingComplete
<1>1. ListingIInv => ListingComplete
  BY DEF ListingIInv
<1> QED
  BY <1>1, ListingInitInv, ListingNextInv, PTL DEF ListingSpec

\* Fids increase along a listing, so none comes twice.
THEOREM NoneIsListedTwice == ListingSpec => []ListedOnce
<1>1. ListingIInv => ListedOnce
  BY DEF ListingIInv
<1> QED
  BY <1>1, ListingInitInv, ListingNextInv, PTL DEF ListingSpec
=============================================================================
