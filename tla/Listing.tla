------------------------------- MODULE Listing -------------------------------
(***************************************************************************)
(* The file listing of the tracker, GET /iter-files, and a client that     *)
(* reads it page by page: the next request names the last fid it has seen, *)
(* until a page is empty.  A page is one SELECT without locks, so it sees  *)
(* what has been committed.  Between two pages the transactions of module  *)
(* Metadata go on: fids are handed out in order, but files are closed, and *)
(* appear in the listing, in any order.                                    *)
(***************************************************************************)
EXTENDS Metadata, Sequences

CONSTANT Count      \* the parameter "count" of the requests

ASSUME ListingAssumption == Count \in Nat \ {0}

VARIABLES
    reader,     \* what the client is doing
    listed,     \* the rows <<fid, dkey>> it has received, in that order
    due         \* history: files that were there when the listing began and
                \* have been there ever since

listVars == <<metaVars, reader, listed, due>>

ListingTypeOK ==
    /\ MetaTypeOK
    /\ reader \in {"idle", "reading", "done"}
    /\ \A i \in 1..Len(listed) : listed[i] \in Fids \X Keys
    /\ due \subseteq file

ListingInit ==
    /\ MetaInit
    /\ reader = "idle" /\ listed = <<>> /\ due = {}

\* The parameter "from" of the next request.
From == IF listed = <<>> THEN 0 ELSE listed[Len(listed)][1]

\* Variant: fid >= from.
AfterOrAt(from) == {r \in file : r[1] >= from}

\* where fid > from
After(from) == {r \in file : r[1] > from}

\* Variant: limit without order by.
IsPageUnordered(page, rows) ==
    /\ Len(page) = IF Cardinality(rows) < Count THEN Cardinality(rows) ELSE Count
    /\ \A i, j \in 1..Len(page) :
         /\ page[i] \in rows
         /\ i < j => page[i][1] < page[j][1]

\* order by fid limit count
IsPage(page, rows) ==
    /\ Len(page) = IF Cardinality(rows) < Count THEN Cardinality(rows) ELSE Count
    /\ \A i \in 1..Len(page) :
         /\ page[i] \in rows
         /\ Cardinality({r \in rows : r[1] < page[i][1]}) = i - 1

BeginListing ==
    /\ reader # "reading"
    /\ reader' = "reading" /\ listed' = <<>> /\ due' = file
    /\ UNCHANGED metaVars

\* iterFiles.
IterFiles ==
    /\ reader = "reading"
    /\ \E n \in 0..Count : \E page \in [1..n -> After(From)] :
         /\ IsPage(page, After(From))
         /\ listed' = listed \o page
         /\ reader' = IF n = 0 THEN "done" ELSE "reading"
    /\ UNCHANGED <<metaVars, due>>

Transaction ==
    /\ MetaNext
    /\ due' = due \cap file'
    /\ UNCHANGED <<reader, listed>>

ListingNext == BeginListing \/ IterFiles \/ Transaction

ListingSpec == ListingInit /\ [][ListingNext]_listVars

-----------------------------------------------------------------------------
(* Properties. *)

\* A listing misses no file that existed from its first page to its last,
\* whatever was closed, deleted or replaced between two pages (iterfiles.go:39).
\* Nothing is promised of a file that closes while the listing goes on: its fid
\* may be behind the client.
ListingComplete ==
    reader = "done" => \A r \in due : \E i \in 1..Len(listed) : listed[i] = r

\* A fid appears at most once in a listing, in increasing order, so a listing
\* ends as soon as uploads do.
ListedOnce ==
    \A i, j \in 1..Len(listed) : i < j => listed[i][1] < listed[j][1]
=============================================================================
