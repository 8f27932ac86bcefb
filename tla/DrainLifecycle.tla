--------------------------- MODULE DrainLifecycle ---------------------------
(***************************************************************************)
(* How "efes drain" stops: Run looks at the shutdown channel between two   *)
(* files only, and Shutdown waits until Run has seen it.                   *)
(***************************************************************************)
EXTENDS Process

CONSTANT MaxFiles   \* bound: files on the device when the drain begins

ASSUME DrainLifecycleAssumption == MaxFiles \in Nat

VARIABLES
    left,       \* files that Run has not come to
    at,         \* where Run is; in moveFile from "copying" on
    stopping,   \* is the channel shutdown closed?
    stopped,    \* is the channel stopped closed?
    dbOpen      \* Shutdown has not closed the database yet

vars == <<processVars, left, at, stopping, stopped, dbOpen>>

DrainLifecycleTypeOK ==
    /\ ProcessTypeOK
    /\ left \in 0..MaxFiles
    /\ at \in {"listing", "loop", "copying", "moved"}
    /\ stopping \in BOOLEAN /\ stopped \in BOOLEAN /\ dbOpen \in BOOLEAN

Init ==
    /\ ProcessInit
    /\ left \in 0..MaxFiles
    /\ at = "listing"
    /\ stopping = FALSE /\ stopped = FALSE /\ dbOpen = TRUE

\* The status is set and the files are listed.
ListFiles ==
    /\ at = "listing" /\ run = "running"
    /\ at' = "loop"
    /\ UNCHANGED <<processVars, left, stopping, stopped, dbOpen>>

ListFails ==
    /\ at = "listing"
    /\ RunReturns("error")
    /\ UNCHANGED <<left, at, stopping, stopped, dbOpen>>

\* Variant: one file too many.
MoveBeginsTooMany ==
    /\ at = "loop" /\ run = "running" /\ ~stopping
    /\ at' = "copying" /\ left' = left - 1
    /\ UNCHANGED <<processVars, stopping, stopped, dbOpen>>

MoveBegins ==
    /\ at = "loop" /\ run = "running" /\ left > 0 /\ ~stopping
    /\ at' = "copying" /\ left' = left - 1
    /\ UNCHANGED <<processVars, stopping, stopped, dbOpen>>

\* The file_on row points to the other device.
RowMoves ==
    /\ at = "copying" /\ at' = "moved"
    /\ UNCHANGED <<processVars, left, stopping, stopped, dbOpen>>

\* moveFile has unlinked the file, or returned an error that Run logs.
MoveEnds ==
    /\ at \in {"copying", "moved"} /\ at' = "loop"
    /\ UNCHANGED <<processVars, left, stopping, stopped, dbOpen>>

\* The select at the head of the loop.
RunStops ==
    /\ at = "loop" /\ left > 0 /\ stopping
    /\ RunReturns("nil")
    /\ stopped' = TRUE
    /\ UNCHANGED <<left, at, stopping, dbOpen>>

\* The loop is over: nobody closes the channel stopped.
RunEnds ==
    /\ at = "loop" /\ left = 0
    /\ RunReturns("nil")
    /\ UNCHANGED <<left, at, stopping, stopped, dbOpen>>

ShutdownBegins ==
    /\ shutdown = "running" /\ ~stopping
    /\ stopping' = TRUE
    /\ UNCHANGED <<processVars, left, at, stopped, dbOpen>>

\* Variant: Shutdown does not wait for Run.
ShutdownClosesDbAtOnce ==
    /\ shutdown = "running" /\ stopping /\ dbOpen
    /\ dbOpen' = FALSE
    /\ UNCHANGED <<processVars, left, at, stopping, stopped>>

ShutdownClosesDb ==
    /\ shutdown = "running" /\ stopped /\ dbOpen
    /\ dbOpen' = FALSE
    /\ UNCHANGED <<processVars, left, at, stopping, stopped>>

ShutdownEnds ==
    /\ ~dbOpen
    /\ \E result \in {"nil", "error"} : ShutdownReturns(result)
    /\ UNCHANGED <<left, at, stopping, stopped, dbOpen>>

Frame ==
    /\ \/ FirstSignal \/ SecondSignal
       \/ MainReturns \/ MainFatal \/ ShutdownFatal
    /\ UNCHANGED <<left, at, stopping, stopped, dbOpen>>

RunNext ==
    \/ ListFiles \/ ListFails \/ MoveBegins \/ RowMoves \/ MoveEnds
    \/ RunStops \/ RunEnds

ShutdownNext == ShutdownBegins \/ ShutdownClosesDb \/ ShutdownEnds

Next == Alive /\ (RunNext \/ ShutdownNext \/ Frame)

Spec == Init /\ [][Next]_vars

\* Goroutines run, and moving one file ends: sendFile gives up in the end.
FairSpec ==
    /\ Spec
    /\ WF_vars(Alive /\ RunNext) /\ WF_vars(Alive /\ ShutdownNext)
    /\ WF_vars(Alive /\ Frame /\ exit' \in {"clean", "fatal"})

-----------------------------------------------------------------------------
(* Properties. *)

\* One signal never stops a drain in the middle of a file, with the copy made
\* and the row or the source still to be dealt with (drain.go:87-103): neither
\* Run nor a Shutdown that fails ends the process there.
StopsBetweenFiles == exit \in {"clean", "fatal"} => at \in {"listing", "loop"}
=============================================================================
