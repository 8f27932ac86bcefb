------------------------ MODULE DrainLifecycleProofs ------------------------
(***************************************************************************)
(* How drains stop: a process that was asked to stop once does so between  *)
(* two files, for any number of files.                                     *)
(***************************************************************************)
EXTENDS DrainLifecycle, TLAPS

\* Run returns from the head of the loop or from the listing, never from
\* moveFile.
ReturnsInv == run # "running" => at \in {"listing", "loop"}

\* Shutdown gets past the channel that only Run closes, and closes the database
\* before it returns.
WaitsInv ==
    /\ stopped => run # "running" /\ at = "loop"
    /\ ~dbOpen => stopped
    /\ shutdown \in {"nil", "error"} => ~dbOpen

DrainIInv ==
    DrainLifecycleTypeOK /\ ReturnsInv /\ WaitsInv /\ StopsBetweenFiles

LEMMA DrainInitOK == Init => DrainIInv
<1> SUFFICES ASSUME Init PROVE DrainIInv
  OBVIOUS
<1>1. ProcessInit /\ left \in 0..MaxFiles /\ at = "listing"
  BY DEF Init
<1>2. stopping = FALSE /\ stopped = FALSE /\ dbOpen = TRUE
  BY DEF Init
<1>3. run = "running" /\ shutdown \notin {"nil", "error"} /\ exit = "no"
  BY <1>1 DEF ProcessInit
<1>4. ProcessTypeOK
  BY <1>1 DEF ProcessInit, ProcessTypeOK
<1>5. stopping \in BOOLEAN /\ stopped \in BOOLEAN /\ dbOpen \in BOOLEAN
  BY <1>2
<1>6. DrainLifecycleTypeOK
  BY <1>1, <1>4, <1>5, Zenon DEF DrainLifecycleTypeOK
<1>7. ReturnsInv /\ StopsBetweenFiles
  BY <1>1, <1>3 DEF ReturnsInv, StopsBetweenFiles
<1>8. WaitsInv
  BY <1>2, <1>3, Zenon DEF WaitsInv
<1> QED
  BY <1>6, <1>7, <1>8 DEF DrainIInv

LEMMA DrainIInvKept == DrainIInv /\ [Next]_vars => DrainIInv'
<1> SUFFICES ASSUME DrainIInv, [Next]_vars PROVE DrainIInv'
  OBVIOUS
<1> USE DrainLifecycleAssumption
    DEF DrainIInv, DrainLifecycleTypeOK, ProcessTypeOK, ReturnsInv,
        WaitsInv, StopsBetweenFiles, Alive, processVars
<1>1. CASE Alive /\ RunNext
  <2>1. CASE ListFiles \/ MoveBegins
    BY <1>1, <2>1 DEF ListFiles, MoveBegins
  <2>2. CASE RowMoves \/ MoveEnds
    BY <1>1, <2>2 DEF RowMoves, MoveEnds
  <2>3. CASE ListFails \/ RunEnds
    <3>1. PICK result \in {"nil", "error"} :
            /\ run = "running" /\ run' = result /\ at \in {"listing", "loop"}
            /\ UNCHANGED <<signals, shutdown, exit, left, at, stopping, stopped, dbOpen>>
      BY <2>3 DEF ListFails, RunEnds, RunReturns
    <3> QED
      BY <1>1, <3>1
  <2>4. CASE RunStops
    <3>1. /\ run = "running" /\ run' = "nil" /\ at = "loop" /\ stopped' = TRUE
          /\ UNCHANGED <<signals, shutdown, exit, left, at, stopping, dbOpen>>
      BY <2>4 DEF RunStops, RunReturns
    <3>2. DrainLifecycleTypeOK'
      BY <3>1
    <3>3. ReturnsInv' /\ StopsBetweenFiles'
      BY <3>1
    <3>4. WaitsInv'
      BY <3>1
    <3> QED
      BY <3>2, <3>3, <3>4
  <2> QED
    BY <1>1, <2>1, <2>2, <2>3, <2>4 DEF RunNext
<1>2. CASE Alive /\ ShutdownNext
  <2>1. CASE ShutdownBegins
    BY <1>2, <2>1 DEF ShutdownBegins
  <2>2. CASE ShutdownClosesDb
    <3>1. /\ stopped /\ shutdown = "running" /\ dbOpen' = FALSE
          /\ UNCHANGED <<signals, run, shutdown, exit, left, at, stopping, stopped>>
      BY <2>2 DEF ShutdownClosesDb
    <3>2. DrainLifecycleTypeOK'
      BY <3>1
    <3>3. WaitsInv'
      BY <3>1
    <3> QED
      BY <3>1, <3>2, <3>3
  <2>3. CASE ShutdownEnds
    <3>1. PICK result \in {"nil", "error"} :
            /\ shutdown' = result /\ ~dbOpen
            /\ UNCHANGED <<signals, run, exit, left, at, stopping, stopped, dbOpen>>
      BY <2>3 DEF ShutdownEnds, ShutdownReturns
    <3> QED
      BY <1>2, <3>1
  <2> QED
    BY <1>2, <2>1, <2>2, <2>3 DEF ShutdownNext
<1>3. CASE Alive /\ Frame
  BY <1>3 DEF Frame, FirstSignal, SecondSignal, MainReturns,
              MainFatal, ShutdownFatal
<1>4. CASE UNCHANGED vars
  BY <1>4 DEF vars
<1> QED
  BY <1>1, <1>2, <1>3, <1>4 DEF Next

LEMMA DrainInvariant == Spec => []DrainIInv
BY DrainInitOK, DrainIInvKept, PTL DEF Spec

\* A drain never moves more files than it has listed, and its process keeps its
\* type.
THEOREM DrainLifecycleTypeCorrect == Spec => []DrainLifecycleTypeOK
<1>1. DrainIInv => DrainLifecycleTypeOK
  BY DEF DrainIInv
<1> QED
  BY <1>1, DrainInvariant, PTL

\* However many files there are: neither Run nor a Shutdown that fails ends the
\* process in the middle of moveFile.  Only a second signal can.
THEOREM DrainStopsBetweenFiles == Spec => []StopsBetweenFiles
<1>1. DrainIInv => StopsBetweenFiles
  BY DEF DrainIInv
<1> QED
  BY <1>1, DrainInvariant, PTL
=============================================================================
