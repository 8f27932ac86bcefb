--------------------------- MODULE LifecycleProofs ---------------------------
(***************************************************************************)
(* How trackers and storage servers stop: Shutdown closes the database     *)
(* last, for any number of HTTP servers, jobs and requests.                *)
(***************************************************************************)
EXTENDS Lifecycle, TLAPS

Quiet(s) == s \notin listening /\ active[s] = 0

\* Shutdown goes past a server when it is quiet, and a server stays so.
PassedInv == \A i \in 1..Len(Servers) : i < stage => Quiet(Servers[i])

ClosedInv ==
    ~dbOpen => stage > Len(Servers) /\ stopping /\ \A j \in Jobs : job[j] = "stopped"

LifecycleIInv == LifecycleTypeOK /\ PassedInv /\ ClosedInv

LEMMA ServerIndex ==
  /\ \A i \in 1..Len(Servers) : Servers[i] \in All
  /\ \A s \in All : \E i \in 1..Len(Servers) : s = Servers[i]
  /\ Len(Servers) \in Nat
<1>1. Servers \in Seq(All)
  BY LifecycleAssumption DEF All
<1>2. DOMAIN Servers = 1..Len(Servers) /\ Len(Servers) \in Nat
  BY <1>1
<1> QED
  BY <1>2 DEF All, Range

LEMMA InitOK == Init => LifecycleIInv
<1> SUFFICES ASSUME Init PROVE LifecycleIInv
  OBVIOUS
<1>1. ProcessTypeOK
  BY DEF Init, ProcessInit, ProcessTypeOK
<1>2. /\ active \in [All -> 0..MaxRequests]
      /\ job \in [Jobs -> {"idle", "busy", "stopped"}]
  <2>1. 0 \in 0..MaxRequests
    BY LifecycleAssumption
  <2> QED
    BY <2>1, Zenon DEF Init
<1>3. stage \in 1..(Len(Servers) + 1) /\ PassedInv
  BY ServerIndex DEF Init, PassedInv
<1>4. LifecycleTypeOK
  BY <1>1, <1>2, <1>3 DEF Init, LifecycleTypeOK
<1>5. ClosedInv
  BY DEF Init, ClosedInv
<1> QED
  BY <1>3, <1>4, <1>5 DEF LifecycleIInv

LEMMA LifecycleIInvKept == LifecycleIInv /\ [Next]_vars => LifecycleIInv'
<1> SUFFICES ASSUME LifecycleIInv, [Next]_vars PROVE LifecycleIInv'
  OBVIOUS
<1> USE ServerIndex, LifecycleAssumption
    DEF LifecycleIInv, LifecycleTypeOK, ProcessTypeOK, PassedInv, ClosedInv, Quiet
<1>1. ASSUME NEW s \in All, RequestBegins(s) PROVE LifecycleIInv'
  BY <1>1 DEF RequestBegins, processVars
<1>2. ASSUME NEW s \in All, RequestEnds(s) PROVE LifecycleIInv'
  BY <1>2 DEF RequestEnds, processVars
<1>3. ASSUME NEW s \in All, ServeReturns(s) PROVE LifecycleIInv'
  BY <1>3 DEF ServeReturns, processVars
<1>4. ASSUME NEW s \in All, ServeFails(s) PROVE LifecycleIInv'
  BY <1>4 DEF ServeFails, processVars
<1>5. ASSUME RunEnds PROVE LifecycleIInv'
  BY <1>5 DEF RunEnds, RunReturns
<1>6. ASSUME NEW j \in Jobs, JobBegins(j) \/ JobEnds(j) \/ JobStops(j)
      PROVE  LifecycleIInv'
  <2>1. job' \in [Jobs -> {"idle", "busy", "stopped"}]
    BY <1>6 DEF JobBegins, JobEnds, JobStops
  <2>2. /\ job[j] # "stopped"
        /\ UNCHANGED <<processVars, listening, served, failed, active, stopping, stage,
                       dbOpen>>
    BY <1>6 DEF JobBegins, JobEnds, JobStops
  <2>3. dbOpen
    BY <2>2
  <2>4. ClosedInv' /\ PassedInv'
    BY <2>2, <2>3
  <2>5. ProcessTypeOK'
    BY <2>2 DEF processVars
  <2>6. LifecycleTypeOK'
    BY <2>1, <2>2, <2>5
  <2> QED
    BY <2>4, <2>6
<1>7a. ASSUME ShutdownBegins PROVE LifecycleIInv'
  BY <1>7a DEF ShutdownBegins, processVars
<1>7b. ASSUME ShutdownClosesDb PROVE LifecycleIInv'
  <2>1. /\ \A j \in Jobs : job[j] = "stopped"
        /\ stage > Len(Servers) /\ stopping /\ dbOpen' = FALSE
        /\ UNCHANGED <<processVars, listening, served, failed, active, stopping, job,
                       stage>>
    BY <1>7b DEF ShutdownClosesDb
  <2> QED
    BY <2>1 DEF processVars
<1>8. ASSUME ShutdownEnds PROVE LifecycleIInv'
  BY <1>8 DEF ShutdownEnds, ShutdownReturns
<1>9. ASSUME NEW s \in All, ShutdownCloses(s) PROVE LifecycleIInv'
  BY <1>9 DEF ShutdownCloses, processVars
<1>10. ASSUME NEW s \in All, ShutdownWaited(s) PROVE LifecycleIInv'
  <2>1. /\ stage' = stage + 1 /\ s = Servers[stage] /\ Quiet(s)
        /\ UNCHANGED <<processVars, listening, served, failed, active, stopping, job,
                       dbOpen>>
        /\ stage <= Len(Servers)
    BY <1>10 DEF ShutdownWaited, AtServer
  <2>2. \A i \in 1..Len(Servers) : i < stage' => i < stage \/ i = stage
    BY <2>1
  <2>3. PassedInv'
    BY <2>1, <2>2
  <2>4. LifecycleTypeOK' /\ ClosedInv'
    BY <2>1 DEF processVars
  <2> QED
    BY <2>3, <2>4
<1>11. ASSUME NEW s \in All, ShutdownTimesOut(s) PROVE LifecycleIInv'
  BY <1>11 DEF ShutdownTimesOut, ShutdownReturns
<1>12. ASSUME Frame PROVE LifecycleIInv'
  BY <1>12 DEF Frame, FirstSignal, SecondSignal, MainFatal, ShutdownFatal
<1>13. CASE UNCHANGED vars
  BY <1>13 DEF vars, processVars
<1> QED
  BY <1>1, <1>2, <1>3, <1>4, <1>5, <1>6, <1>7a, <1>7b, <1>8, <1>9, <1>10, <1>11, <1>12, <1>13
     DEF Next, JobNext, ShutdownNext

\* The process, its servers, requests and jobs keep their types: Shutdown never
\* comes to a server that is not there.
THEOREM LifecycleTypeCorrect == Spec => []LifecycleTypeOK
<1>1. LifecycleIInv => LifecycleTypeOK
  BY DEF LifecycleIInv
<1> QED
  BY <1>1, InitOK, LifecycleIInvKept, PTL DEF Spec

\* When Shutdown closes the database, no handler and no awaited job is at work.
THEOREM DatabaseClosedLast == Spec => []DatabaseOutlivesHandlers
<1>1. LifecycleIInv => DatabaseOutlivesHandlers
  BY ServerIndex DEF LifecycleIInv, LifecycleTypeOK, PassedInv, ClosedInv, Quiet,
                     DatabaseOutlivesHandlers
<1> QED
  BY <1>1, InitOK, LifecycleIInvKept, PTL DEF Spec
=============================================================================
