----------------------------- MODULE Lifecycle -----------------------------
(***************************************************************************)
(* How a tracker or a storage server stops.  Run starts the HTTP servers   *)
(* and the background jobs and waits for what Serve returns; Shutdown      *)
(* stops the HTTP servers one after the other, waits for the jobs, and     *)
(* closes the database and the AMQP connection.  The model begins when the *)
(* listeners are open.                                                     *)
(***************************************************************************)
EXTENDS Process, Sequences, Functions

CONSTANTS
    Servers,        \* the HTTP servers, in the order Shutdown stops them
    Jobs,           \* the background jobs that Shutdown waits for
    MaxRequests     \* bound: requests that one HTTP server handles at a time

ASSUME LifecycleAssumption ==
    Servers \in Seq(Range(Servers)) /\ MaxRequests \in Nat

VARIABLES
    listening,  \* servers whose listener is open
    served,     \* servers whose Serve has returned
    failed,     \* has a Serve returned on its own, without Shutdown?
    active,     \* number of requests that a server is handling
    stopping,   \* is the channel that stops the jobs closed?
    job,        \* what a background job does
    stage,      \* Shutdown is at the server with this index, or past the last
    dbOpen      \* Shutdown has not closed the database yet

vars == <<processVars, listening, served, failed, active, stopping, job, stage,
          dbOpen>>

All == Range(Servers)

LifecycleTypeOK ==
    /\ ProcessTypeOK
    /\ listening \subseteq All /\ served \subseteq All
    /\ failed \in BOOLEAN /\ stopping \in BOOLEAN /\ dbOpen \in BOOLEAN
    /\ active \in [All -> 0..MaxRequests]
    /\ job \in [Jobs -> {"idle", "busy", "stopped"}]
    /\ stage \in 1..(Len(Servers) + 1)

Init ==
    /\ ProcessInit
    /\ listening = All /\ served = {} /\ failed = FALSE
    /\ active = [s \in All |-> 0]
    /\ stopping = FALSE
    /\ job = [j \in Jobs |-> "idle"]
    /\ stage = 1
    /\ dbOpen = TRUE

-----------------------------------------------------------------------------
(* The goroutines that Run starts, and Run itself. *)

RequestBegins(s) ==
    /\ s \in listening /\ active[s] < MaxRequests
    /\ active' = [active EXCEPT ![s] = @ + 1]
    /\ UNCHANGED <<processVars, listening, served, failed, stopping, job, stage,
                   dbOpen>>

\* Variant: a handler that is counted twice.
RequestEndsTwice(s) ==
    /\ active' = [active EXCEPT ![s] = @ - 1]
    /\ UNCHANGED <<processVars, listening, served, failed, stopping, job, stage,
                   dbOpen>>

RequestEnds(s) ==
    /\ active[s] > 0
    /\ active' = [active EXCEPT ![s] = @ - 1]
    /\ UNCHANGED <<processVars, listening, served, failed, stopping, job, stage,
                   dbOpen>>

\* Serve returns as soon as the listener is closed, whatever is still handled.
ServeReturns(s) ==
    /\ s \notin listening /\ s \notin served
    /\ served' = served \cup {s}
    /\ UNCHANGED <<processVars, listening, failed, active, stopping, job, stage,
                   dbOpen>>

ServeFails(s) ==
    /\ s \in listening
    /\ listening' = listening \ {s}
    /\ served' = served \cup {s}
    /\ failed' = TRUE
    /\ UNCHANGED <<processVars, active, stopping, job, stage, dbOpen>>

\* Run reads one result of Serve from errCh.  Serve never returns nil, as the
\* error after Shutdown is ErrServerClosed: Run returns the first result.
RunEnds ==
    /\ served # {}
    /\ RunReturns("error")
    /\ UNCHANGED <<listening, served, failed, active, stopping, job, stage, dbOpen>>

\* A ticker fires; the select may prefer it to a channel that is closed.
JobBegins(j) ==
    /\ job[j] = "idle"
    /\ job' = [job EXCEPT ![j] = "busy"]
    /\ UNCHANGED <<processVars, listening, served, failed, active, stopping, stage,
                   dbOpen>>

JobEnds(j) ==
    /\ job[j] = "busy"
    /\ job' = [job EXCEPT ![j] = "idle"]
    /\ UNCHANGED <<processVars, listening, served, failed, active, stopping, stage,
                   dbOpen>>

JobStops(j) ==
    /\ job[j] = "idle" /\ stopping
    /\ job' = [job EXCEPT ![j] = "stopped"]
    /\ UNCHANGED <<processVars, listening, served, failed, active, stopping, stage,
                   dbOpen>>

-----------------------------------------------------------------------------
(* Shutdown. *)

ShutdownBegins ==
    /\ shutdown = "running" /\ ~stopping
    /\ stopping' = TRUE
    /\ UNCHANGED <<processVars, listening, served, failed, active, job, stage,
                   dbOpen>>

AtServer(s) ==
    shutdown = "running" /\ stopping /\ stage <= Len(Servers) /\ s = Servers[stage]

\* http.Server.Shutdown closes the listener and waits for the requests.
ShutdownCloses(s) ==
    /\ AtServer(s) /\ s \in listening
    /\ listening' = listening \ {s}
    /\ UNCHANGED <<processVars, served, failed, active, stopping, job, stage, dbOpen>>

\* Variant: http.Server.Close does not wait.
ShutdownSkips(s) ==
    /\ AtServer(s) /\ s \notin listening
    /\ stage' = stage + 1
    /\ UNCHANGED <<processVars, listening, served, failed, active, stopping, job,
                   dbOpen>>

ShutdownWaited(s) ==
    /\ AtServer(s) /\ s \notin listening /\ active[s] = 0
    /\ stage' = stage + 1
    /\ UNCHANGED <<processVars, listening, served, failed, active, stopping, job,
                   dbOpen>>

\* ShutdownTimeout has passed: Shutdown returns the error.
ShutdownTimesOut(s) ==
    /\ AtServer(s) /\ s \notin listening /\ active[s] > 0
    /\ ShutdownReturns("error")
    /\ UNCHANGED <<listening, served, failed, active, stopping, job, stage, dbOpen>>

ShutdownClosesDb ==
    /\ shutdown = "running" /\ stopping /\ stage > Len(Servers) /\ dbOpen
    /\ \A j \in Jobs : job[j] = "stopped"
    /\ dbOpen' = FALSE
    /\ UNCHANGED <<processVars, listening, served, failed, active, stopping, job,
                   stage>>

\* The database or the AMQP connection may refuse to be closed.
ShutdownEnds ==
    /\ ~dbOpen
    /\ \E result \in {"nil", "error"} : ShutdownReturns(result)
    /\ UNCHANGED <<listening, served, failed, active, stopping, job, stage, dbOpen>>

-----------------------------------------------------------------------------
Frame ==
    /\ FirstSignal \/ SecondSignal \/ MainFatal \/ ShutdownFatal
    /\ UNCHANGED <<listening, served, failed, active, stopping, job, stage, dbOpen>>

\* What the process does by itself, without clients and signals.
JobNext == \E j \in Jobs : JobBegins(j) \/ JobEnds(j) \/ JobStops(j)

ShutdownNext ==
    \/ ShutdownBegins \/ ShutdownClosesDb \/ ShutdownEnds
    \/ \E s \in All : ShutdownCloses(s) \/ ShutdownWaited(s) \/ ShutdownTimesOut(s)

Next ==
    /\ Alive
    /\ \/ \E s \in All : \/ RequestBegins(s) \/ RequestEnds(s)
                         \/ ServeReturns(s) \/ ServeFails(s)
       \/ RunEnds \/ JobNext \/ ShutdownNext \/ Frame

Spec == Init /\ [][Next]_vars

(* Goroutines run.  A select with a closed channel among its cases takes   *)
(* it in the end, so a job stops; requests need not end, and nobody has to *)
(* send a signal.                                                          *)
Fairness ==
    /\ \A s \in All : WF_vars(Alive /\ ServeReturns(s))
    /\ WF_vars(Alive /\ RunEnds)
    /\ \A j \in Jobs : WF_vars(Alive /\ JobEnds(j)) /\ SF_vars(Alive /\ JobStops(j))
    /\ WF_vars(Alive /\ ShutdownNext)
    /\ WF_vars(Alive /\ Frame /\ exit' = "fatal")

FairSpec == Spec /\ Fairness

-----------------------------------------------------------------------------
(* Properties. *)

\* Shutdown closes the database under no handler and no job that it waits for,
\* whichever of them was slow, and after a Serve that failed on its own
\* (server.go:176-216, tracker.go:148-179).
DatabaseOutlivesHandlers ==
    ~dbOpen => /\ \A s \in All : active[s] = 0
               /\ \A j \in Jobs : job[j] = "stopped"

\* "Process will exit when active requests are finished" (main.go:311): after
\* one signal, with no failure and no timeout.
ActiveRequestsFinish ==
    (exit = "fatal" \/ exit = "clean") /\ signals = 1 /\ ~failed /\ shutdown # "error"
        => \A s \in All : active[s] = 0
=============================================================================
