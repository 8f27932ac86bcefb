------------------------------ MODULE Process ------------------------------
(***************************************************************************)
(* The frame in which a tracker, a storage server or a drainer runs        *)
(* (main.go, runUntilInterrupt and handleSignals): the main goroutine      *)
(* calls Run, another one waits for signals and calls Shutdown on the      *)
(* first.  The modules that EXTEND this one say what Run and Shutdown do.  *)
(***************************************************************************)
EXTENDS Naturals

VARIABLES
    signals,    \* SIGINT and SIGTERM received
    run,        \* what Run has returned, or "running"
    shutdown,   \* "no", "running", or what Shutdown has returned
    exit        \* how the process has ended, or "no"

processVars == <<signals, run, shutdown, exit>>

ProcessTypeOK ==
    /\ signals \in 0..2
    /\ run \in {"running", "nil", "error"}
    /\ shutdown \in {"no", "running", "nil", "error"}
    /\ exit \in {"no", "clean", "fatal", "killed"}

ProcessInit == signals = 0 /\ run = "running" /\ shutdown = "no" /\ exit = "no"

Alive == exit = "no"

RunReturns(result) ==
    /\ run = "running"
    /\ run' = result
    /\ UNCHANGED <<signals, shutdown, exit>>

ShutdownReturns(result) ==
    /\ shutdown = "running"
    /\ shutdown' = result
    /\ UNCHANGED <<signals, run, exit>>

\* The first signal starts the goroutine of shutdownProcess.
FirstSignal ==
    /\ signals = 0
    /\ signals' = 1
    /\ shutdown' = "running"
    /\ UNCHANGED <<run, exit>>

SecondSignal ==
    /\ signals = 1
    /\ signals' = 2
    /\ exit' = "killed"
    /\ UNCHANGED <<run, shutdown>>

\* Variant: the main goroutine waits for Shutdown before it returns.
MainReturnsWaits ==
    /\ run = "nil" /\ shutdown = "nil"
    /\ exit' = "clean"
    /\ UNCHANGED <<signals, run, shutdown>>

\* Run returned nil.
MainReturns ==
    /\ run = "nil"
    /\ exit' = "clean"
    /\ UNCHANGED <<signals, run, shutdown>>

\* Variant: the main goroutine waits for Shutdown before it returns.
MainFatalWaits ==
    /\ run = "error" /\ shutdown = "nil"
    /\ exit' = "fatal"
    /\ UNCHANGED <<signals, run, shutdown>>

\* Run returned an error: log.Fatal.  The lines below it are never reached.
MainFatal ==
    /\ run = "error"
    /\ exit' = "fatal"
    /\ UNCHANGED <<signals, run, shutdown>>

\* shutdownProcess: Shutdown returned an error.
ShutdownFatal ==
    /\ shutdown = "error"
    /\ exit' = "fatal"
    /\ UNCHANGED <<signals, run, shutdown>>

\* Once asked to stop, or with nothing left to run, the process ends without
\* further help: no goroutine of it waits for one that has gone
\* (main.go:282-283, "After shutdown is called Run must return").
ProcessEnds == (signals > 0 \/ run # "running") ~> exit # "no"
=============================================================================
