----------------------------- MODULE SignalWait -----------------------------
(***************************************************************************)
(* How the main thread of a daemon (mwsd, schemad, crawlerd) waits for     *)
(* SIGINT or SIGTERM while its other threads work.  Main blocks the two    *)
(* signals for itself, tests the flag and calls sigsuspend, which unblocks *)
(* them while it sleeps; the other threads never block them.  The kernel   *)
(* (external) gives a signal of the process to the main thread if that     *)
(* does not block it, and to another thread otherwise.                     *)
(***************************************************************************)
EXTENDS Integers

CONSTANTS
  MaxSignals,        \* bound: signals sent to the process
  RestoresHandlers   \* crawlerd resets the disposition of SIGINT before it stops

VARIABLES
  mainPc,      \* "init", "ready", "test", "suspend", "suspended", "stopping", "exited", "killed"
  shouldQuit,
  signals      \* signals sent so far

signalVars == <<mainPc, shouldQuit, signals>>

Gone == mainPc \in {"exited", "killed"}

SignalInit == mainPc = "init" /\ shouldQuit = FALSE /\ signals = 0

setup_signals ==
  /\ mainPc = "init"
  /\ mainPc' = "ready"
  /\ UNCHANGED <<shouldQuit, signals>>

\* sigprocmask(SIG_BLOCK)
BlockSignals ==
  /\ mainPc = "ready"
  /\ mainPc' = "test"
  /\ UNCHANGED <<shouldQuit, signals>>

\* Mutant: main goes back to sleep without looking at the flag.
SuspendAgain ==
  /\ mainPc = "test"
  /\ mainPc' = "suspend"
  /\ UNCHANGED <<shouldQuit, signals>>

\* while (!shouldQuit)
TestQuit ==
  /\ mainPc = "test"
  /\ mainPc' = IF shouldQuit THEN "stopping" ELSE "suspend"
  /\ UNCHANGED <<shouldQuit, signals>>

sigsuspend ==
  /\ mainPc = "suspend"
  /\ mainPc' = "suspended"
  /\ UNCHANGED <<shouldQuit, signals>>

\* The handler, catch_sig: without it the process is killed, and in main it
\* ends a call of sigsuspend.
catch_sig(sig) ==
  /\ ~Gone /\ signals < MaxSignals
  /\ signals' = signals + 1
  /\ IF mainPc = "init" \/ (mainPc = "stopping" /\ RestoresHandlers /\ sig = "SIGINT")
       THEN mainPc' = "killed" /\ UNCHANGED shouldQuit
       ELSE /\ shouldQuit' = TRUE
            /\ mainPc' = IF mainPc = "suspended" THEN "test" ELSE mainPc

SignalStep ==
  \/ setup_signals \/ BlockSignals \/ TestQuit \/ sigsuspend
  \/ \E sig \in {"SIGINT", "SIGTERM"} : catch_sig(sig)

MainFairness == WF_signalVars(setup_signals \/ BlockSignals \/ TestQuit \/ sigsuspend)

-----------------------------------------------------------------------------
\* A process told to quit stops, unless the signal was taken by another thread
\* after main's test of the flag and before main slept: that is the only window
\* in which a quit request is missed, and it lasts until the next signal.
QuitStops == (shouldQuit /\ mainPc \notin {"suspend", "suspended"}) ~> Gone

=============================================================================
