--------------------------- MODULE ThreadWrapper ---------------------------
(***************************************************************************)
(* ThreadWrapper: detached threads that count themselves, and clean(),     *)
(* which waits until the count is zero.  Callers call run(), the main      *)
(* thread calls init() and clean(), and every started thread runs its      *)
(* routine and then deletes its wrapper.  lock, active and alive are the   *)
(* static members; the condition variable is the state "waiting" of Main.  *)
(***************************************************************************)
EXTENDS Integers, FiniteSets

CONSTANTS
  Callers,    \* threads that call run()
  Threads,    \* threads that pthread_create can make
  Main,       \* the thread that calls init() and clean()
  NoOne,      \* owner of the free mutex
  MaxCalls,   \* bound: calls of run() by one caller
  MaxSpurious,  \* bound: returns of pthread_cond_wait without a signal
  UINT_MOD    \* number of values of an unsigned int

ASSUME ThreadAssumption ==
  /\ IsFiniteSet(Threads)
  /\ UINT_MOD \in Nat /\ Cardinality(Threads) < UINT_MOD
  /\ Callers \cap Threads = {}
  /\ Main \notin Callers \cup Threads
  /\ NoOne \notin Callers \cup Threads \cup {Main}
  /\ MaxCalls \in Nat /\ MaxSpurious \in Nat

VARIABLES
  lock,     \* owner of the mutex
  active, alive,
  pc,       \* what each thread is doing
  calls,    \* caller -> number of calls made
  spurious  \* number of returns of pthread_cond_wait without a signal

vars == <<lock, active, alive, pc, calls, spurious>>

Actors == Callers \cup Threads \cup {Main}

Init ==
  /\ lock = NoOne /\ active = FALSE /\ alive = 0
  /\ pc = [a \in Actors |-> IF a \in Threads THEN "unborn" ELSE "idle"]
  /\ calls = [c \in Callers |-> 0] /\ spurious = 0

Goto(a, step) == pc' = [pc EXCEPT ![a] = step]

\* pthread_mutex_lock: from step "from", where the thread waits, to step "to".
Acquire(a, from, to) ==
  /\ pc[a] = from
  /\ lock = NoOne
  /\ lock' = a
  /\ Goto(a, to)
  /\ UNCHANGED <<active, alive, calls, spurious>>

-----------------------------------------------------------------------------
(***************************************************************************)
(* init(), before any other call; creating the mutex or the condition      *)
(* variable may fail.                                                      *)
(***************************************************************************)
init ==
  /\ pc[Main] = "idle"
  /\ \/ active' = TRUE /\ alive' = 0 /\ Goto(Main, "ready")
     \/ Goto(Main, "failed") /\ UNCHANGED <<active, alive>>
  /\ UNCHANGED <<lock, calls, spurious>>

(***************************************************************************)
(* run(): the constructor tests active and creates the thread under the    *)
(* lock; the thread may run before it is counted.                          *)
(***************************************************************************)
run(c) ==
  /\ pc[c] = "idle" /\ pc[Main] \notin {"idle", "failed"}
  /\ calls[c] < MaxCalls
  /\ calls' = [calls EXCEPT ![c] = @ + 1]
  /\ Goto(c, "construct")
  /\ UNCHANGED <<lock, active, alive, spurious>>

EnterConstructor(c) == Acquire(c, "construct", "create")

Return(c) ==
  /\ lock' = NoOne
  /\ pc' = [pc EXCEPT ![c] = "idle"]

\* No new threads are admitted: nothing is done, and run() returns 0.
NotActive(c) ==
  /\ pc[c] = "create"
  /\ ~active
  /\ Return(c)
  /\ UNCHANGED <<active, alive, calls, spurious>>

pthread_create(c, t) ==
  /\ pc[c] = "create"
  /\ active
  /\ pc[t] = "unborn"
  /\ pc' = [pc EXCEPT ![t] = "routine", ![c] = "count"]
  /\ UNCHANGED <<lock, active, alive, calls, spurious>>

\* Mutant: a thread that could not be created is counted.
CreateFailsCounted(c) ==
  /\ pc[c] = "create"
  /\ active
  /\ alive' = (alive + 1) % UINT_MOD
  /\ Return(c)
  /\ UNCHANGED <<active, calls, spurious>>

CreateFails(c) ==
  /\ pc[c] = "create"
  /\ active
  /\ Return(c)
  /\ UNCHANGED <<active, alive, calls, spurious>>

CountThread(c) ==
  /\ pc[c] = "count"
  /\ alive' = (alive + 1) % UINT_MOD
  /\ Return(c)
  /\ UNCHANGED <<active, calls, spurious>>

(***************************************************************************)
(* startWrapper(): the routine, then the destructor under the lock, which  *)
(* signals the waiting clean() when the count reaches zero.                *)
(***************************************************************************)
EndRoutine(t) ==
  /\ pc[t] = "routine"
  /\ Goto(t, "exit")
  /\ UNCHANGED <<lock, active, alive, calls, spurious>>

EnterDestructor(t) == Acquire(t, "exit", "delete")

\* pthread_cond_signal wakes Main if it waits; else it is lost.
Woken == IF pc[Main] = "waiting" THEN "relock" ELSE pc[Main]

DestructorSilent(t) ==
  /\ pc[t] = "delete"
  /\ alive' = (alive - 1) % UINT_MOD
  /\ Goto(t, "gone")
  /\ lock' = NoOne
  /\ UNCHANGED <<active, calls, spurious>>

Destructor(t) ==
  /\ pc[t] = "delete"
  /\ alive' = (alive - 1) % UINT_MOD
  /\ pc' = [pc EXCEPT ![t] = "gone",
                      ![Main] = IF (alive - 1) % UINT_MOD = 0 THEN Woken ELSE @]
  /\ lock' = NoOne
  /\ UNCHANGED <<active, calls, spurious>>

(***************************************************************************)
(* clean().  pthread_cond_wait releases the mutex while it waits and may   *)
(* return without a signal.                                                *)
(***************************************************************************)
clean == /\ pc[Main] = "ready"
         /\ Goto(Main, "relock")
         /\ UNCHANGED <<lock, active, alive, calls, spurious>>

TakeLock == Acquire(Main, "relock", "test")

\* Mutant: the mutex is kept while waiting.
WaitWithLock ==
  /\ pc[Main] = "test"
  /\ alive # 0
  /\ Goto(Main, "waiting")
  /\ UNCHANGED <<lock, active, alive, calls, spurious>>

WaitForThreads ==
  /\ pc[Main] = "test"
  /\ alive # 0
  /\ lock' = NoOne
  /\ Goto(Main, "waiting")
  /\ UNCHANGED <<active, alive, calls, spurious>>

SpuriousWakeup ==
  /\ pc[Main] = "waiting"
  /\ spurious < MaxSpurious
  /\ spurious' = spurious + 1
  /\ Goto(Main, "relock")
  /\ UNCHANGED <<lock, active, alive, calls>>

\* Mutant: new threads are still admitted.
CleanReturnsActive ==
  /\ pc[Main] = "test"
  /\ alive = 0
  /\ lock' = NoOne
  /\ Goto(Main, "cleaned")
  /\ UNCHANGED <<active, alive, calls, spurious>>

CleanReturns ==
  /\ pc[Main] = "test"
  /\ alive = 0
  /\ active' = FALSE
  /\ lock' = NoOne
  /\ Goto(Main, "cleaned")
  /\ UNCHANGED <<alive, calls, spurious>>

-----------------------------------------------------------------------------
CallerStep(c) == \/ EnterConstructor(c) \/ NotActive(c) \/ CountThread(c)
                 \/ CreateFails(c) \/ \E t \in Threads : pthread_create(c, t)

ThreadStep(t) == EndRoutine(t) \/ EnterDestructor(t) \/ Destructor(t)

CleanStep == TakeLock \/ WaitForThreads \/ CleanReturns

Next == \/ init \/ clean \/ CleanStep \/ SpuriousWakeup
        \/ \E c \in Callers : run(c) \/ CallerStep(c)
        \/ \E t \in Threads : ThreadStep(t)

Spec == Init /\ [][Next]_vars

\* Every thread keeps running and every routine ends.
FairSpec == /\ Spec
            /\ WF_vars(CleanStep)
            /\ \A c \in Callers : WF_vars(CallerStep(c))
            /\ \A t \in Threads : WF_vars(ThreadStep(t))

-----------------------------------------------------------------------------
(***************************************************************************)
(* Properties.                                                             *)
(***************************************************************************)
CallerSteps == {"idle", "construct", "create", "count"}
ThreadSteps == {"unborn", "routine", "exit", "delete", "gone"}
MainSteps   == {"idle", "failed", "ready", "relock", "test", "waiting", "cleaned"}

\* The static members and the program counters have their types.
TypeOK ==
  /\ lock \in Actors \cup {NoOne}
  /\ active \in BOOLEAN /\ alive \in 0..(UINT_MOD - 1)
  /\ pc \in [Actors -> CallerSteps \cup ThreadSteps \cup MainSteps]
  /\ \A c \in Callers : pc[c] \in CallerSteps
  /\ \A t \in Threads : pc[t] \in ThreadSteps
  /\ pc[Main] \in MainSteps
  /\ calls \in [Callers -> 0..MaxCalls] /\ spurious \in 0..MaxSpurious

\* Where a thread holds the mutex.
Holding == {"create", "count", "delete", "test"}

\* lock serialises the accesses to active and alive: whoever is inside the
\* constructor, the destructor or the loop of clean() owns it.
Exclusion == \A a \in Actors : pc[a] \in Holding <=> lock = a

\* The threads started and not yet deleted.
Live == { t \in Threads : pc[t] \in {"routine", "exit", "delete"} }

\* alive counts the live threads, but for the one a constructor has created
\* and not yet counted; the unsigned counter never wraps, even when the new
\* thread ends before its creator goes on.
AliveCounts ==
  alive = Cardinality(Live) - (IF \E c \in Callers : pc[c] = "count" THEN 1 ELSE 0)

\* clean() "waits for running threads": once it has returned no thread of a
\* ThreadWrapper is running, and none is ever started again.
CleanMeansNoThreads == pc[Main] = "cleaned" => Live = {}

\* clean() returns when the routines end: the signal of the last destructor
\* is not lost, whatever the order of the calls.
CleanTerminates == pc[Main] = "relock" ~> pc[Main] = "cleaned"
===========================================================================
