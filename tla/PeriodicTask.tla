---------------------------- MODULE PeriodicTask ----------------------------
(***************************************************************************)
(* rtl::PeriodicTask (src/librtlcpp/include/rtlcpp/task.hpp): a worker    *)
(* thread that calls m_call() until it returns true or m_shutdown is set, *)
(* sleeping on m_cv between calls; with a timeout option it sleeps with   *)
(* wait_for(timeout) instead of wait().                                   *)
(*                                                                         *)
(* Three threads: the owner (constructs, start()s, and destroys the task: *)
(* ~PeriodicTask is signal_shutdown(); join();), the worker, and a        *)
(* notifier that calls notify_one()/notify_all() on the task or through a *)
(* NotificationObject.  Every critical section on m_mtx only reads or     *)
(* writes m_shutdown (or does nothing), so each one is a single step and  *)
(* the mutex itself needs no variable; cv.wait releases it in the same    *)
(* step that puts the worker to sleep.  m_call is opaque: it runs for a   *)
(* while (notifications that arrive meanwhile find no waiter) and returns *)
(* true or false.                                                         *)
(***************************************************************************)
EXTENDS Naturals

CONSTANTS
  Timeouts,       \* timeout options: 0 (none) or a positive duration
  MaxLateCalls    \* bound on the history counter lateCalls

VARIABLES
  started,     \* m_started
  shutdown,    \* m_shutdown
  errored,     \* m_errored_out_num != 0
  options,     \* m_options: [timeout |-> t, sched |-> BOOLEAN]
  wpc,         \* the worker thread: "none" (not created), "sched", "call",
               \* "inCall", "check", "wait", "woken", "done"
  opc,         \* the owner: "live", "notify" (inside signal_shutdown from the
               \* destructor), "join", "gone"
  unserved,    \* a notification arrived that no later m_call has served (history)
  lateCalls    \* m_call started after m_shutdown was set (history)

vars == <<started, shutdown, errored, options, wpc, opc, unserved, lateCalls>>

Options == [timeout : Timeouts, sched : BOOLEAN]

(***************************************************************************)
(* The owner                                                               *)
(***************************************************************************)

\* Mutant: start() creates the thread but never sets m_started
StartNoFlag ==
  /\ opc = "live" /\ ~started
  /\ \/ UNCHANGED options
     \/ \E o \in Options : options' = o
  /\ wpc' = "sched"
  /\ UNCHANGED <<started, shutdown, errored, opc, unserved, lateCalls>>

\* start() / start(options): "if (m_started) return; m_started = true;"
\* then priv_start() creates the worker thread (a later start() returns at
\* once and changes nothing)
Start ==
  /\ opc = "live" /\ ~started
  /\ started' = TRUE
  /\ \/ UNCHANGED options
     \/ \E o \in Options : options' = o
  /\ wpc' = "sched"
  /\ UNCHANGED <<shutdown, errored, opc, unserved, lateCalls>>

\* signal_shutdown() (the first half of ~PeriodicTask) sets m_shutdown
\* under m_mtx ...
SignalShutdown ==
  /\ opc = "live"
  /\ shutdown' = TRUE
  /\ opc' = "notify"
  /\ UNCHANGED <<started, errored, options, wpc, unserved, lateCalls>>

\* Mutant: signal_shutdown sets the flag but never notifies
ShutdownNotifyDropped ==
  /\ opc = "notify"
  /\ opc' = "join"
  /\ UNCHANGED <<started, shutdown, errored, options, wpc, unserved, lateCalls>>

\* ... and then m_cv.notify_one() outside the lock
ShutdownNotify ==
  /\ opc = "notify"
  /\ wpc' = IF wpc = "wait" THEN "woken" ELSE wpc
  /\ opc' = "join"
  /\ UNCHANGED <<started, shutdown, errored, options, unserved, lateCalls>>

\* join(): "if (m_thread.joinable()) m_thread.join();" - waits for the
\* worker to return; a task never started has no thread to join
Join ==
  /\ opc = "join"
  /\ wpc \in {"none", "done"}
  /\ opc' = "gone"
  /\ UNCHANGED <<started, shutdown, errored, options, wpc, unserved, lateCalls>>

(***************************************************************************)
(* The notifier                                                            *)
(***************************************************************************)

\* notify_one() / notify_all() on the task, or NotificationObject::notify_one
\* (a default-constructed object holds no m_cv_ref and does nothing); the
\* only waiter m_cv ever has is the worker, so one and all are the same
Notify ==
  /\ opc \in {"live", "notify", "join"}
  /\ wpc' = IF wpc = "wait" THEN "woken" ELSE wpc
  /\ unserved' = (wpc \notin {"none", "done"})
  /\ UNCHANGED <<started, shutdown, errored, options, opc, lateCalls>>

(***************************************************************************)
(* The worker (the lambda of priv_start)                                   *)
(***************************************************************************)

\* "if (get_set_sched_params()) { rval = pthread_setschedparam(...);
\*  if (rval != 0) { m_errored_out_num = rval; return; } }"
SchedParams ==
  /\ wpc = "sched"
  /\ IF options.sched
     THEN \/ wpc' = "call" /\ UNCHANGED errored
          \/ wpc' = "done" /\ errored' = TRUE
     ELSE wpc' = "call" /\ UNCHANGED errored
  /\ UNCHANGED <<started, shutdown, options, opc, unserved, lateCalls>>

\* m_call() begins: it serves every notification made before it
CallBegin ==
  /\ wpc = "call"
  /\ wpc' = "inCall"
  /\ unserved' = FALSE
  /\ lateCalls' = IF shutdown THEN lateCalls + 1 ELSE lateCalls
  /\ lateCalls < MaxLateCalls
  /\ UNCHANGED <<started, shutdown, errored, options, opc>>

\* "if (m_call()) break;"
CallEnd ==
  /\ wpc = "inCall"
  /\ \E stop \in BOOLEAN : wpc' = IF stop THEN "done" ELSE "check"
  /\ UNCHANGED <<started, shutdown, errored, options, opc, unserved, lateCalls>>

\* Mutant: the worker waits without looking at m_shutdown
CheckIgnoresShutdown ==
  /\ wpc = "check"
  /\ wpc' = "wait"
  /\ UNCHANGED <<started, shutdown, errored, options, opc, unserved, lateCalls>>

\* "unique_lock lck(m_mtx); if (m_shutdown) break; m_cv.wait(lck)" (or
\* wait_for): the test and going to sleep happen under the lock
Check ==
  /\ wpc = "check"
  /\ wpc' = IF shutdown THEN "done" ELSE "wait"
  /\ UNCHANGED <<started, shutdown, errored, options, opc, unserved, lateCalls>>

\* Mutant: wait_for never times out (wait() used for both options)
TimeoutNever == FALSE

\* wait_for(lck, timeout) returns by timeout
Timeout ==
  /\ wpc = "wait" /\ options.timeout # 0
  /\ wpc' = "woken"
  /\ UNCHANGED <<started, shutdown, errored, options, opc, unserved, lateCalls>>

\* wait / wait_for return without a notification (spurious wakeup)
Spurious ==
  /\ wpc = "wait"
  /\ wpc' = "woken"
  /\ UNCHANGED <<started, shutdown, errored, options, opc, unserved, lateCalls>>

\* The woken worker reacquires m_mtx, releases it at the end of the scope,
\* and loops back to m_call()
Reacquire ==
  /\ wpc = "woken"
  /\ wpc' = "call"
  /\ UNCHANGED <<started, shutdown, errored, options, opc, unserved, lateCalls>>

(***************************************************************************)
(* Specification                                                           *)
(***************************************************************************)

\* PeriodicTask(call, options): m_started and m_shutdown false, no thread
Init ==
  /\ started = FALSE /\ shutdown = FALSE /\ errored = FALSE
  /\ options \in Options
  /\ wpc = "none" /\ opc = "live"
  /\ unserved = FALSE /\ lateCalls = 0

Worker == SchedParams \/ CallBegin \/ CallEnd \/ Check \/ Timeout \/ Reacquire

Next ==
  \/ Start \/ SignalShutdown \/ ShutdownNotify \/ Join
  \/ Notify
  \/ Worker \/ Spurious

\* The OS runs a runnable worker, m_call returns, wait_for's timeout
\* expires, and a destructor that has begun runs to its end (WF on each of
\* these).  The owner need not ever start or destroy the task, the notifier
\* need not notify, and spurious wakeups need not happen.
Fairness ==
  /\ WF_vars(Worker)
  /\ WF_vars(ShutdownNotify) /\ WF_vars(Join)

Spec == Init /\ [][Next]_vars /\ Fairness

(***************************************************************************)
(* Properties                                                              *)
(***************************************************************************)

\* The variables' types, and m_started exactly when the worker thread exists
TypeOK ==
  /\ started = (wpc # "none")
  /\ started \in BOOLEAN /\ shutdown \in BOOLEAN /\ errored \in BOOLEAN
  /\ options \in Options
  /\ wpc \in {"none", "sched", "call", "inCall", "check", "wait", "woken", "done"}
  /\ opc \in {"live", "notify", "join", "gone"}
  /\ unserved \in BOOLEAN /\ lateCalls \in 0 .. MaxLateCalls

\* Once signal_shutdown has set m_shutdown, m_call() starts at most once
\* more: the worker woken by the shutdown notification (or by a timeout or
\* a spurious wakeup) runs m_call before it tests m_shutdown again.
AtMostOneCallAfterShutdown == lateCalls <= 1

\* The destructor returns: once ~PeriodicTask has begun, join() comes back
\* whatever the worker was doing when m_shutdown was set (in m_call, about
\* to lock m_mtx, or asleep in wait/wait_for).
ShutdownCompletes == opc = "notify" ~> opc = "gone"

\* With a timeout option, a notification that finds the worker busy in
\* m_call (and so no waiter on m_cv) is still followed by a call of m_call:
\* wait_for returns by timeout.  (Without a timeout it is lost; see README.)
NotificationServed ==
  (unserved /\ options.timeout # 0) ~> (~unserved \/ wpc = "done")

====
