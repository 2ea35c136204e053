\* owner, worker and notifier threads: shutdown always completes, m_call runs at most once after it, notifications are served when wait_for has a timeout
CONSTANTS
  Timeouts <- MCTimeouts
  MaxLateCalls = 2
SPECIFICATION Spec
INVARIANTS
  TypeOK
  AtMostOneCallAfterShutdown
PROPERTIES
  ShutdownCompletes
  NotificationServed
\* After ~PeriodicTask has returned nothing is left to run.
CHECK_DEADLOCK FALSE
