------------------------------- MODULE MC_Logger -------------------------------
(* Bounded arguments for Logger.                                           *)
EXTENDS Logger

CONSTANTS cbA, rawInt

\* register_log_conf(LogLevel.ERROR, cbA), (LogLevel.DEBUG, None), and the
\* rejected min_level None and 2 (an int, not a LogLevel).
MCRequests ==
  {[level |-> ERROR, cb |-> cbA], [level |-> DEBUG, cb |-> None],
   [level |-> None, cb |-> cbA], [level |-> rawInt, cb |-> None]}

================================================================================
