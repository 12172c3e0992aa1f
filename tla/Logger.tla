-------------------------------- MODULE Logger --------------------------------
(***************************************************************************)
(* The logging configuration of mm (comm/log.py) and the C++ acc logger it *)
(* mirrors, under concurrent threads.                                      *)
(*                                                                         *)
(* Python code logs through _Logger.debug/info/warn/error/fatal, which     *)
(* calls _log: it compares the level with _Logger._min_level, then reads   *)
(* _Logger._log_callback and calls it. The C++ library filters its records *)
(* with the level it was registered with and calls the registered          *)
(* LogCallBacker's log method, which register_log_conf points at           *)
(* _Logger._acc_log_callback; that decodes the record and calls            *)
(* _Logger._log_callback. register_log_conf sets the Python callback, the  *)
(* Python level, then the C++ level, each a separate step.                 *)
(*                                                                         *)
(* Every read or write of shared state that the GIL may separate from the  *)
(* next is a step of its own. The initial state is the one mm/__init__.py  *)
(* leaves: register_log_conf(LogLevel.INFO, None) has run.                 *)
(***************************************************************************)
EXTENDS Integers, FiniteSets

CONSTANTS
  Configurers,    \* threads calling register_log_conf
  PyThreads,      \* Python threads logging through _Logger
  CppThreads,     \* C++ threads logging through the acc logger
  UserCallbacks,  \* callables a caller passes to register_log_conf
  Requests,       \* (min_level, callback) arguments of register_log_conf
  Messages,       \* what a C++ record's bytes decode to: "utf8" or not
  None,           \* Python None
  MaxRegs,        \* bound: register_log_conf calls per configuring thread
  MaxLogs         \* bound: log calls per logging thread

VARIABLES
  minLevel,     \* _Logger._min_level
  logCallback,  \* _Logger._log_callback
  cppLevel,     \* the level the C++ logger filters with
  cfg,          \* per configuring thread: its step and the request
  py,           \* per Python thread: the level of a record past the check
  cpp,          \* per C++ thread: a record past the C++ filter
  calls,        \* per thread: calls made so far (bounded)
  reg,          \* the level each callback was last registered with
  delivered     \* records handed to a callback: callback, level, reg level

vars == <<minLevel, logCallback, cppLevel, cfg, py, cpp, calls, reg, delivered>>

-----------------------------------------------------------------------------
(* LogLevel (log.py 28-33) and the callbacks.                              *)

DEBUG == 0
INFO == 1
WARN == 2
ERROR == 3
FATAL == 4

Levels == {DEBUG, INFO, WARN, ERROR, FATAL}

\* _Logger._default_log, installed when the callback is None.
Default == "default"

Callbacks == UserCallbacks \cup {Default}

Threads == Configurers \cup PyThreads \cup CppThreads

Idle == [pc |-> "idle"]

-----------------------------------------------------------------------------

Init ==
  /\ minLevel = INFO
  /\ logCallback = Default
  /\ cppLevel = INFO
  /\ cfg = [c \in Configurers |-> Idle]
  /\ py = [t \in PyThreads |-> None]
  /\ cpp = [k \in CppThreads |-> None]
  /\ calls = [t \in Threads |-> 0]
  /\ reg = [cb \in Callbacks |-> IF cb = Default THEN INFO ELSE None]
  /\ delivered = {}

Count(t) == calls' = [calls EXCEPT ![t] = @ + 1]

Deliver(level) ==
  delivered' = delivered \cup
                 {[cb |-> logCallback, level |-> level, want |-> reg[logCallback]]}

\* Mutant: the isinstance(min_level, LogLevel) check is dropped.
RegisterLogConfNoTypeCheck(c, r) ==
  /\ cfg[c] = Idle /\ calls[c] < MaxRegs
  /\ Count(c)
  /\ IF r.level = None
       THEN UNCHANGED <<cfg, logCallback, reg>>
       ELSE LET cb == IF r.cb = None THEN Default ELSE r.cb
            IN  /\ logCallback' = cb
                /\ reg' = [reg EXCEPT ![cb] = r.level]
                /\ cfg' = [cfg EXCEPT ![c] = [pc |-> "min_level", level |-> r.level]]
  /\ UNCHANGED <<minLevel, cppLevel, py, cpp, delivered>>

\* register_log_conf's checks, then set_logger's first assignment
\* (_log_callback = callback or _default_log). A rejected min_level raises
\* before any state changes.
RegisterLogConf(c, r) ==
  /\ cfg[c] = Idle /\ calls[c] < MaxRegs
  /\ Count(c)
  /\ IF r.level = None \/ r.level \notin Levels
       THEN UNCHANGED <<cfg, logCallback, reg>>
       ELSE LET cb == IF r.cb = None THEN Default ELSE r.cb
            IN  /\ logCallback' = cb
                /\ reg' = [reg EXCEPT ![cb] = r.level]
                /\ cfg' = [cfg EXCEPT ![c] = [pc |-> "min_level", level |-> r.level]]
  /\ UNCHANGED <<minLevel, cppLevel, py, cpp, delivered>>

\* set_logger: _Logger._min_level = min_level.
SetMinLevel(c) ==
  /\ cfg[c].pc = "min_level"
  /\ minLevel' = cfg[c].level
  /\ cfg' = [cfg EXCEPT ![c].pc = "cpp"]
  /\ UNCHANGED <<logCallback, cppLevel, py, cpp, calls, reg, delivered>>

\* The aux instance's log is pointed at _acc_log_callback (it already is,
\* since import) and the C++ logger is registered with min_level.value.
RegisterCpp(c) ==
  /\ cfg[c].pc = "cpp"
  /\ cppLevel' = cfg[c].level
  /\ cfg' = [cfg EXCEPT ![c] = Idle]
  /\ UNCHANGED <<minLevel, logCallback, py, cpp, calls, reg, delivered>>

\* _Logger.debug/info/warn/error/fatal: _log returns when the level is
\* below _min_level.
Log(t, level) ==
  /\ py[t] = None /\ calls[t] < MaxLogs
  /\ Count(t)
  /\ py' = IF level < minLevel THEN py ELSE [py EXCEPT ![t] = level]
  /\ UNCHANGED <<minLevel, logCallback, cppLevel, cfg, cpp, reg, delivered>>

\* _log after the frame lookup: the callback read now is the one called.
LogCall(t) ==
  /\ py[t] # None
  /\ Deliver(py[t])
  /\ py' = [py EXCEPT ![t] = None]
  /\ UNCHANGED <<minLevel, logCallback, cppLevel, cfg, cpp, calls, reg>>

\* The C++ logger drops a record below the level it was registered with
\* and calls the registered LogCallBacker with the others.
CppLog(k, level, m) ==
  /\ cpp[k] = None /\ calls[k] < MaxLogs
  /\ Count(k)
  /\ cpp' = IF level < cppLevel THEN cpp ELSE [cpp EXCEPT ![k] = [level |-> level, msg |-> m]]
  /\ UNCHANGED <<minLevel, logCallback, cppLevel, cfg, py, reg, delivered>>

\* _acc_log_callback: decoding a record that is not UTF-8 raises back into
\* the C++ caller and the record is lost; otherwise it goes to the
\* callback read now.
AccLogCallback(k) ==
  /\ cpp[k] # None
  /\ IF cpp[k].msg = "utf8" THEN Deliver(cpp[k].level) ELSE UNCHANGED delivered
  /\ cpp' = [cpp EXCEPT ![k] = None]
  /\ UNCHANGED <<minLevel, logCallback, cppLevel, cfg, py, calls, reg>>

Next ==
  \/ \E c \in Configurers :
       \/ \E r \in Requests : RegisterLogConf(c, r)
       \/ SetMinLevel(c)
       \/ RegisterCpp(c)
  \/ \E t \in PyThreads : LogCall(t) \/ \E l \in Levels : Log(t, l)
  \/ \E k \in CppThreads : AccLogCallback(k) \/ \E l \in Levels, m \in Messages : CppLog(k, l, m)

Spec == Init /\ [][Next]_vars

-----------------------------------------------------------------------------
(* Properties.                                                             *)

TypeOK ==
  /\ minLevel \in Levels /\ cppLevel \in Levels /\ logCallback \in Callbacks
  /\ \A c \in Configurers : cfg[c] = Idle \/ cfg[c].pc \in {"min_level", "cpp"}
  /\ py \in [PyThreads -> Levels \cup {None}]
  /\ calls \in [Threads -> 0..MaxRegs + MaxLogs]
  /\ \A d \in delivered : d.cb \in Callbacks /\ d.level \in Levels

\* register_log_conf's docstring: min_level is the level from which logs
\* are output. When no register_log_conf call is part-way through, the
\* Python filter (_min_level) and the C++ filter both use the level the
\* installed callback was registered with, whichever threads called
\* register_log_conf and in whatever order their steps ran.
LevelsAgreeAtRest ==
  (\A c \in Configurers : cfg[c] = Idle) =>
    /\ minLevel = reg[logCallback]
    /\ cppLevel = reg[logCallback]

\* register_log_conf's docstring: "logs whose levels are higher than this
\* value are output". No callback receives a record below the min_level it
\* was registered with, from the Python path (_log) or the C++ path
\* (_acc_log_callback).
DeliveredAtLevel == \A d \in delivered : d.level >= d.want

=============================================================================
