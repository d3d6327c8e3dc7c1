------------------------------ MODULE LogFile ------------------------------
(***************************************************************************)
(* SimpleLog: LogMessage takes the time of a message before the mutex,     *)
(* the file is named after the time OpenFile asks for itself, and a new    *)
(* day is told from the time of the last message written.                  *)
(*                                                                         *)
(* Time is the day; the clock does not go back, and fopen succeeds.        *)
(*                                                                         *)
(* As in ConnLifecycle, a definition named ...Faulty is a mutant of the    *)
(* one below it.                                                           *)
(***************************************************************************)
EXTENDS Integers, FiniteSets

CONSTANTS
  Loggers,  \* threads that log
  MaxDay,   \* bound: days the clock goes through
  MaxLogs   \* bound: messages of one thread

ASSUME LogAssumption == MaxDay \in Nat \ {0} /\ MaxLogs \in Nat

Never == 0   \* the time 0: a day of 1970

VARIABLES
  day,      \* time(NULL)
  logPc,    \* "out", "stamped": waits for mutex_, "opened": holds it
  stamp,    \* curr_time of each thread's message
  file,     \* the day in the name of log_file_, Never if it is NULL
  lastLog,  \* last_log_time_
  written   \* history: messages, [by, nth, stamp, file, at]

logVars == <<day, logPc, stamp, file, lastLog, written>>

LogInit ==
  /\ day = 1
  /\ logPc = [t \in Loggers |-> "out"] /\ stamp = [t \in Loggers |-> Never]
  /\ file = Never /\ lastLog = Never
  /\ written = {}

Midnight ==
  /\ day < MaxDay
  /\ day' = day + 1
  /\ UNCHANGED <<logPc, stamp, file, lastLog, written>>

\* init_simple_log, before threads log; it asks for the time and OpenFile does
\* so again, maybe on the next day.
InitLog ==
  /\ lastLog = Never /\ \A t \in Loggers : logPc[t] = "out"
  /\ lastLog' = day
  /\ day' \in day..MaxDay
  /\ file' = day'
  /\ UNCHANGED <<logPc, stamp, written>>

Nth(t) == Cardinality({m \in written : m.by = t}) + 1

TakeTime(t) ==
  /\ logPc[t] = "out" /\ Nth(t) <= MaxLogs
  /\ stamp' = [stamp EXCEPT ![t] = day]
  /\ logPc' = [logPc EXCEPT ![t] = "stamped"]
  /\ UNCHANGED <<day, file, lastLog, written>>

IsNewDay(t) == lastLog # stamp[t]

\* The mutex is free: take it, and open the file of today on a new day.
LockAndOpen(t) ==
  /\ logPc[t] = "stamped" /\ \A u \in Loggers : logPc[u] # "opened"
  /\ logPc' = [logPc EXCEPT ![t] = "opened"]
  /\ file' = IF IsNewDay(t) THEN day ELSE file
  /\ UNCHANGED <<day, stamp, lastLog, written>>

\* last_log_time_ is the time of the message, not the time it is written at.
LoggedAtFaulty(t) == day
LoggedAt(t) == stamp[t]

\* fwrite, fflush, and the guard gives the mutex back.
WriteLine(t) ==
  /\ logPc[t] = "opened"
  /\ written' = written \cup
       {[by |-> t, nth |-> Nth(t), stamp |-> stamp[t], file |-> file, at |-> day]}
  /\ lastLog' = LoggedAt(t)
  /\ logPc' = [logPc EXCEPT ![t] = "out"]
  /\ UNCHANGED <<day, stamp, file>>

LogNext ==
  \/ Midnight \/ InitLog
  \/ \E t \in Loggers : TakeTime(t) \/ LockAndOpen(t) \/ WriteLine(t)

LogSpec == LogInit /\ [][LogNext]_logVars

-----------------------------------------------------------------------------

\* A message is never in the file of a day before its own, though threads that
\* waited for the mutex over midnight log out of order and each takes the other
\* for a new day; and it is in a later file only if midnight passed while it
\* waited.  So a message written on its own day is in the file of that day.
InDayFile == \A m \in written : m.stamp <= m.file /\ m.file <= m.at
=============================================================================
