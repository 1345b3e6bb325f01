--------------------------- MODULE ServicesBuffer ---------------------------
(***************************************************************************)
(* The buffers of Services: log messages and monitoring values are         *)
(* collected and multicast in batches, by the buffer thread every few      *)
(* seconds and by a sender whose message would make the batch too large;   *)
(* alarms are sent at once and remembered for a while, to send none twice. *)
(*                                                                         *)
(* logging_buf and monitoring_buf have a lock each.  local_merge_buf, in   *)
(* which a batch is put together, is one string shared by all threads and  *)
(* has none.                                                               *)
(*                                                                         *)
(* A ToolDAQChain with log_remote hands what is written to std::cerr and   *)
(* std::cout to SendLog (DAQLogging::TDAQStreamBuf::sync): a report.  Some *)
(* are written with a buffer's lock held, with m_verbose set: of a         *)
(* multicast that fails, from within BatchAndSendMulticast, and of a       *)
(* message or value that is too long for a datagram.                       *)
(***************************************************************************)
EXTENDS Naturals, Sequences, FiniteSets

CONSTANTS
  Users,       \* threads of the user's code
  Messages,    \* log messages: text and device
  Subjects,    \* subjects of monitoring values
  Alarms,      \* alarms: text and device
  Bytes,       \* compressed bound of a message, or of a value of a subject
  MSS_SIZE,    \* bytes of a batch that are sent in one piece
  MaxCalls,    \* bound: log and monitoring calls that are followed
  None

Buffer == "Services"        \* the thread made by Services::Init
Threads == Users \cup {Buffer}
Calls == 1..MaxCalls

ASSUME UsersOK == Buffer \notin Users /\ None \notin Threads
ASSUME NamesOK == None \notin Messages \cup Subjects \cup Alarms
ASSUME SizesOK ==
  /\ MSS_SIZE \in Nat
  /\ MaxCalls \in Nat
  /\ Bytes \in [Messages \cup Subjects -> Nat \ {0}]

VARIABLES
  logging_buf,       \* sequence of messages, each with the calls it stands for
  logging_bytes,     \* logging_batch_bytes
  logging_mtx,       \* the thread that holds logging_buf_mtx, or None
  monitoring_buf,    \* for each subject the call whose value it has, or 0
  monitoring_bytes,  \* monitoring_batch_bytes
  monitoring_mtx,    \* the thread that holds monitoring_buf_mtx, or None
  msgs_sent,         \* monitoring_msgs_sent: subject -> no, recent or old
  merge_buf,         \* local_merge_buf: the calls whose messages it holds
  alarm_buf,         \* the alarms remembered
  alarm_age,         \* time since each was last sent: see AlarmAges
  at,                \* where each thread is
  doing,             \* what it is called for: log, mon, alarm or buffer
  what,              \* with which message, subject or alarm
  id,                \* and which call that is
  nested,            \* threads that flush for a report of their own
  calls,             \* the calls made so far
  crashed,           \* two threads wrote local_merge_buf at the same time
  unsent,            \* history: calls whose message was put into logging_buf and
                     \* has not been sent since
  failed,            \* history: calls whose message it has failed to send
  disturbed,         \* history: threads whose batch another thread touched
  raced,             \* history: calls lost by such a batch
  pruned             \* history: alarms forgotten in the second they were sent in,
                     \* while they are not old

logVars == <<logging_buf, logging_bytes>>
monVars == <<monitoring_buf, monitoring_bytes, msgs_sent>>
lockVars == <<logging_mtx, monitoring_mtx>>
alarmVars == <<alarm_buf, alarm_age, pruned>>
threadVars == <<at, doing, what, id, nested>>
batchHistory == <<failed, raced>>
vars == <<logVars, monVars, lockVars, merge_buf, alarmVars, threadVars, calls,
          crashed, unsent, batchHistory, disturbed>>

(* "second" is the second of the clock an alarm is sent in, then it is     *)
(* fresh until alarm_cooldown_ms; one never sent is old.                   *)
AlarmAges == {"second", "fresh", "old"}

(* The places of BatchAndSendMulticast between which another thread runs.  *)
Merging == {"lock_log", "merge_log", "check_log", "send_log", "report_log",
            "clear_again", "lock_mon", "merge_mon", "check_mon", "send_mon",
            "report_mon"}
(* Those at which local_merge_buf is used.                                 *)
Touching == {"clear", "merge_log", "check_log", "send_log", "clear_again",
             "merge_mon", "check_mon", "send_mon"}

(* Where a report is written with a lock held: of a multicast, and of a    *)
(* message or value that is too long.                                      *)
ReportingPlaces == {"report_log", "report_mon", "long_log", "long_mon"}
Places == Merging \cup ReportingPlaces \cup
          {"idle", "clear", "prune", "return", "send_alarm"}

(* In the place of a call, a report.                                       *)
AReport == MaxCalls + 1

BufferedLogs == UNION {logging_buf[i].calls : i \in DOMAIN logging_buf}

(* Bugs: definitions marked Faulty are plausible mistakes in the code, for *)
(* the properties to find.                                                 *)
FaultyBufferedValues == {monitoring_buf[s] : s \in Subjects}

BufferedValues == {monitoring_buf[s] : s \in Subjects} \ {0}

Init ==
  /\ logging_buf = <<>> /\ logging_bytes = 0
  /\ logging_mtx = None /\ monitoring_mtx = None
  /\ monitoring_buf = [s \in Subjects |-> 0] /\ monitoring_bytes = 0
  /\ msgs_sent = [s \in Subjects |-> "no"]
  /\ merge_buf = {}
  /\ alarm_buf = {} /\ alarm_age = [a \in Alarms |-> "old"] /\ pruned = {}
  /\ at = [t \in Threads |-> "idle"]
  /\ doing = [t \in Threads |-> IF t = Buffer THEN "buffer" ELSE "none"]
  /\ what = [t \in Threads |-> None]
  /\ id = [t \in Threads |-> 0]
  /\ nested = {}
  /\ calls = 0
  /\ crashed = FALSE
  /\ unsent = {} /\ failed = {} /\ raced = {}
  /\ disturbed = {}

----------------------------------------------------------------------------
(* SendLog.                                                                *)

Fits(m, bytes) == Bytes[m] + bytes <= MSS_SIZE

(* A call begins as soon as it has the lock.                               *)
Call(t) ==
  /\ at[t] = "idle"
  /\ calls < MaxCalls
  /\ calls' = calls + 1

BeginFlush(t, kind, m) ==
  /\ at' = [at EXCEPT ![t] = "clear"]
  /\ doing' = [doing EXCEPT ![t] = kind]
  /\ what' = [what EXCEPT ![t] = m]

Repeats(m) ==
  logging_buf # <<>> /\ logging_buf[Len(logging_buf)].message = m

Repeat(call) ==
  logging_buf' = [logging_buf EXCEPT ![Len(logging_buf)].calls = @ \cup {call}]

Put(m, call) ==
  /\ logging_buf' = Append(logging_buf, [message |-> m, calls |-> {call}])
  /\ logging_bytes' = logging_bytes + Bytes[m]

PutLog(m, call) == Put(m, call) /\ unsent' = unsent \cup {call}

SendLogRepeat(t, m) ==
  /\ Call(t)
  /\ logging_mtx = None
  /\ Repeats(m)
  /\ Repeat(calls')
  /\ unsent' = unsent \cup {calls'}
  /\ UNCHANGED <<logging_bytes, monVars, lockVars, merge_buf, alarmVars,
                 threadVars, crashed, batchHistory, disturbed>>

SendLog(t, m) ==
  /\ Call(t)
  /\ logging_mtx = None
  /\ ~Repeats(m)
  /\ Fits(m, logging_bytes)
  /\ PutLog(m, calls')
  /\ UNCHANGED <<monVars, lockVars, merge_buf, alarmVars, threadVars, crashed,
                 batchHistory, disturbed>>

(* It does not fit: the batch is sent first, with the lock held.           *)
SendLogFull(t, m) ==
  /\ Call(t)
  /\ logging_mtx = None
  /\ ~Repeats(m)
  /\ ~Fits(m, logging_bytes)
  /\ logging_mtx' = t
  /\ BeginFlush(t, "log", m)
  /\ id' = [id EXCEPT ![t] = calls']
  /\ UNCHANGED <<logVars, monVars, monitoring_mtx, merge_buf, alarmVars, nested,
                 crashed, unsent, batchHistory, disturbed>>

(* A message longer than a datagram is none of Messages.  It is refused:   *)
(* silently, which changes nothing, or with a report, which this thread's  *)
(* own lock keeps from ever being written.                                 *)
SendLogTooLong(t) ==
  /\ Call(t)
  /\ logging_mtx = None
  /\ logging_mtx' = t
  /\ at' = [at EXCEPT ![t] = "long_log"]
  /\ doing' = [doing EXCEPT ![t] = "log"]
  /\ UNCHANGED <<logVars, monVars, monitoring_mtx, merge_buf, alarmVars, what,
                 id, nested, crashed, unsent, batchHistory, disturbed>>

ReturnToIdle(t) ==
  /\ at' = [at EXCEPT ![t] = "idle"]
  /\ doing' = [doing EXCEPT ![t] = IF t = Buffer THEN "buffer" ELSE "none"]
  /\ what' = [what EXCEPT ![t] = None]
  /\ id' = [id EXCEPT ![t] = 0]
  /\ UNCHANGED nested

(* Bug: the lock is given back before the message is put into the buffer,  *)
(* which another thread empties meanwhile.                                 *)
FaultySendLogReturn(t) ==
  /\ at[t] = "return"
  /\ doing[t] = "log"
  /\ unsent' = unsent \cup {id[t]}
  /\ logging_mtx' = None
  /\ ReturnToIdle(t)
  /\ disturbed' = disturbed \ {t}
  /\ UNCHANGED <<logVars, monVars, monitoring_mtx, merge_buf, alarmVars, calls,
                 crashed, batchHistory>>


SendLogReturn(t) ==
  /\ at[t] = "return"
  /\ doing[t] = "log"
  /\ PutLog(what[t], id[t])
  /\ logging_mtx' = None
  /\ ReturnToIdle(t)
  /\ disturbed' = disturbed \ {t}
  /\ UNCHANGED <<monVars, monitoring_mtx, merge_buf, alarmVars, calls,
                 crashed, batchHistory>>

----------------------------------------------------------------------------
(* SendMonitoringData.                                                     *)

(* ts - it->second is unsigned: a value with an earlier time passes.       *)
Merged(s, earlier) == msgs_sent[s] = "recent" /\ ~earlier

(* emplace replaces nothing: of two values of a subject the older is kept, *)
(* and the time of the older, while the bytes are those of both.           *)
PutValue(s, call) ==
  /\ monitoring_buf' = [monitoring_buf EXCEPT ![s] = IF @ = 0 THEN call ELSE @]
  /\ msgs_sent' = [msgs_sent EXCEPT ![s] = IF @ = "no" THEN "recent" ELSE @]
  /\ monitoring_bytes' = monitoring_bytes + Bytes[s]

SendMonitoringMerged(t, s) ==
  /\ Call(t)
  /\ monitoring_mtx = None
  /\ Merged(s, FALSE)
  /\ UNCHANGED <<logVars, monVars, lockVars, merge_buf, alarmVars, threadVars,
                 crashed, unsent, batchHistory, disturbed>>

SendMonitoringData(t, s, earlier) ==
  /\ Call(t)
  /\ monitoring_mtx = None
  /\ ~Merged(s, earlier)
  /\ Fits(s, monitoring_bytes)
  /\ PutValue(s, calls')
  /\ UNCHANGED <<logVars, lockVars, merge_buf, alarmVars, threadVars, crashed,
                 unsent, batchHistory, disturbed>>

SendMonitoringFull(t, s, earlier) ==
  /\ Call(t)
  /\ monitoring_mtx = None
  /\ ~Merged(s, earlier)
  /\ ~Fits(s, monitoring_bytes)
  /\ monitoring_mtx' = t
  /\ BeginFlush(t, "mon", s)
  /\ id' = [id EXCEPT ![t] = calls']
  /\ UNCHANGED <<logVars, monVars, logging_mtx, merge_buf, alarmVars, nested,
                 crashed, unsent, batchHistory, disturbed>>

(* A value longer than a datagram, of whatever subject, is refused with a  *)
(* report.                                                                 *)
SendMonitoringTooLong(t, s, earlier) ==
  /\ Call(t)
  /\ monitoring_mtx = None
  /\ ~Merged(s, earlier)
  /\ monitoring_mtx' = t
  /\ at' = [at EXCEPT ![t] = "long_mon"]
  /\ doing' = [doing EXCEPT ![t] = "mon"]
  /\ UNCHANGED <<logVars, monVars, logging_mtx, merge_buf, alarmVars, what, id,
                 nested, crashed, unsent, batchHistory, disturbed>>

SendMonitoringReturn(t) ==
  /\ at[t] = "return"
  /\ doing[t] = "mon"
  /\ PutValue(what[t], id[t])
  /\ monitoring_mtx' = None
  /\ ReturnToIdle(t)
  /\ disturbed' = disturbed \ {t}
  /\ UNCHANGED <<logVars, logging_mtx, merge_buf, alarmVars, calls, crashed,
                 unsent, batchHistory>>

(* mon_merge_period_ms passes.                                             *)
MergePeriodEnds(s) ==
  /\ msgs_sent[s] = "recent"
  /\ msgs_sent' = [msgs_sent EXCEPT ![s] = "old"]
  /\ UNCHANGED <<logVars, monitoring_buf, monitoring_bytes, lockVars,
                 merge_buf, alarmVars, threadVars, calls, crashed, unsent,
                 batchHistory, disturbed>>

----------------------------------------------------------------------------
(* BatchAndSendMulticast, called by the buffer thread with neither lock,   *)
(* by SendLog with the logging lock, by SendMonitoringData with the other. *)

Goto(t, where) == at' = [at EXCEPT ![t] = where]
HoldsLog(t) == doing[t] = "log"
HoldsMonitoring(t) == doing[t] = "mon"

(* local_merge_buf is written under whatever locks the thread has.         *)
SetMergeBuf(t, value) ==
  /\ merge_buf' = value
  /\ disturbed' = disturbed \cup {u \in Threads \ {t} : at[u] \in Merging}

Wake ==
  /\ at[Buffer] = "idle"
  /\ Goto(Buffer, "clear")
  /\ UNCHANGED <<logVars, monVars, lockVars, merge_buf, alarmVars, doing,
                 what, id, nested, calls, crashed, unsent, batchHistory,
                 disturbed>>

(* The string is cleared before the lock is asked for.                     *)
Clear(t) ==
  /\ at[t] = "clear"
  /\ SetMergeBuf(t, {})
  /\ Goto(t, IF HoldsLog(t) THEN "merge_log" ELSE "lock_log")
  /\ UNCHANGED <<logVars, monVars, lockVars, alarmVars, doing, what, id,
                 nested, calls, crashed, unsent, batchHistory>>

(* Bug: the buffer thread asks for no lock.                                *)
FaultyLockLog(t) ==
  /\ at[t] = "lock_log"
  /\ Goto(t, "merge_log")
  /\ UNCHANGED <<logVars, monVars, lockVars, merge_buf, alarmVars, doing,
                 what, id, nested, calls, crashed, unsent, batchHistory,
                 disturbed>>


LockLog(t) ==
  /\ at[t] = "lock_log"
  /\ logging_mtx = None
  /\ logging_mtx' = t
  /\ Goto(t, "merge_log")
  /\ UNCHANGED <<logVars, monVars, monitoring_mtx, merge_buf, alarmVars,
                 doing, what, id, nested, calls, crashed, unsent, batchHistory,
                 disturbed>>

MergeLog(t) ==
  /\ at[t] = "merge_log"
  /\ SetMergeBuf(t, merge_buf \cup BufferedLogs)
  /\ Goto(t, "check_log")
  /\ UNCHANGED <<logVars, monVars, lockVars, alarmVars, doing, what, id,
                 nested, calls, crashed, unsent, batchHistory>>

(* if(!m_args->local_merge_buf.empty()), and the read of it that follows.  *)
CheckLog(t) ==
  /\ at[t] = "check_log"
  /\ Goto(t, IF merge_buf = {} THEN "clear_again" ELSE "send_log")
  /\ UNCHANGED <<logVars, monVars, lockVars, merge_buf, alarmVars, doing,
                 what, id, nested, calls, crashed, unsent, batchHistory,
                 disturbed>>

(* SendMulticast may fail, and what it returns is ignored.                 *)
SendMulticast ==
  \/ unsent' = unsent \ merge_buf /\ UNCHANGED failed
  \/ failed' = failed \cup (merge_buf \cap unsent) /\ UNCHANGED unsent

SendBatchLog(t) ==
  /\ at[t] = "send_log"
  /\ SendMulticast
  /\ raced' = IF t \in disturbed THEN raced \cup ((BufferedLogs \cap unsent) \ merge_buf)
              ELSE raced
  /\ logging_buf' = <<>>
  /\ logging_bytes' = 0
  /\ Goto(t, "clear_again")
  /\ UNCHANGED <<monVars, lockVars, merge_buf, alarmVars, doing, what, id,
                 nested, calls, crashed, disturbed>>

(* Bug: the logging lock is kept until the end of the function.            *)
FaultyClearAgain(t) ==
  /\ at[t] = "clear_again"
  /\ SetMergeBuf(t, {})
  /\ Goto(t, IF HoldsMonitoring(t) THEN "merge_mon" ELSE "lock_mon")
  /\ UNCHANGED <<logVars, monVars, lockVars, alarmVars, doing, what, id,
                 nested, calls, crashed, unsent, batchHistory>>

(* The lock taken here is given back, that of the caller is not.           *)
ClearAgain(t) ==
  /\ at[t] = "clear_again"
  /\ SetMergeBuf(t, {})
  /\ logging_mtx' = IF HoldsLog(t) THEN logging_mtx ELSE None
  /\ Goto(t, IF HoldsMonitoring(t) THEN "merge_mon" ELSE "lock_mon")
  /\ UNCHANGED <<logVars, monVars, monitoring_mtx, alarmVars, doing, what, id,
                 nested, calls, crashed, unsent, batchHistory>>

LockMonitoring(t) ==
  /\ at[t] = "lock_mon"
  /\ monitoring_mtx = None
  /\ monitoring_mtx' = t
  /\ Goto(t, "merge_mon")
  /\ UNCHANGED <<logVars, monVars, logging_mtx, merge_buf, alarmVars, doing,
                 what, id, nested, calls, crashed, unsent, batchHistory,
                 disturbed>>

MergeMonitoring(t) ==
  /\ at[t] = "merge_mon"
  /\ SetMergeBuf(t, merge_buf \cup BufferedValues)
  /\ Goto(t, "check_mon")
  /\ UNCHANGED <<logVars, monVars, lockVars, alarmVars, doing, what, id,
                 nested, calls, crashed, unsent, batchHistory>>

CheckMonitoring(t) ==
  /\ at[t] = "check_mon"
  /\ Goto(t, IF merge_buf = {} THEN "prune" ELSE "send_mon")
  /\ UNCHANGED <<logVars, monVars, lockVars, merge_buf, alarmVars, doing,
                 what, id, nested, calls, crashed, unsent, batchHistory,
                 disturbed>>

ClearMonitoring(t) ==
  /\ monitoring_buf' = [s \in Subjects |-> 0]
  /\ monitoring_bytes' = 0
  /\ msgs_sent' = IF HoldsMonitoring(t) THEN msgs_sent
                  ELSE [s \in Subjects |-> "no"]

SendBatchMonitoring(t) ==
  /\ at[t] = "send_mon"
  /\ SendMulticast
  /\ ClearMonitoring(t)
  /\ Goto(t, "prune")
  /\ UNCHANGED <<logVars, lockVars, merge_buf, alarmVars, doing, what, id,
                 nested, calls, crashed, raced, disturbed>>

(* Bug: the buffer thread does not come back for another round.            *)
FaultyPrune(t) ==
  /\ at[t] = "prune"
  /\ monitoring_mtx' = IF HoldsMonitoring(t) THEN monitoring_mtx ELSE None
  /\ alarm_buf' = {a \in alarm_buf : alarm_age[a] = "fresh"}
  /\ pruned' = pruned \cup {a \in alarm_buf : alarm_age[a] = "second"}
  /\ disturbed' = disturbed \ ({t} \cap {Buffer})
  /\ Goto(t, "return")
  /\ UNCHANGED <<logVars, monVars, logging_mtx, merge_buf, alarm_age, doing,
                 what, id, nested, calls, crashed, unsent, batchHistory>>

(* (time(0)*1000) - timestamp is unsigned, and time(0) is in seconds: an   *)
(* alarm of the current second wraps and is forgotten as if it were old.   *)
Prune(t) ==
  /\ at[t] = "prune"
  /\ monitoring_mtx' = IF HoldsMonitoring(t) THEN monitoring_mtx ELSE None
  /\ alarm_buf' = {a \in alarm_buf : alarm_age[a] = "fresh"}
  /\ pruned' = pruned \cup {a \in alarm_buf : alarm_age[a] = "second"}
  /\ disturbed' = disturbed \ ({t} \cap {Buffer})
  /\ Goto(t, IF t = Buffer THEN "idle" ELSE "return")
  /\ UNCHANGED <<logVars, monVars, logging_mtx, merge_buf, alarm_age, doing,
                 what, id, nested, calls, crashed, unsent, batchHistory>>

(* Two threads in one string at a time may corrupt the process's memory.   *)
Crash(t, u) ==
  /\ t # u
  /\ {at[t], at[u]} \subseteq Touching
  /\ crashed' = TRUE
  /\ UNCHANGED <<logVars, monVars, lockVars, merge_buf, alarmVars, threadVars,
                 calls, unsent, batchHistory, disturbed>>

----------------------------------------------------------------------------
(* A report written with a lock held: SendLog, called within the call.     *)
(* What it sends is the time of day, one of Messages.  A multicast is      *)
(* reported when it fails, and, with m_verbosity above 10, before it is    *)
(* tried.  Reports written with neither lock are calls like any other.     *)

ReportMulticast(t) ==
  /\ at[t] \in {"send_log", "send_mon"}
  /\ Goto(t, IF at[t] = "send_log" THEN "report_log" ELSE "report_mon")
  /\ UNCHANGED <<logVars, monVars, lockVars, merge_buf, alarmVars, doing, what,
                 id, nested, calls, crashed, unsent, batchHistory, disturbed>>

(* From "report_log" and "long_log" no step leads on: the thread has       *)
(* logging_buf_mtx.                                                        *)
Reports(t) == at[t] \in {"report_mon", "long_mon"} /\ logging_mtx = None

(* BatchAndSendMulticast goes on as without the report, and                *)
(* SendMonitoringData returns false.                                       *)
AfterReport(t) ==
  \/ /\ at[t] = "report_mon"
     /\ SendMulticast
     /\ ClearMonitoring(t)
     /\ Goto(t, "prune")
     /\ UNCHANGED <<monitoring_mtx, doing, what, id, nested>>
  \/ /\ at[t] = "long_mon"
     /\ monitoring_mtx' = None
     /\ ReturnToIdle(t)
     /\ UNCHANGED <<monVars, unsent, failed>>

ReportRepeat(t, m) ==
  /\ Reports(t)
  /\ Repeats(m)
  /\ Repeat(AReport)
  /\ AfterReport(t)
  /\ UNCHANGED <<logging_bytes, logging_mtx, merge_buf, alarmVars, calls,
                 crashed, raced, disturbed>>

Report(t, m) ==
  /\ Reports(t)
  /\ ~Repeats(m)
  /\ Fits(m, logging_bytes)
  /\ Put(m, AReport)
  /\ AfterReport(t)
  /\ UNCHANGED <<logging_mtx, merge_buf, alarmVars, calls, crashed,
                 raced, disturbed>>

(* A flush within the call: it will ask for the monitoring lock.           *)
ReportFull(t, m) ==
  /\ Reports(t)
  /\ ~Repeats(m)
  /\ ~Fits(m, logging_bytes)
  /\ logging_mtx' = t
  /\ BeginFlush(t, "log", m)
  /\ id' = [id EXCEPT ![t] = AReport]
  /\ nested' = nested \cup {t}
  /\ disturbed' = disturbed \ {t}
  /\ UNCHANGED <<logVars, monVars, monitoring_mtx, merge_buf, alarmVars, calls,
                 crashed, unsent, batchHistory>>

----------------------------------------------------------------------------
(* SendAlarm.                                                              *)

OldAlarms == {a \in alarm_buf : alarm_age[a] = "old"}

(* The scan stops at an entry of the same alarm: old ones after it stay.   *)
SendAlarmAgain(t, a, erased) ==
  /\ at[t] = "idle"
  /\ t \in Users
  /\ a \in alarm_buf \ OldAlarms
  /\ alarm_buf' = alarm_buf \ erased
  /\ UNCHANGED <<logVars, monVars, lockVars, merge_buf, alarm_age, pruned,
                 threadVars, calls, crashed, unsent, batchHistory, disturbed>>

(* Bug: an alarm is remembered only once it has been sent.                 *)
FaultySendAlarm(t, a) ==
  /\ at[t] = "idle"
  /\ t \in Users
  /\ a \notin alarm_buf \ OldAlarms
  /\ alarm_buf' = alarm_buf \ OldAlarms
  /\ alarm_age' = [alarm_age EXCEPT ![a] = "second"]
  /\ pruned' = pruned \ {a}
  /\ at' = [at EXCEPT ![t] = "send_alarm"]
  /\ doing' = [doing EXCEPT ![t] = "alarm"]
  /\ what' = [what EXCEPT ![t] = a]
  /\ UNCHANGED <<logVars, monVars, lockVars, merge_buf, id, nested, calls,
                 crashed, unsent, batchHistory, disturbed>>

(* It is remembered before it is sent.                                     *)
SendAlarm(t, a) ==
  /\ at[t] = "idle"
  /\ t \in Users
  /\ a \notin alarm_buf \ OldAlarms
  /\ alarm_buf' = (alarm_buf \ OldAlarms) \cup {a}
  /\ alarm_age' = [alarm_age EXCEPT ![a] = "second"]
  /\ pruned' = pruned \ {a}
  /\ at' = [at EXCEPT ![t] = "send_alarm"]
  /\ doing' = [doing EXCEPT ![t] = "alarm"]
  /\ what' = [what EXCEPT ![t] = a]
  /\ UNCHANGED <<logVars, monVars, lockVars, merge_buf, id, nested, calls,
                 crashed, unsent, batchHistory, disturbed>>

(* SendCommand and SendMulticast have returned, whatever they returned.    *)
AlarmReturn(t) ==
  /\ at[t] = "send_alarm"
  /\ ReturnToIdle(t)
  /\ UNCHANGED <<logVars, monVars, lockVars, merge_buf, alarmVars, calls,
                 crashed, unsent, batchHistory, disturbed>>

Age(a) ==
  /\ alarm_age[a] \in {"second", "fresh"}
  /\ alarm_age' =
       [alarm_age EXCEPT ![a] = IF @ = "second" THEN "fresh" ELSE "old"]
  /\ pruned' = IF alarm_age[a] = "second" THEN pruned ELSE pruned \ {a}
  /\ UNCHANGED <<logVars, monVars, lockVars, merge_buf, alarm_buf, threadVars,
                 calls, crashed, unsent, batchHistory, disturbed>>

----------------------------------------------------------------------------
Flush(t) ==
  \/ Clear(t)
  \/ LockLog(t)
  \/ MergeLog(t)
  \/ CheckLog(t)
  \/ SendBatchLog(t)
  \/ ClearAgain(t)
  \/ LockMonitoring(t)
  \/ MergeMonitoring(t)
  \/ CheckMonitoring(t)
  \/ SendBatchMonitoring(t)
  \/ Prune(t)

GoOnReporting(t) ==
  \E m \in Messages : ReportRepeat(t, m) \/ Report(t, m) \/ ReportFull(t, m)

UserCalls(t) ==
  \/ SendLogTooLong(t)
  \/ \E m \in Messages :
       SendLogRepeat(t, m) \/ SendLog(t, m) \/ SendLogFull(t, m)
  \/ \E s \in Subjects : SendMonitoringMerged(t, s)
  \/ \E s \in Subjects, earlier \in BOOLEAN :
       \/ SendMonitoringData(t, s, earlier)
       \/ SendMonitoringFull(t, s, earlier)
       \/ SendMonitoringTooLong(t, s, earlier)
  \/ \E a \in Alarms :
       \/ SendAlarm(t, a)
       \/ \E erased \in SUBSET OldAlarms : SendAlarmAgain(t, a, erased)

Returns(t) == SendLogReturn(t) \/ SendMonitoringReturn(t) \/ AlarmReturn(t)

Time ==
  \/ \E s \in Subjects : MergePeriodEnds(s)
  \/ \E a \in Alarms : Age(a)

Next ==
  /\ ~crashed
  /\ \/ \E t \in Threads : Flush(t) \/ ReportMulticast(t) \/ GoOnReporting(t)
     \/ \E t \in Users : UserCalls(t) \/ Returns(t)
     \/ Wake
     \/ Time
     \/ \E t, u \in Threads : Crash(t, u)

Spec == Init /\ [][Next]_vars

(* Threads go on, and the buffer thread wakes after its period.            *)
FairSpec ==
  /\ Spec
  /\ \A t \in Threads : WF_vars(~crashed /\ (Flush(t) \/ GoOnReporting(t)))
  /\ \A t \in Users : WF_vars(~crashed /\ Returns(t))
  /\ WF_vars(~crashed /\ Wake)

----------------------------------------------------------------------------
(* Properties.                                                             *)

LogEntries == [message : Messages, calls : SUBSET (Calls \cup {AReport})]

(* Every variable has its type.                                            *)
TypeOK ==
  /\ logging_buf \in Seq(LogEntries) /\ logging_bytes \in Nat
  /\ logging_mtx \in Threads \cup {None}
  /\ monitoring_mtx \in Threads \cup {None}
  /\ monitoring_buf \in [Subjects -> Calls \cup {0}]
  /\ monitoring_bytes \in Nat
  /\ msgs_sent \in [Subjects -> {"no", "recent", "old"}]
  /\ merge_buf \subseteq Calls \cup {AReport}
  /\ alarm_buf \subseteq Alarms
  /\ alarm_age \in [Alarms -> AlarmAges]
  /\ pruned \subseteq Alarms
  /\ at \in [Threads -> Places]
  /\ doing \in [Threads -> {"none", "log", "mon", "alarm", "buffer"}]
  /\ what \in [Threads -> Messages \cup Subjects \cup Alarms \cup {None}]
  /\ id \in [Threads -> Calls \cup {0, AReport}]
  /\ nested \subseteq Threads
  /\ calls \in Calls \cup {0}
  /\ crashed \in BOOLEAN
  /\ unsent \subseteq Calls /\ failed \subseteq Calls /\ raced \subseteq Calls
  /\ disturbed \subseteq Threads

WaitsFor(t, u) ==
  \/ at[t] \in {"lock_log"} \cup ReportingPlaces /\ logging_mtx = u
  \/ at[t] = "lock_mon" /\ monitoring_mtx = u

Reporting(t) == at[t] \in ReportingPlaces \/ t \in nested

(* BatchAndSendMulticast gives the logging lock back before it asks for    *)
(* the monitoring lock, if it took it: unless a report is written with a   *)
(* lock held, of a multicast or of a message that is too long, of two      *)
(* threads that wait for each other one is a SendLog and one a             *)
(* SendMonitoringData with a full batch, and never the buffer thread.      *)
OnlyFullSendersDeadlock ==
  \A t, u \in Threads :
    /\ WaitsFor(t, u) /\ WaitsFor(u, t)
    /\ ~Reporting(t) /\ ~Reporting(u)
    => {doing[t], doing[u]} = {"log", "mon"}

(* A flush whose string no other thread touched sends what is in the       *)
(* buffer it is about to clear, nothing less and nothing of another topic, *)
(* and a sender whose message did not fit finds an empty buffer when it    *)
(* returns: a batch is over the size only if it is a single message.       *)
UndisturbedFlush ==
  \A t \in Threads \ disturbed :
    /\ at[t] = "send_log" => merge_buf = BufferedLogs
    /\ at[t] = "send_mon" => merge_buf = BufferedValues
    /\ at[t] = "return" /\ doing[t] = "log" =>
         logging_buf = <<>> /\ logging_bytes = 0

(* A log message that SendLog accepted and no multicast has sent is still  *)
(* buffered, or has been lost: because the multicast of its batch failed,  *)
(* or because another thread had written to the string of the flush that   *)
(* cleared the buffer.                                                     *)
AcceptedLogsAccountedFor ==
  unsent \subseteq BufferedLogs \cup failed \cup raced

(* The alarm's command is on its way once the thread is at "send_alarm".   *)
SendsAlarm(a) ==
  \E t \in Users : at[t] # "send_alarm" /\ at'[t] = "send_alarm" /\ what'[t] = a

(* An alarm is not sent again within its cooldown, whichever threads raise *)
(* it, unless a flush within the second of its first sending forgot it.    *)
AlarmSentOnce ==
  [][\A a \in Alarms \ pruned :
       SendsAlarm(a) => alarm_age[a] = "old"]_vars

Deadlocked == \E t, u \in Threads : WaitsFor(t, u) /\ WaitsFor(u, t)

(* No log message stays in the buffer for ever: the buffer thread empties  *)
(* it however little is logged, unless a thread waits for itself or two    *)
(* for each other, or the process has died of the race.                    *)
LogsLeaveBuffer ==
  logging_buf # <<>> ~> (logging_buf = <<>> \/ crashed \/ Deadlocked)

(* What the comment at SendLog's call of BatchAndSendMulticast says: it    *)
(* does not try to lock the buffer whose lock the caller has.              *)
NeverLocksTwice ==
  \A t \in Threads : doing[t] = "log" /\ at[t] \in Merging => ~WaitsFor(t, t)
============================================================================
