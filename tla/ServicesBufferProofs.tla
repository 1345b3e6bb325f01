------------------------ MODULE ServicesBufferProofs ------------------------
(***************************************************************************)
(* Proofs about ServicesBuffer, for any users, messages and subjects.      *)
(***************************************************************************)
EXTENDS ServicesBuffer, SequenceTheorems, TLAPS

(* The places are sets of strings, and expanded everywhere.                *)
USE DEF Places, ReportingPlaces

----------------------------------------------------------------------------
(* Type correctness.  What a thread is called for goes with where it is.   *)

(* Where a thread may be that flushes for a report.                        *)
NestedPlaces == {"clear", "merge_log", "check_log", "send_log", "report_log",
                 "clear_again", "lock_mon"}

WorkInv ==
  \A t \in Threads :
    /\ doing[t] = "buffer" => t = Buffer
    /\ t = Buffer => doing[t] = "buffer" \/ t \in nested
    /\ t \in nested => doing[t] = "log" /\ at[t] \in NestedPlaces
    /\ doing[t] = "none" => at[t] = "idle"
    /\ at[t] = "idle" => doing[t] \in {"none", "buffer"}
    /\ doing[t] = "alarm" <=> at[t] = "send_alarm"
    /\ at[t] = "return" => doing[t] \in {"log", "mon"}
    /\ at[t] = "long_log" => doing[t] = "log"
    /\ at[t] = "long_mon" => doing[t] = "mon"
    /\ doing[t] = "log" /\ at[t] # "long_log" => what[t] \in Messages
    /\ doing[t] = "log" => at[t] # "lock_log"
    /\ doing[t] = "log" /\ at[t] # "long_log" => t \in nested \/ id[t] \in Calls
    /\ doing[t] = "mon" /\ at[t] # "long_mon" => what[t] \in Subjects /\ id[t] \in Calls
    /\ doing[t] = "mon" => at[t] # "lock_mon"

TypeInv == TypeOK /\ WorkInv

(* The locks.  A full sender has its lock from the call to the return, any *)
(* other flush a lock for each half of BatchAndSendMulticast; a thread     *)
(* that reports a multicast has the lock of that half, and one that        *)
(* reports a message too long the lock of its call.                        *)

HasLoggingLock(t) ==
  \/ doing[t] = "log"
  \/ at[t] \in {"merge_log", "check_log", "send_log", "report_log", "clear_again"}
HasMonitoringLock(t) ==
  \/ doing[t] = "mon" \/ t \in nested
  \/ at[t] \in {"merge_mon", "check_mon", "send_mon", "report_mon", "prune"}

LockInv ==
  \A t \in Threads :
    /\ logging_mtx = t <=> HasLoggingLock(t)
    /\ monitoring_mtx = t <=> HasMonitoringLock(t)

LEMMA TypeInvInit == Init => TypeInv
<1> SUFFICES ASSUME Init PROVE TypeInv
  OBVIOUS
<1>1. logging_buf \in Seq(LogEntries)
  BY DEF Init
<1>2. doing \in [Threads -> {"none", "buffer"}] /\ at \in [Threads -> {"idle"}]
  BY DEF Init
<1>3. what \in [Threads -> {None}] /\ id \in [Threads -> {0}]
  BY DEF Init
<1>4. WorkInv
  BY <1>2 DEF Init, WorkInv
<1>5. alarm_age \in [Alarms -> AlarmAges]
  BY DEF Init, AlarmAges
<1>6. crashed \in BOOLEAN
  BY DEF Init
<1> QED
  BY <1>1, <1>2, <1>3, <1>4, <1>5, <1>6 DEF Init, TypeInv, TypeOK

LEMMA NextCases ==
  ASSUME [Next]_vars
  PROVE  \/ \E t \in Threads : Flush(t) \/ ReportMulticast(t) \/ GoOnReporting(t)
         \/ \E t \in Users : UserCalls(t) \/ Returns(t)
         \/ Wake \/ Time \/ UNCHANGED vars
         \/ \E t, u \in Threads : Crash(t, u)
BY DEF Next

LEMMA BytesAreNatural ==
  ASSUME NEW m \in Messages \cup Subjects
  PROVE  Bytes[m] \in Nat /\ Bytes[m] > 0
BY SizesOK

LEMMA PutType ==
  ASSUME TypeOK, NEW m \in Messages, NEW call \in Calls \cup {AReport}, Put(m, call)
  PROVE  logging_buf' \in Seq(LogEntries) /\ logging_bytes' \in Nat
<1>1. [message |-> m, calls |-> {call}] \in LogEntries
  BY DEF LogEntries
<1> QED
  BY <1>1, BytesAreNatural DEF Put, TypeOK

LEMMA RepeatType ==
  ASSUME TypeOK, NEW m \in Messages, NEW call \in Calls \cup {AReport},
         Repeats(m), Repeat(call)
  PROVE  logging_buf' \in Seq(LogEntries)
<1> DEFINE last == Len(logging_buf)
<1>1. last \in DOMAIN logging_buf /\ logging_buf[last] \in LogEntries
  BY DEF Repeats, TypeOK
<1>2. [logging_buf[last] EXCEPT !.calls = @ \cup {call}] \in LogEntries
  BY <1>1 DEF LogEntries
<1>3. logging_buf' = [logging_buf EXCEPT ![last] =
                        [logging_buf[last] EXCEPT !.calls = @ \cup {call}]]
  BY DEF Repeat
<1> QED
  BY <1>1, <1>2, <1>3 DEF TypeOK

LEMMA PutValueType ==
  ASSUME TypeOK, NEW s \in Subjects, NEW call \in Calls, PutValue(s, call)
  PROVE  /\ monitoring_buf' \in [Subjects -> Calls \cup {0}] /\ monitoring_bytes' \in Nat
         /\ msgs_sent' \in [Subjects -> {"no", "recent", "old"}]
<1>1. monitoring_bytes' \in Nat
  BY BytesAreNatural DEF PutValue, TypeOK
<1> QED
  BY <1>1 DEF PutValue, TypeOK

LEMMA TypeInvUsers ==
  ASSUME TypeInv, NEW t \in Users, UserCalls(t) \/ Returns(t)
  PROVE  TypeInv'
<1> USE UsersOK DEF TypeInv, logVars, monVars, lockVars, alarmVars, threadVars,
                    batchHistory, Threads
<1>1. calls' = calls + 1 /\ calls < MaxCalls => calls' \in Calls
  BY SizesOK DEF TypeOK, Calls
<1>2. ASSUME NEW m \in Messages, SendLogRepeat(t, m) PROVE TypeInv'
  <2>1. calls' \in Calls
    BY <1>1, <1>2 DEF SendLogRepeat, Call
  <2>2. logging_buf' \in Seq(LogEntries)
    BY <1>2, <2>1, RepeatType DEF SendLogRepeat
  <2> QED
    BY <1>2, <2>1, <2>2 DEF SendLogRepeat, TypeOK, WorkInv
<1>3. ASSUME NEW m \in Messages, SendLog(t, m) PROVE TypeInv'
  <2>1. calls' \in Calls
    BY <1>1, <1>3 DEF SendLog, Call
  <2>2. /\ logging_buf' \in Seq(LogEntries) /\ logging_bytes' \in Nat
        /\ unsent' \subseteq Calls
    BY <1>3, <2>1, PutType DEF SendLog, PutLog, TypeOK
  <2> QED
    BY <1>3, <2>1, <2>2 DEF SendLog, TypeOK, WorkInv
<1>4. ASSUME NEW m \in Messages, SendLogFull(t, m) PROVE TypeInv'
  <2>1. calls' \in Calls
    BY <1>1, <1>4 DEF SendLogFull, Call
  <2>2. WorkInv'
    BY <1>4, <2>1 DEF SendLogFull, BeginFlush, WorkInv, NestedPlaces, TypeOK
  <2> QED
    BY <1>4, <2>1, <2>2 DEF SendLogFull, BeginFlush, TypeOK
<1>5. ASSUME NEW s \in Subjects, SendMonitoringMerged(t, s) PROVE TypeInv'
  BY <1>1, <1>5 DEF SendMonitoringMerged, Call, TypeOK, WorkInv
<1>6. ASSUME NEW s \in Subjects, NEW earlier \in BOOLEAN, SendMonitoringData(t, s, earlier)
      PROVE  TypeInv'
  <2>1. calls' \in Calls
    BY <1>1, <1>6 DEF SendMonitoringData, Call
  <2>2. /\ monitoring_buf' \in [Subjects -> Calls \cup {0}] /\ monitoring_bytes' \in Nat
        /\ msgs_sent' \in [Subjects -> {"no", "recent", "old"}]
    BY <1>6, <2>1, PutValueType DEF SendMonitoringData
  <2> QED
    BY <1>6, <2>1, <2>2 DEF SendMonitoringData, TypeOK, WorkInv
<1>7. ASSUME NEW s \in Subjects, NEW earlier \in BOOLEAN, SendMonitoringFull(t, s, earlier)
      PROVE  TypeInv'
  <2>1. calls' \in Calls
    BY <1>1, <1>7 DEF SendMonitoringFull, Call
  <2>2. WorkInv'
    <3>1. /\ at' = [at EXCEPT ![t] = "clear"] /\ doing' = [doing EXCEPT ![t] = "mon"]
          /\ what' = [what EXCEPT ![t] = s] /\ id' = [id EXCEPT ![t] = calls']
          /\ nested' = nested /\ at[t] = "idle"
      BY <1>7 DEF SendMonitoringFull, Call, BeginFlush
    <3>2. t \notin nested /\ t # Buffer
      BY <3>1 DEF WorkInv, NestedPlaces
    <3> QED
      BY <2>1, <3>1, <3>2 DEF WorkInv, TypeOK
  <2> QED
    BY <1>7, <2>1, <2>2 DEF SendMonitoringFull, BeginFlush, TypeOK
<1>8. ASSUME NEW a \in Alarms, SendAlarm(t, a) PROVE TypeInv'
  <2>1. WorkInv'
    BY <1>8 DEF SendAlarm, WorkInv, NestedPlaces, TypeOK
  <2> QED
    BY <1>8, <2>1 DEF SendAlarm, TypeOK, AlarmAges
<1>9. ASSUME NEW a \in Alarms, NEW erased \in SUBSET OldAlarms,
             SendAlarmAgain(t, a, erased)
      PROVE  TypeInv'
  BY <1>9 DEF SendAlarmAgain, TypeOK, WorkInv
<1>10. CASE SendLogReturn(t)
  <2>1. what[t] \in Messages /\ id[t] \in Calls
    BY <1>10 DEF SendLogReturn, WorkInv, NestedPlaces
  <2>3. /\ logging_buf' \in Seq(LogEntries) /\ logging_bytes' \in Nat
        /\ unsent' \subseteq Calls
    BY <1>10, <2>1, PutType DEF SendLogReturn, PutLog, TypeOK
  <2>2. WorkInv'
    BY <1>10 DEF SendLogReturn, ReturnToIdle, WorkInv, NestedPlaces, TypeOK
  <2> QED
    BY <1>10, <2>2, <2>3 DEF SendLogReturn, ReturnToIdle, TypeOK
<1>11. CASE SendMonitoringReturn(t)
  <2>1. /\ monitoring_buf' \in [Subjects -> Calls \cup {0}] /\ monitoring_bytes' \in Nat
        /\ msgs_sent' \in [Subjects -> {"no", "recent", "old"}]
    BY <1>11, PutValueType DEF SendMonitoringReturn, WorkInv
  <2>2. WorkInv'
    BY <1>11 DEF SendMonitoringReturn, ReturnToIdle, WorkInv, NestedPlaces, TypeOK
  <2> QED
    BY <1>11, <2>1, <2>2 DEF SendMonitoringReturn, ReturnToIdle, TypeOK
<1>13. CASE SendLogTooLong(t)
  <2>1. calls' \in Calls
    BY <1>1, <1>13 DEF SendLogTooLong, Call
  <2>2. WorkInv'
    BY <1>13 DEF SendLogTooLong, Call, WorkInv, NestedPlaces, TypeOK
  <2> QED
    BY <1>13, <2>1, <2>2 DEF SendLogTooLong, TypeOK
<1>14. ASSUME NEW s \in Subjects, NEW earlier \in BOOLEAN,
              SendMonitoringTooLong(t, s, earlier)
       PROVE  TypeInv'
  <2>1. calls' \in Calls
    BY <1>1, <1>14 DEF SendMonitoringTooLong, Call
  <2>2. WorkInv'
    BY <1>14 DEF SendMonitoringTooLong, Call, WorkInv, NestedPlaces, TypeOK
  <2> QED
    BY <1>14, <2>1, <2>2 DEF SendMonitoringTooLong, TypeOK
<1>12. CASE AlarmReturn(t)
  <2>1. WorkInv'
    BY <1>12 DEF AlarmReturn, ReturnToIdle, WorkInv, NestedPlaces, TypeOK
  <2> QED
    BY <1>12, <2>1 DEF AlarmReturn, ReturnToIdle, TypeOK
<1> QED
  BY <1>2, <1>3, <1>4, <1>5, <1>6, <1>7, <1>8, <1>9, <1>10, <1>11, <1>12, <1>13, <1>14
  DEF UserCalls, Returns

(* A step of a flush: the thread goes from one place to another.           *)
LEMMA WorkInvGoto ==
  ASSUME TypeInv, NEW t \in Threads, NEW where, Goto(t, where),
         UNCHANGED <<doing, what, id, nested>>,
         at[t] \notin {"idle", "send_alarm", "return", "long_log", "long_mon"},
         \/ where \in Merging \cup {"clear", "prune"}
         \/ where = "return" /\ t # Buffer
         \/ where = "idle" /\ t = Buffer,
         where = "lock_log" => doing[t] # "log",
         where = "lock_mon" => doing[t] # "mon",
         t \in nested => where \in NestedPlaces
  PROVE  /\ WorkInv'
         /\ at' \in [Threads -> Places]
<1>1. at' \in [Threads -> Places]
  <2>1. where \in Places
    OBVIOUS
  <2>2. at \in [Threads -> Places]
    BY DEF TypeInv, TypeOK
  <2> QED
    BY <2>1, <2>2 DEF Goto
<1>2. \A u \in Threads \ {t} : at'[u] = at[u]
  BY DEF Goto, TypeInv, TypeOK
<1>3. at'[t] = where
  BY DEF Goto, TypeInv, TypeOK
<1>4. /\ doing[t] \in {"log", "mon", "buffer"}
      /\ doing[t] = "buffer" => t = Buffer
      /\ t = Buffer => doing[t] = "buffer" \/ t \in nested
      /\ t \in nested => doing[t] = "log"
  BY DEF TypeInv, TypeOK, WorkInv
<1>5. where \notin {"send_alarm", "long_log", "long_mon"}
  BY DEF Merging
<1>6. ASSUME NEW u \in Threads
      PROVE  /\ doing[u] = "buffer" => u = Buffer
             /\ u = Buffer => doing[u] = "buffer" \/ u \in nested
             /\ u \in nested => doing[u] = "log" /\ at'[u] \in NestedPlaces
             /\ doing[u] = "none" => at'[u] = "idle"
             /\ at'[u] = "idle" => doing[u] \in {"none", "buffer"}
             /\ doing[u] = "alarm" <=> at'[u] = "send_alarm"
             /\ at'[u] = "return" => doing[u] \in {"log", "mon"}
             /\ at'[u] = "long_log" => doing[u] = "log"
             /\ at'[u] = "long_mon" => doing[u] = "mon"
             /\ doing[u] = "log" /\ at'[u] # "long_log" => what[u] \in Messages
             /\ doing[u] = "log" => at'[u] # "lock_log"
             /\ doing[u] = "log" /\ at'[u] # "long_log" => u \in nested \/ id[u] \in Calls
             /\ doing[u] = "mon" /\ at'[u] # "long_mon" => what[u] \in Subjects /\ id[u] \in Calls
             /\ doing[u] = "mon" => at'[u] # "lock_mon"
  <2>1. CASE u # t
    BY <1>2, <2>1 DEF TypeInv, WorkInv
  <2>2. CASE u = t
    <3>1. /\ doing[t] = "log" => what[t] \in Messages
          /\ doing[t] = "log" => t \in nested \/ id[t] \in Calls
      BY DEF TypeInv, WorkInv
    <3>2. doing[t] = "mon" => what[t] \in Subjects /\ id[t] \in Calls
      BY DEF TypeInv, WorkInv
    <3> QED
      BY <1>3, <1>4, <1>5, <2>2, <3>1, <3>2 DEF Merging, NestedPlaces
  <2> QED
    BY <2>1, <2>2
<1> QED
  BY <1>1, <1>6 DEF WorkInv

LEMMA TypeInvFlush ==
  ASSUME TypeInv, LockInv, NEW t \in Threads, Flush(t)
  PROVE  TypeInv'
<1> USE DEF logVars, monVars, lockVars, alarmVars, batchHistory
<1>9. t \in nested => /\ at[t] \in NestedPlaces /\ doing[t] = "log"
                      /\ monitoring_mtx # None
  BY UsersOK DEF TypeInv, WorkInv, LockInv, HasMonitoringLock
<1>1. /\ UNCHANGED <<doing, what, id, nested, calls, crashed, alarm_age>>
      /\ \E where :
           /\ Goto(t, where)
           /\ \/ where \in Merging \cup {"clear", "prune"}
              \/ where = "return" /\ t # Buffer
              \/ where = "idle" /\ t = Buffer
           /\ where = "lock_log" => doing[t] # "log"
           /\ where = "lock_mon" => doing[t] # "mon"
           /\ t \in nested => where \in NestedPlaces
      /\ at[t] \notin {"idle", "send_alarm", "return", "long_log", "long_mon"}
  <2>1. CASE Clear(t)
    BY <1>9, <2>1 DEF Clear, HoldsLog, Merging, NestedPlaces
  <2>2. CASE LockLog(t)
    BY <1>9, <2>2 DEF LockLog, Merging, NestedPlaces
  <2>3. CASE MergeLog(t)
    BY <1>9, <2>3 DEF MergeLog, Merging, NestedPlaces
  <2>4. CASE CheckLog(t)
    BY <1>9, <2>4 DEF CheckLog, Merging, NestedPlaces
  <2>5. CASE SendBatchLog(t)
    BY <1>9, <2>5 DEF SendBatchLog, Merging, NestedPlaces
  <2>6. CASE ClearAgain(t)
    BY <1>9, <2>6 DEF ClearAgain, HoldsMonitoring, Merging, NestedPlaces
  <2>7. CASE LockMonitoring(t)
    BY <1>9, <2>7 DEF LockMonitoring, Merging
  <2>8. CASE MergeMonitoring(t)
    BY <1>9, <2>8 DEF MergeMonitoring, Merging, NestedPlaces
  <2>9. CASE CheckMonitoring(t)
    BY <1>9, <2>9 DEF CheckMonitoring, Merging, NestedPlaces
  <2>10. CASE SendBatchMonitoring(t)
    BY <1>9, <2>10 DEF SendBatchMonitoring, Merging, NestedPlaces
  <2>11. CASE Prune(t)
    BY <1>9, <2>11 DEF Prune, NestedPlaces
  <2> QED
    BY <2>1, <2>2, <2>3, <2>4, <2>5, <2>6, <2>7, <2>8, <2>9, <2>10, <2>11 DEF Flush
<1>2. /\ WorkInv'
      /\ at' \in [Threads -> Places]
  BY <1>1, WorkInvGoto
<1>3. BufferedLogs \subseteq Calls \cup {AReport} /\ BufferedValues \subseteq Calls
  <2>1. ASSUME NEW k \in DOMAIN logging_buf PROVE logging_buf[k].calls \subseteq Calls \cup {AReport}
    <3>1. logging_buf[k] \in LogEntries
      BY DEF TypeInv, TypeOK
    <3> QED
      BY <3>1 DEF LogEntries
  <2>2. BufferedLogs \subseteq Calls \cup {AReport}
    BY <2>1 DEF BufferedLogs
  <2>3. BufferedValues \subseteq Calls
    BY DEF BufferedValues, TypeInv, TypeOK
  <2> QED
    BY <2>2, <2>3
<1>4. /\ logging_buf' \in Seq(LogEntries) /\ logging_bytes' \in Nat
      /\ monitoring_buf' \in [Subjects -> Calls \cup {0}] /\ monitoring_bytes' \in Nat
      /\ msgs_sent' \in [Subjects -> {"no", "recent", "old"}]
  <2>1. CASE SendBatchLog(t)
    BY <2>1 DEF SendBatchLog, TypeInv, TypeOK
  <2>2. CASE SendBatchMonitoring(t)
    BY <2>2 DEF SendBatchMonitoring, ClearMonitoring, TypeInv, TypeOK
  <2>3. CASE UNCHANGED <<logVars, monVars>>
    BY <2>3 DEF TypeInv, TypeOK
  <2> QED
    BY <2>1, <2>2, <2>3
    DEF Flush, Clear, LockLog, MergeLog, CheckLog, ClearAgain, LockMonitoring,
        MergeMonitoring, CheckMonitoring, Prune
<1>5. logging_mtx' \in Threads \cup {None} /\ monitoring_mtx' \in Threads \cup {None}
  <2>1. logging_mtx' \in {logging_mtx, t, None} /\ monitoring_mtx' \in {monitoring_mtx, t, None}
    BY DEF Flush, Clear, LockLog, MergeLog, CheckLog, SendBatchLog, ClearAgain,
           LockMonitoring, MergeMonitoring, CheckMonitoring, SendBatchMonitoring, Prune
  <2> QED
    BY <2>1 DEF TypeInv, TypeOK
<1>6. merge_buf' \subseteq Calls \cup {AReport} /\ disturbed' \subseteq Threads
      /\ alarm_buf' \subseteq Alarms /\ pruned' \subseteq Alarms
  BY <1>3
  DEF Flush, Clear, LockLog, MergeLog, CheckLog, SendBatchLog, ClearAgain,
      LockMonitoring, MergeMonitoring, CheckMonitoring, SendBatchMonitoring, Prune,
      SetMergeBuf, TypeInv, TypeOK
<1>7. unsent' \subseteq Calls /\ failed' \subseteq Calls /\ raced' \subseteq Calls
  BY <1>3
  DEF Flush, Clear, LockLog, MergeLog, CheckLog, SendBatchLog, ClearAgain,
      LockMonitoring, MergeMonitoring, CheckMonitoring, SendBatchMonitoring, Prune,
      SendMulticast, TypeInv, TypeOK
<1> QED
  BY <1>1, <1>2, <1>4, <1>5, <1>6, <1>7 DEF TypeInv, TypeOK

(* A report: the thread goes on after it, or starts a flush within its own.*)
LEMMA TypeInvReport ==
  ASSUME TypeInv, LockInv, NEW t \in Threads, ReportMulticast(t) \/ GoOnReporting(t)
  PROVE  TypeInv'
<1> USE DEF logVars, monVars, lockVars, alarmVars, batchHistory
<1>1. CASE ReportMulticast(t)
  <2>1. PICK where :
          /\ Goto(t, where) /\ where \in {"report_log", "report_mon"}
          /\ at[t] = "send_log" => where = "report_log"
          /\ at[t] \in {"send_log", "send_mon"}
    BY <1>1 DEF ReportMulticast
  <2>2. UNCHANGED <<doing, what, id, nested>> /\ (t \in nested => where \in NestedPlaces)
    BY <1>1, <2>1 DEF ReportMulticast, TypeInv, WorkInv, NestedPlaces
  <2>3. /\ WorkInv'
        /\ at' \in [Threads -> Places]
    BY <2>1, <2>2, WorkInvGoto DEF Merging
  <2> QED
    BY <1>1, <2>3 DEF ReportMulticast, TypeInv, TypeOK
<1>2. ASSUME NEW m \in Messages, ReportRepeat(t, m) \/ Report(t, m) PROVE TypeInv'
  <2>1. /\ AfterReport(t) /\ logging_mtx' = logging_mtx
        /\ UNCHANGED <<merge_buf, alarmVars, calls, crashed, raced, disturbed>>
    BY <1>2 DEF ReportRepeat, Report
  <2>2. logging_buf' \in Seq(LogEntries) /\ logging_bytes' \in Nat
    BY <1>2, PutType, RepeatType DEF ReportRepeat, Report, TypeInv, TypeOK
  <2>3. CASE at[t] = "report_mon"
    <3>1. /\ Goto(t, "prune") /\ SendMulticast /\ ClearMonitoring(t)
          /\ UNCHANGED <<monitoring_mtx, doing, what, id, nested>>
      BY <2>1, <2>3 DEF AfterReport
    <3>2. t \notin nested
      BY <2>3 DEF TypeInv, WorkInv, NestedPlaces
    <3>3. WorkInv' /\ at' \in [Threads -> Places]
      BY <2>3, <3>1, <3>2, WorkInvGoto
    <3>4. unsent' \subseteq Calls /\ failed' \subseteq Calls
      BY <3>1 DEF SendMulticast, TypeInv, TypeOK
    <3>5. /\ monitoring_buf' \in [Subjects -> Calls \cup {0}] /\ monitoring_bytes' \in Nat
          /\ msgs_sent' \in [Subjects -> {"no", "recent", "old"}]
      BY <3>1 DEF ClearMonitoring, TypeInv, TypeOK
    <3> QED
      BY <2>1, <2>2, <3>1, <3>3, <3>4, <3>5 DEF TypeInv, TypeOK
  <2>4. CASE at[t] = "long_mon"
    <3>1. /\ monitoring_mtx' = None /\ ReturnToIdle(t)
          /\ UNCHANGED <<monVars, unsent, failed>>
      BY <2>1, <2>4 DEF AfterReport
    <3>2. WorkInv'
      BY <2>4, <3>1 DEF ReturnToIdle, TypeInv, TypeOK, WorkInv, NestedPlaces
    <3> QED
      BY <2>1, <2>2, <3>1, <3>2 DEF ReturnToIdle, TypeInv, TypeOK
  <2> QED
    BY <2>1, <2>3, <2>4 DEF AfterReport
<1>3. ASSUME NEW m \in Messages, ReportFull(t, m) PROVE TypeInv'
  <2>1. WorkInv'
    BY <1>3 DEF ReportFull, Reports, BeginFlush, TypeInv, TypeOK, WorkInv, NestedPlaces
  <2> QED
    BY <1>3, <2>1 DEF ReportFull, BeginFlush, TypeInv, TypeOK
<1> QED
  BY <1>1, <1>2, <1>3 DEF GoOnReporting

LEMMA TypeInvStep == TypeInv /\ LockInv /\ [Next]_vars => TypeInv'
<1> SUFFICES ASSUME TypeInv, LockInv, [Next]_vars PROVE TypeInv'
  OBVIOUS
<1> USE DEF logVars, monVars, lockVars, alarmVars, threadVars, batchHistory
<1>1. CASE Wake
  <2>1. WorkInv'
    BY <1>1 DEF Wake, Goto, TypeInv, TypeOK, WorkInv, NestedPlaces
  <2> QED
    BY <1>1, <2>1 DEF Wake, Goto, TypeInv, TypeOK
<1>2. CASE Time
  BY <1>2 DEF Time, MergePeriodEnds, Age, AlarmAges, TypeInv, TypeOK, WorkInv
<1>3. CASE UNCHANGED vars
  BY <1>3 DEF vars, TypeInv, TypeOK, WorkInv
<1>4. ASSUME NEW t \in Threads, NEW u \in Threads, Crash(t, u) PROVE TypeInv'
  <2>1. crashed' \in BOOLEAN
    BY <1>4 DEF Crash
  <2> QED
    BY <1>4, <2>1 DEF Crash, TypeInv, TypeOK, WorkInv
<1> QED
  BY <1>1, <1>2, <1>3, <1>4, TypeInvUsers, TypeInvFlush, TypeInvReport, NextCases

----------------------------------------------------------------------------
LEMMA LockInvInit == Init => LockInv
<1> SUFFICES ASSUME Init PROVE LockInv
  OBVIOUS
<1>1. ASSUME NEW t \in Threads
      PROVE  at[t] = "idle" /\ doing[t] \in {"none", "buffer"} /\ t \notin nested
  BY DEF Init
<1>2. logging_mtx = None /\ monitoring_mtx = None /\ None \notin Threads
  BY UsersOK DEF Init
<1> QED
  BY <1>1, <1>2 DEF LockInv, HasLoggingLock, HasMonitoringLock

LEMMA LockInvFlush ==
  ASSUME TypeInv, LockInv, NEW t \in Threads, Flush(t)
  PROVE  LockInv'
<1>1. /\ \A u \in Threads : doing'[u] = doing[u]
      /\ \A u \in Threads \ {t} : at'[u] = at[u]
      /\ \A u \in Threads : u # None
      /\ nested' = nested
  <2>1. doing' = doing /\ nested' = nested
    BY DEF Flush, Clear, LockLog, MergeLog, CheckLog, SendBatchLog, ClearAgain,
           LockMonitoring, MergeMonitoring, CheckMonitoring, SendBatchMonitoring, Prune
  <2>2. \E where : Goto(t, where)
    BY DEF Flush, Clear, LockLog, MergeLog, CheckLog, SendBatchLog, ClearAgain,
           LockMonitoring, MergeMonitoring, CheckMonitoring, SendBatchMonitoring, Prune
  <2>3. \A u \in Threads \ {t} : at'[u] = at[u]
    BY <2>2 DEF Goto, TypeInv, TypeOK
  <2> QED
    BY <2>1, <2>3, UsersOK
<1>2. /\ at[t] \notin {"idle", "send_alarm", "return"}
      /\ at[t] = "lock_log" => doing[t] # "log"
      /\ at[t] = "lock_mon" => doing[t] # "mon"
      /\ at[t] = "prune" => t \notin nested
  BY DEF NestedPlaces, Flush, Clear, LockLog, MergeLog, CheckLog, SendBatchLog, ClearAgain,
         LockMonitoring, MergeMonitoring, CheckMonitoring, SendBatchMonitoring, Prune,
         TypeInv, WorkInv
<1>3. ASSUME NEW where, at'[t] = where,
             UNCHANGED <<logging_mtx, monitoring_mtx>>,
             \/ doing[t] = "log"
             \/ (where \in {"merge_log", "check_log", "send_log", "report_log",
                           "clear_again"} <=>
                 at[t] \in {"merge_log", "check_log", "send_log", "report_log",
                            "clear_again"}),
             \/ doing[t] = "mon"
             \/ (where \in {"merge_mon", "check_mon", "send_mon", "report_mon",
                           "prune"} <=>
                 at[t] \in {"merge_mon", "check_mon", "send_mon", "report_mon",
                            "prune"})
      PROVE  LockInv'
  BY <1>1, <1>3 DEF LockInv, HasLoggingLock, HasMonitoringLock
<1> USE DEF lockVars
<1>4. \A where : Goto(t, where) => at'[t] = where
  BY DEF Goto, TypeInv, TypeOK
<1>5. CASE Clear(t)
  BY <1>3, <1>4, <1>5 DEF Clear, HoldsLog
<1>6. CASE LockLog(t)
  BY <1>1, <1>2, <1>4, <1>6 DEF LockLog, LockInv, HasLoggingLock, HasMonitoringLock
<1>7. CASE MergeLog(t)
  BY <1>3, <1>4, <1>7 DEF MergeLog
<1>8. CASE CheckLog(t)
  BY <1>3, <1>4, <1>8 DEF CheckLog
<1>9. CASE SendBatchLog(t)
  BY <1>3, <1>4, <1>9 DEF SendBatchLog
<1>10. CASE ClearAgain(t)
  <2>1. CASE doing[t] = "log"
    BY <1>1, <1>4, <1>10, <2>1
    DEF ClearAgain, HoldsLog, HoldsMonitoring, LockInv, HasLoggingLock, HasMonitoringLock
  <2>2. CASE doing[t] # "log"
    BY <1>1, <1>4, <1>10, <2>2
    DEF ClearAgain, HoldsLog, HoldsMonitoring, LockInv, HasLoggingLock, HasMonitoringLock
  <2> QED
    BY <2>1, <2>2
<1>11. CASE LockMonitoring(t)
  BY <1>1, <1>2, <1>4, <1>11 DEF LockMonitoring, LockInv, HasLoggingLock, HasMonitoringLock
<1>12. CASE MergeMonitoring(t)
  BY <1>3, <1>4, <1>12 DEF MergeMonitoring
<1>13. CASE CheckMonitoring(t)
  BY <1>3, <1>4, <1>13 DEF CheckMonitoring
<1>14. CASE SendBatchMonitoring(t)
  BY <1>3, <1>4, <1>14 DEF SendBatchMonitoring
<1>15. CASE Prune(t)
  <2>1. CASE doing[t] = "mon"
    BY <1>1, <1>2, <1>4, <1>15, <2>1
    DEF Prune, HoldsMonitoring, LockInv, HasLoggingLock, HasMonitoringLock
  <2>2. CASE doing[t] # "mon"
    BY <1>1, <1>2, <1>4, <1>15, <2>2
    DEF Prune, HoldsMonitoring, LockInv, HasLoggingLock, HasMonitoringLock
  <2> QED
    BY <2>1, <2>2
<1> QED
  BY <1>5, <1>6, <1>7, <1>8, <1>9, <1>10, <1>11, <1>12, <1>13, <1>14, <1>15 DEF Flush

LEMMA LockInvUsers ==
  ASSUME TypeInv, LockInv, NEW t \in Users, UserCalls(t) \/ Returns(t)
  PROVE  LockInv'
<1>1. t \in Threads /\ \A u \in Threads : u # None
  BY UsersOK DEF Threads
<1> USE DEF lockVars, threadVars
<1>2. CASE UNCHANGED <<lockVars, at, doing, nested>>
  BY <1>2 DEF LockInv, HasLoggingLock, HasMonitoringLock
<1>10. ASSUME NEW kind, NEW m, at[t] = "idle", BeginFlush(t, kind, m)
       PROVE  /\ at'[t] = "clear" /\ doing'[t] = kind
              /\ \A u \in Threads \ {t} : at'[u] = at[u] /\ doing'[u] = doing[u]
              /\ doing[t] \in {"none", "buffer"} /\ t \notin nested
  BY <1>1, <1>10 DEF BeginFlush, TypeInv, TypeOK, WorkInv, NestedPlaces
<1>3. ASSUME NEW m \in Messages, SendLogFull(t, m) PROVE LockInv'
  <2>1. /\ at[t] = "idle" /\ BeginFlush(t, "log", m)
        /\ logging_mtx = None /\ logging_mtx' = t /\ monitoring_mtx' = monitoring_mtx
        /\ nested' = nested
    BY <1>3 DEF SendLogFull, Call
  <2>2. /\ at'[t] = "clear" /\ doing'[t] = "log"
        /\ \A u \in Threads \ {t} : at'[u] = at[u] /\ doing'[u] = doing[u]
        /\ doing[t] \in {"none", "buffer"} /\ t \notin nested
    BY <1>10, <2>1
  <2> QED
    BY <1>1, <2>1, <2>2 DEF LockInv, HasLoggingLock, HasMonitoringLock
<1>4. ASSUME NEW s \in Subjects, NEW earlier \in BOOLEAN, SendMonitoringFull(t, s, earlier)
      PROVE  LockInv'
  <2>1. /\ at[t] = "idle" /\ BeginFlush(t, "mon", s)
        /\ monitoring_mtx = None /\ monitoring_mtx' = t /\ logging_mtx' = logging_mtx
        /\ nested' = nested
    BY <1>4 DEF SendMonitoringFull, Call
  <2>2. /\ at'[t] = "clear" /\ doing'[t] = "mon"
        /\ \A u \in Threads \ {t} : at'[u] = at[u] /\ doing'[u] = doing[u]
        /\ doing[t] \in {"none", "buffer"} /\ t \notin nested
    BY <1>10, <2>1
  <2> QED
    BY <1>1, <2>1, <2>2 DEF LockInv, HasLoggingLock, HasMonitoringLock
<1>11. CASE SendLogTooLong(t)
  BY <1>1, <1>11
  DEF SendLogTooLong, Call, LockInv, HasLoggingLock, HasMonitoringLock, TypeInv, TypeOK,
      WorkInv, NestedPlaces
<1>12. ASSUME NEW s \in Subjects, NEW earlier \in BOOLEAN,
              SendMonitoringTooLong(t, s, earlier)
       PROVE  LockInv'
  BY <1>1, <1>12
  DEF SendMonitoringTooLong, Call, LockInv, HasLoggingLock, HasMonitoringLock, TypeInv,
      TypeOK, WorkInv, NestedPlaces
<1>5. ASSUME NEW a \in Alarms, SendAlarm(t, a) PROVE LockInv'
  BY <1>1, <1>5
  DEF SendAlarm, LockInv, HasLoggingLock, HasMonitoringLock, TypeInv, TypeOK, WorkInv
<1>9. ReturnToIdle(t) =>
        /\ at'[t] = "idle" /\ doing'[t] = "none" /\ nested' = nested
        /\ \A u \in Threads \ {t} : at'[u] = at[u] /\ doing'[u] = doing[u]
  BY <1>1, UsersOK DEF ReturnToIdle, TypeInv, TypeOK
<1>6. CASE SendLogReturn(t)
  <2>1. at[t] = "return" /\ doing[t] = "log" /\ t \notin nested
    BY <1>1, <1>6 DEF SendLogReturn, TypeInv, WorkInv, NestedPlaces
  <2>2. logging_mtx' = None /\ monitoring_mtx' = monitoring_mtx
    BY <1>6 DEF SendLogReturn
  <2> QED
    BY <1>1, <1>9, <1>6, <2>1, <2>2
    DEF SendLogReturn, LockInv, HasLoggingLock, HasMonitoringLock
<1>7. CASE SendMonitoringReturn(t)
  <2>1. at[t] = "return" /\ doing[t] = "mon" /\ t \notin nested
    BY <1>1, <1>7 DEF SendMonitoringReturn, TypeInv, WorkInv, NestedPlaces
  <2>2. monitoring_mtx' = None /\ logging_mtx' = logging_mtx
    BY <1>7 DEF SendMonitoringReturn
  <2> QED
    BY <1>1, <1>9, <1>7, <2>1, <2>2
    DEF SendMonitoringReturn, LockInv, HasLoggingLock, HasMonitoringLock
<1>8. CASE AlarmReturn(t)
  BY <1>1, <1>8
  DEF AlarmReturn, ReturnToIdle, LockInv, HasLoggingLock, HasMonitoringLock, TypeInv,
      TypeOK, WorkInv
<1> QED
  BY <1>2, <1>3, <1>4, <1>5, <1>6, <1>7, <1>8, <1>11, <1>12
  DEF UserCalls, Returns, SendLogRepeat, SendLog, SendMonitoringMerged,
      SendMonitoringData, SendAlarmAgain

LEMMA LockInvReport ==
  ASSUME TypeInv, LockInv, NEW t \in Threads, ReportMulticast(t) \/ GoOnReporting(t)
  PROVE  LockInv'
<1> USE DEF lockVars
<1>1. \A u \in Threads : u # None
  BY UsersOK
<1>2. ASSUME NEW where, Goto(t, where)
      PROVE  at'[t] = where /\ \A u \in Threads \ {t} : at'[u] = at[u]
  BY <1>2 DEF Goto, TypeInv, TypeOK
<1>3. CASE ReportMulticast(t)
  <2>1. /\ at[t] \in {"send_log", "send_mon"}
        /\ Goto(t, IF at[t] = "send_log" THEN "report_log" ELSE "report_mon")
        /\ UNCHANGED <<doing, nested, logging_mtx, monitoring_mtx>>
    BY <1>3 DEF ReportMulticast
  <2> QED
    BY <1>2, <2>1 DEF LockInv, HasLoggingLock, HasMonitoringLock
<1>4. ASSUME NEW m \in Messages, ReportRepeat(t, m) \/ Report(t, m) PROVE LockInv'
  <2>1. AfterReport(t) /\ logging_mtx' = logging_mtx
    BY <1>4 DEF ReportRepeat, Report
  <2>2. CASE at[t] = "report_mon"
    <3>1. Goto(t, "prune") /\ UNCHANGED <<doing, nested, monitoring_mtx>>
      BY <2>1, <2>2 DEF AfterReport
    <3> QED
      BY <1>2, <2>1, <2>2, <3>1 DEF LockInv, HasLoggingLock, HasMonitoringLock
  <2>3. CASE at[t] = "long_mon"
    <3>1. /\ monitoring_mtx' = None /\ at'[t] = "idle" /\ doing'[t] \in {"none", "buffer"}
          /\ \A u \in Threads \ {t} : at'[u] = at[u] /\ doing'[u] = doing[u]
          /\ nested' = nested
      BY <2>1, <2>3 DEF AfterReport, ReturnToIdle, TypeInv, TypeOK
    <3>2. doing[t] = "mon" /\ t \notin nested
      BY <2>3 DEF TypeInv, WorkInv, NestedPlaces
    <3> QED
      BY <1>1, <2>1, <2>3, <3>1, <3>2 DEF LockInv, HasLoggingLock, HasMonitoringLock
  <2> QED
    BY <2>1, <2>2, <2>3 DEF AfterReport
<1>5. ASSUME NEW m \in Messages, ReportFull(t, m) PROVE LockInv'
  <2>1. /\ at[t] \in {"report_mon", "long_mon"} /\ logging_mtx = None
        /\ logging_mtx' = t /\ monitoring_mtx' = monitoring_mtx
        /\ nested' = nested \cup {t}
    BY <1>5 DEF ReportFull, Reports
  <2>2. /\ at'[t] = "clear" /\ doing'[t] = "log"
        /\ \A u \in Threads \ {t} : at'[u] = at[u] /\ doing'[u] = doing[u]
    BY <1>5 DEF ReportFull, BeginFlush, TypeInv, TypeOK
  <2>3. at[t] = "long_mon" => doing[t] = "mon"
    BY DEF TypeInv, WorkInv
  <2> QED
    BY <1>1, <2>1, <2>2, <2>3 DEF LockInv, HasLoggingLock, HasMonitoringLock
<1> QED
  BY <1>3, <1>4, <1>5 DEF GoOnReporting

LEMMA LockInvStep == TypeInv /\ LockInv /\ [Next]_vars => LockInv'
<1> SUFFICES ASSUME TypeInv, LockInv, [Next]_vars PROVE LockInv'
  OBVIOUS
<1>1. CASE UNCHANGED <<lockVars, at, doing, nested>>
  BY <1>1 DEF LockInv, HasLoggingLock, HasMonitoringLock, lockVars
<1>2. CASE Wake
  <2>1. Buffer \in Threads
    BY DEF Threads
  <2> QED
    BY <1>2, <2>1
    DEF Wake, Goto, LockInv, HasLoggingLock, HasMonitoringLock, TypeInv, TypeOK, lockVars
<1>3. ASSUME Time \/ UNCHANGED vars \/ \E t, u \in Threads : Crash(t, u)
      PROVE  UNCHANGED <<lockVars, at, doing, nested>>
  BY <1>3 DEF Time, MergePeriodEnds, Age, Crash, threadVars, vars
<1> QED
  BY <1>1, <1>2, <1>3, LockInvFlush, LockInvUsers, LockInvReport, NextCases

(* Every variable has its type in every state: TypeOK of the runs, for any *)
(* users, messages, subjects and alarms (ServicesBuffer).                  *)
THEOREM TypeCorrect == Spec => []TypeOK
<1>1. TypeInv => TypeOK
  BY DEF TypeInv
<1> QED
  BY TypeInvInit, TypeInvStep, LockInvInit, LockInvStep, <1>1, PTL DEF Spec

(* Unless one of them is writing a report with a lock held, of a multicast *)
(* or of a message that is too long, two threads that wait for each other  *)
(* are senders with full batches, of the two kinds:                        *)
(* OnlyFullSendersDeadlock of the runs, for any number of threads          *)
(* (ServicesBuffer).                                                       *)
THEOREM OnlyFullSendersCanDeadlock == Spec => []OnlyFullSendersDeadlock
<1>1. TypeInv /\ LockInv => OnlyFullSendersDeadlock
  <2> SUFFICES ASSUME TypeInv, LockInv, NEW t \in Threads, NEW u \in Threads,
                      WaitsFor(t, u), WaitsFor(u, t), ~Reporting(t), ~Reporting(u)
               PROVE  {doing[t], doing[u]} = {"log", "mon"}
    BY DEF OnlyFullSendersDeadlock
  <2>1. at[t] = "lock_log" => doing[t] # "log" /\ (HasMonitoringLock(t) => doing[t] = "mon")
    BY DEF TypeInv, WorkInv, HasMonitoringLock, Reporting
  <2>2. at[u] = "lock_log" => doing[u] # "log" /\ (HasMonitoringLock(u) => doing[u] = "mon")
    BY DEF TypeInv, WorkInv, HasMonitoringLock, Reporting
  <2>3. at[t] = "lock_mon" => doing[t] # "mon" /\ (HasLoggingLock(t) => doing[t] = "log")
    BY DEF TypeInv, WorkInv, HasLoggingLock
  <2>4. at[u] = "lock_mon" => doing[u] # "mon" /\ (HasLoggingLock(u) => doing[u] = "log")
    BY DEF TypeInv, WorkInv, HasLoggingLock
  <2>5. /\ logging_mtx = t => HasLoggingLock(t)
        /\ logging_mtx = u => HasLoggingLock(u)
        /\ monitoring_mtx = t => HasMonitoringLock(t)
        /\ monitoring_mtx = u => HasMonitoringLock(u)
    BY DEF LockInv
  <2>6. /\ at[t] = "lock_log" => ~HasLoggingLock(t)
        /\ at[u] = "lock_log" => ~HasLoggingLock(u)
        /\ at[t] = "lock_mon" => ~HasMonitoringLock(t)
        /\ at[u] = "lock_mon" => ~HasMonitoringLock(u)
    BY <2>1, <2>2, <2>3, <2>4 DEF HasLoggingLock, HasMonitoringLock, Reporting
  <2>7. \/ doing[t] = "log" /\ doing[u] = "mon"
        \/ doing[t] = "mon" /\ doing[u] = "log"
    BY <2>1, <2>2, <2>3, <2>4, <2>5, <2>6 DEF WaitsFor, Reporting
  <2> QED
    BY <2>7
<1> QED
  BY TypeInvInit, TypeInvStep, LockInvInit, LockInvStep, <1>1, PTL DEF Spec

----------------------------------------------------------------------------
(* The batch.  Until another thread writes local_merge_buf it is empty, or *)
(* a copy of the buffer, which only the holder of the lock changes.        *)

BatchOK(t) ==
  t \notin disturbed =>
    /\ at[t] \in {"lock_log", "merge_log", "lock_mon", "merge_mon"} => merge_buf = {}
    /\ at[t] \in {"check_log", "send_log"} => merge_buf = BufferedLogs
    /\ at[t] \in {"check_mon", "send_mon"} => merge_buf = BufferedValues

BatchInv == \A t \in Threads : BatchOK(t)

LEMMA BatchInvInit == Init => BatchInv
<1> SUFFICES ASSUME Init, NEW t \in Threads PROVE BatchOK(t)
  BY DEF BatchInv
<1>1. at[t] = "idle"
  BY DEF Init
<1> QED
  BY <1>1 DEF BatchOK

(* What leaves a thread's batch alone.                                     *)
LEMMA BatchKept ==
  ASSUME NEW t \in Threads, BatchOK(t), at'[t] = at[t], merge_buf' = merge_buf,
         t \in disturbed => t \in disturbed',
         at[t] \in {"check_log", "send_log"} => BufferedLogs' = BufferedLogs,
         at[t] \in {"check_mon", "send_mon"} => BufferedValues' = BufferedValues
  PROVE  BatchOK(t)'
BY DEF BatchOK

(* A thread that writes local_merge_buf disturbs those that are using it.  *)
LEMMA BatchOfOthers ==
  ASSUME NEW t \in Threads, NEW u \in Threads \ {t}, NEW value, SetMergeBuf(t, value),
         at'[u] = at[u]
  PROVE  BatchOK(u)'
<1>1. CASE at[u] \in Merging
  BY <1>1 DEF SetMergeBuf, BatchOK
<1>2. CASE at[u] \notin Merging
  BY <1>2 DEF Merging, BatchOK
<1> QED
  BY <1>1, <1>2

LEMMA BatchInvFlush ==
  ASSUME TypeInv, LockInv, BatchInv, NEW t \in Threads, Flush(t)
  PROVE  BatchInv'
<1> USE DEF logVars, monVars, lockVars
<1>1. ASSUME NEW where, Goto(t, where)
      PROVE  at'[t] = where /\ \A u \in Threads \ {t} : at'[u] = at[u]
  BY <1>1 DEF Goto, TypeInv, TypeOK
<1>2. BatchOK(t)
  BY DEF BatchInv
<1>3. ASSUME NEW value, NEW where, SetMergeBuf(t, value), Goto(t, where), BatchOK(t)'
      PROVE  BatchInv'
  <2>1. \A u \in Threads \ {t} : BatchOK(u)'
    BY <1>1, <1>3, BatchOfOthers
  <2> QED
    BY <1>3, <2>1 DEF BatchInv
<1>4. ASSUME NEW where, Goto(t, where), BatchOK(t)',
             UNCHANGED <<merge_buf, disturbed>>,
             \A u \in Threads \ {t} :
               /\ at[u] \in {"check_log", "send_log"} => BufferedLogs' = BufferedLogs
               /\ at[u] \in {"check_mon", "send_mon"} => BufferedValues' = BufferedValues
      PROVE  BatchInv'
  <2>1. ASSUME NEW u \in Threads \ {t} PROVE BatchOK(u)'
    <3>1. BatchOK(u)
      BY DEF BatchInv
    <3> QED
      BY <1>1, <1>4, <3>1, BatchKept
  <2> QED
    BY <1>4, <2>1 DEF BatchInv
<1>5. UNCHANGED logVars => BufferedLogs' = BufferedLogs
  BY DEF BufferedLogs
<1>6. UNCHANGED monVars => BufferedValues' = BufferedValues
  BY DEF BufferedValues
<1>7. CASE Clear(t)
  <2>1. PICK where : /\ Goto(t, where) /\ where \in {"lock_log", "merge_log"}
                     /\ SetMergeBuf(t, {})
    BY <1>7 DEF Clear
  <2>2. BatchOK(t)'
    BY <1>1, <2>1 DEF SetMergeBuf, BatchOK
  <2> QED
    BY <1>3, <2>1, <2>2
<1>8. CASE LockLog(t)
  <2>1. BatchOK(t)'
    BY <1>1, <1>2, <1>8 DEF LockLog, BatchOK
  <2> QED
    BY <1>4, <1>5, <1>6, <1>8, <2>1 DEF LockLog
<1>9. CASE MergeLog(t)
  <2>1. BatchOK(t)'
    <3>1. at[t] = "merge_log" /\ at'[t] = "check_log" /\ BufferedLogs' = BufferedLogs
      BY <1>1, <1>5, <1>9 DEF MergeLog
    <3>2. merge_buf' = merge_buf \cup BufferedLogs /\ (t \in disturbed => t \in disturbed')
      BY <1>9 DEF MergeLog, SetMergeBuf
    <3> QED
      BY <1>2, <3>1, <3>2 DEF BatchOK
  <2> QED
    BY <1>3, <1>9, <2>1 DEF MergeLog
<1>10. CASE CheckLog(t)
  <2>1. PICK where : Goto(t, where) /\ where \in {"clear_again", "send_log"}
    BY <1>10 DEF CheckLog
  <2>2. BatchOK(t)'
    BY <1>1, <1>2, <1>5, <1>10, <2>1 DEF CheckLog, BatchOK
  <2> QED
    BY <1>4, <1>5, <1>6, <1>10, <2>1, <2>2 DEF CheckLog
<1>11. CASE SendBatchLog(t)
  <2>1. BatchOK(t)'
    BY <1>1, <1>11 DEF SendBatchLog, BatchOK
  <2>2. \A u \in Threads \ {t} : at[u] \notin {"check_log", "send_log"}
    BY <1>11 DEF SendBatchLog, LockInv, HasLoggingLock
  <2> QED
    BY <1>4, <1>6, <1>11, <2>1, <2>2 DEF SendBatchLog
<1>12. CASE ClearAgain(t)
  <2>1. PICK where : /\ Goto(t, where) /\ where \in {"lock_mon", "merge_mon"}
                     /\ SetMergeBuf(t, {})
    BY <1>12 DEF ClearAgain
  <2>2. BatchOK(t)'
    BY <1>1, <2>1 DEF SetMergeBuf, BatchOK
  <2> QED
    BY <1>3, <2>1, <2>2
<1>13. CASE LockMonitoring(t)
  <2>1. BatchOK(t)'
    BY <1>1, <1>2, <1>13 DEF LockMonitoring, BatchOK
  <2> QED
    BY <1>4, <1>5, <1>6, <1>13, <2>1 DEF LockMonitoring
<1>14. CASE MergeMonitoring(t)
  <2>1. BatchOK(t)'
    <3>1. /\ at[t] = "merge_mon" /\ at'[t] = "check_mon"
          /\ BufferedValues' = BufferedValues
      BY <1>1, <1>6, <1>14 DEF MergeMonitoring
    <3>2. merge_buf' = merge_buf \cup BufferedValues /\ (t \in disturbed => t \in disturbed')
      BY <1>14 DEF MergeMonitoring, SetMergeBuf
    <3> QED
      BY <1>2, <3>1, <3>2 DEF BatchOK
  <2> QED
    BY <1>3, <1>14, <2>1 DEF MergeMonitoring
<1>15. CASE CheckMonitoring(t)
  <2>1. PICK where : Goto(t, where) /\ where \in {"prune", "send_mon"}
    BY <1>15 DEF CheckMonitoring
  <2>2. BatchOK(t)'
    BY <1>1, <1>2, <1>6, <1>15, <2>1 DEF CheckMonitoring, BatchOK
  <2> QED
    BY <1>4, <1>5, <1>6, <1>15, <2>1, <2>2 DEF CheckMonitoring
<1>16. CASE SendBatchMonitoring(t)
  <2>1. BatchOK(t)'
    BY <1>1, <1>16 DEF SendBatchMonitoring, BatchOK
  <2>2. \A u \in Threads \ {t} : at[u] \notin {"check_mon", "send_mon"}
    BY <1>16 DEF SendBatchMonitoring, LockInv, HasMonitoringLock
  <2> QED
    BY <1>4, <1>5, <1>16, <2>1, <2>2 DEF SendBatchMonitoring
<1>17. CASE Prune(t)
  <2>1. PICK where : Goto(t, where) /\ where \in {"idle", "return"}
    BY <1>17 DEF Prune
  <2>2. BatchOK(t)'
    BY <1>1, <2>1 DEF BatchOK
  <2>3. ASSUME NEW u \in Threads \ {t} PROVE BatchOK(u)'
    <3>1. BatchOK(u) /\ (u \in disturbed => u \in disturbed') /\ merge_buf' = merge_buf
      BY <1>17 DEF Prune, BatchInv
    <3>2. BufferedLogs' = BufferedLogs /\ BufferedValues' = BufferedValues
      BY <1>5, <1>6, <1>17 DEF Prune
    <3> QED
      BY <1>1, <2>1, <3>1, <3>2, BatchKept
  <2> QED
    BY <2>2, <2>3 DEF BatchInv
<1> QED
  BY <1>7, <1>8, <1>9, <1>10, <1>11, <1>12, <1>13, <1>14, <1>15, <1>16, <1>17 DEF Flush

(* What a user's step leaves alone: the string, the other threads, and the *)
(* buffer of which another thread has the lock.                            *)
LEMMA UserStep ==
  ASSUME TypeInv, LockInv, NEW t \in Users, UserCalls(t) \/ Returns(t)
  PROVE  /\ UNCHANGED <<merge_buf, failed, raced>>
         /\ at'[t] \in {"idle", "clear", "send_alarm", "long_log", "long_mon"}
         /\ \A u \in Threads \ {t} :
              /\ at'[u] = at[u] /\ doing'[u] = doing[u]
              /\ u \in disturbed => u \in disturbed'
              /\ HasLoggingLock(u) => UNCHANGED logVars
              /\ HasMonitoringLock(u) => UNCHANGED monVars
<1> USE DEF lockVars, threadVars, alarmVars, batchHistory
<1>1. t \in Threads
  BY DEF Threads
<1>2. ASSUME NEW u \in Threads \ {t}
      PROVE  /\ HasLoggingLock(u) => logging_mtx = u
             /\ HasMonitoringLock(u) => monitoring_mtx = u
             /\ u # None
  BY UsersOK DEF LockInv
<1>3. /\ doing[t] = "log" => logging_mtx = t
      /\ doing[t] = "mon" => monitoring_mtx = t
  BY <1>1 DEF LockInv, HasLoggingLock, HasMonitoringLock
<1>4. at \in [Threads -> Places]
      /\ doing \in [Threads -> {"none", "log", "mon", "alarm", "buffer"}]
  BY DEF TypeInv, TypeOK
<1>5. ASSUME NEW m \in Messages, SendLogRepeat(t, m) \/ SendLog(t, m)
      PROVE  /\ logging_mtx = None /\ at[t] = "idle"
             /\ UNCHANGED <<monVars, merge_buf, failed, raced, at, doing, disturbed>>
  BY <1>5 DEF SendLogRepeat, SendLog, Call
<1>6. ASSUME NEW m \in Messages, SendLogFull(t, m)
      PROVE  /\ UNCHANGED <<logVars, monVars, merge_buf, failed, raced, disturbed>>
             /\ at' = [at EXCEPT ![t] = "clear"] /\ doing' = [doing EXCEPT ![t] = "log"]
  BY <1>6 DEF SendLogFull, BeginFlush
<1>7. ASSUME NEW s \in Subjects, SendMonitoringMerged(t, s)
      PROVE  /\ at[t] = "idle"
             /\ UNCHANGED <<logVars, monVars, merge_buf, failed, raced, at, doing, disturbed>>
  BY <1>7 DEF SendMonitoringMerged, Call
<1>8. ASSUME NEW s \in Subjects, NEW earlier \in BOOLEAN, SendMonitoringData(t, s, earlier)
      PROVE  /\ monitoring_mtx = None /\ at[t] = "idle"
             /\ UNCHANGED <<logVars, merge_buf, failed, raced, at, doing, disturbed>>
  BY <1>8 DEF SendMonitoringData, Call
<1>9. ASSUME NEW s \in Subjects, NEW earlier \in BOOLEAN, SendMonitoringFull(t, s, earlier)
      PROVE  /\ UNCHANGED <<logVars, monVars, merge_buf, failed, raced, disturbed>>
             /\ at' = [at EXCEPT ![t] = "clear"] /\ doing' = [doing EXCEPT ![t] = "mon"]
  BY <1>9 DEF SendMonitoringFull, BeginFlush
<1>10. ASSUME NEW a \in Alarms, SendAlarm(t, a)
       PROVE  /\ UNCHANGED <<logVars, monVars, merge_buf, failed, raced, disturbed>>
              /\ at' = [at EXCEPT ![t] = "send_alarm"]
              /\ doing' = [doing EXCEPT ![t] = "alarm"]
  BY <1>10 DEF SendAlarm
<1>11. ASSUME NEW a \in Alarms, NEW erased \in SUBSET OldAlarms,
              SendAlarmAgain(t, a, erased)
       PROVE  /\ at[t] = "idle"
              /\ UNCHANGED <<logVars, monVars, merge_buf, failed, raced, at, doing, disturbed>>
  BY <1>11 DEF SendAlarmAgain
<1>15. ASSUME SendLogTooLong(t)
       PROVE  /\ UNCHANGED <<logVars, monVars, merge_buf, failed, raced, disturbed>>
              /\ at' = [at EXCEPT ![t] = "long_log"] /\ doing' = [doing EXCEPT ![t] = "log"]
  BY <1>15 DEF SendLogTooLong
<1>16. ASSUME NEW s \in Subjects, NEW earlier \in BOOLEAN,
              SendMonitoringTooLong(t, s, earlier)
       PROVE  /\ UNCHANGED <<logVars, monVars, merge_buf, failed, raced, disturbed>>
              /\ at' = [at EXCEPT ![t] = "long_mon"] /\ doing' = [doing EXCEPT ![t] = "mon"]
  BY <1>16 DEF SendMonitoringTooLong
<1>12. ASSUME Returns(t)
       PROVE  /\ UNCHANGED <<merge_buf, failed, raced>>
              /\ \E kind :
                   /\ at' = [at EXCEPT ![t] = "idle"] /\ doing' = [doing EXCEPT ![t] = kind]
              /\ disturbed' \in {disturbed, disturbed \ {t}}
              /\ doing[t] = "log" \/ UNCHANGED logVars
              /\ doing[t] = "mon" \/ UNCHANGED monVars
  BY <1>12 DEF Returns, SendLogReturn, SendMonitoringReturn, AlarmReturn, ReturnToIdle
<1>13. CASE Returns(t)
  <2>1. PICK kind : at' = [at EXCEPT ![t] = "idle"] /\ doing' = [doing EXCEPT ![t] = kind]
    BY <1>12, <1>13
  <2>2. /\ at'[t] = "idle"
        /\ \A u \in Threads \ {t} : at'[u] = at[u] /\ doing'[u] = doing[u]
    BY <1>1, <1>4, <2>1
  <2> QED
    BY <1>2, <1>3, <1>12, <1>13, <2>2
<1>14. CASE UserCalls(t)
  <2>1. ASSUME NEW where, NEW kind,
               at' = [at EXCEPT ![t] = where], doing' = [doing EXCEPT ![t] = kind]
        PROVE  /\ at'[t] = where
               /\ \A u \in Threads \ {t} : at'[u] = at[u] /\ doing'[u] = doing[u]
    BY <1>1, <1>4, <2>1
  <2> QED
    BY <1>2, <1>5, <1>6, <1>7, <1>8, <1>9, <1>10, <1>11, <1>14, <1>15, <1>16, <2>1
    DEF UserCalls
<1> QED
  BY <1>13, <1>14

LEMMA BatchInvUsers ==
  ASSUME TypeInv, LockInv, BatchInv, NEW t \in Users, UserCalls(t) \/ Returns(t)
  PROVE  BatchInv'
<1>1. BatchOK(t)'
  BY UserStep DEF BatchOK
<1>2. ASSUME NEW u \in Threads \ {t} PROVE BatchOK(u)'
  <2>1. /\ at'[u] = at[u] /\ merge_buf' = merge_buf /\ (u \in disturbed => u \in disturbed')
        /\ HasLoggingLock(u) => UNCHANGED logVars
        /\ HasMonitoringLock(u) => UNCHANGED monVars
    BY UserStep
  <2>2. at[u] \in {"check_log", "send_log"} => BufferedLogs' = BufferedLogs
    BY <2>1 DEF HasLoggingLock, BufferedLogs, logVars
  <2>3. at[u] \in {"check_mon", "send_mon"} => BufferedValues' = BufferedValues
    BY <2>1 DEF HasMonitoringLock, BufferedValues, monVars
  <2> QED
    BY <2>1, <2>2, <2>3, BatchKept DEF BatchInv
<1> QED
  BY <1>1, <1>2 DEF BatchInv

(* A report: the holder of the logging lock is not disturbed by it.        *)
LEMMA ReportStep ==
  ASSUME TypeInv, LockInv, NEW t \in Threads, ReportMulticast(t) \/ GoOnReporting(t)
  PROVE  /\ merge_buf' = merge_buf /\ raced' = raced
         /\ at'[t] \in {"report_log", "report_mon", "prune", "clear", "idle"}
         /\ \A u \in Threads \ {t} :
              /\ at'[u] = at[u] /\ doing'[u] = doing[u]
              /\ u \in disturbed => u \in disturbed'
              /\ HasLoggingLock(u) => UNCHANGED logVars
              /\ HasMonitoringLock(u) => UNCHANGED monVars
<1> USE DEF lockVars, batchHistory
<1>1. ASSUME NEW u \in Threads \ {t}
      PROVE  /\ HasLoggingLock(u) => logging_mtx = u
             /\ HasMonitoringLock(u) => monitoring_mtx = u
             /\ u # None
  BY UsersOK DEF LockInv
<1>2. ASSUME NEW where, Goto(t, where)
      PROVE  at'[t] = where /\ \A u \in Threads \ {t} : at'[u] = at[u]
  BY <1>2 DEF Goto, TypeInv, TypeOK
<1>3. CASE ReportMulticast(t)
  BY <1>2, <1>3 DEF ReportMulticast
<1>4. ASSUME NEW m \in Messages, ReportRepeat(t, m) \/ Report(t, m)
      PROVE  /\ logging_mtx = None /\ monitoring_mtx = t
             /\ UNCHANGED <<merge_buf, raced, disturbed>>
             /\ at'[t] \in {"prune", "idle"}
             /\ \A u \in Threads \ {t} : at'[u] = at[u] /\ doing'[u] = doing[u]
  <2>1. /\ AfterReport(t) /\ logging_mtx = None /\ at[t] \in {"report_mon", "long_mon"}
        /\ UNCHANGED <<merge_buf, raced, disturbed>>
    BY <1>4 DEF ReportRepeat, Report, Reports
  <2>2. monitoring_mtx = t
    BY <2>1 DEF LockInv, HasMonitoringLock, TypeInv, WorkInv
  <2>3. /\ at'[t] \in {"prune", "idle"}
        /\ \A u \in Threads \ {t} : at'[u] = at[u] /\ doing'[u] = doing[u]
    BY <1>2, <2>1 DEF AfterReport, ReturnToIdle, TypeInv, TypeOK
  <2> QED
    BY <2>1, <2>2, <2>3
<1>5. ASSUME NEW m \in Messages, ReportFull(t, m)
      PROVE  /\ UNCHANGED <<logVars, monVars, merge_buf, raced>>
             /\ disturbed' = disturbed \ {t} /\ at'[t] = "clear"
             /\ \A u \in Threads \ {t} : at'[u] = at[u] /\ doing'[u] = doing[u]
  BY <1>5 DEF ReportFull, BeginFlush, TypeInv, TypeOK
<1>6. ASSUME NEW m \in Messages, ReportRepeat(t, m) \/ Report(t, m)
      PROVE  \A u \in Threads \ {t} : ~HasLoggingLock(u) /\ ~HasMonitoringLock(u)
  BY <1>1, <1>4, <1>6
<1> QED
  BY <1>3, <1>4, <1>5, <1>6 DEF GoOnReporting

LEMMA BatchInvReport ==
  ASSUME TypeInv, LockInv, BatchInv, NEW t \in Threads, ReportMulticast(t) \/ GoOnReporting(t)
  PROVE  BatchInv'
<1>1. BatchOK(t)'
  BY ReportStep DEF BatchOK
<1>2. ASSUME NEW u \in Threads \ {t} PROVE BatchOK(u)'
  <2>1. /\ at'[u] = at[u] /\ merge_buf' = merge_buf /\ (u \in disturbed => u \in disturbed')
        /\ HasLoggingLock(u) => UNCHANGED logVars
        /\ HasMonitoringLock(u) => UNCHANGED monVars
    BY ReportStep
  <2>2. at[u] \in {"check_log", "send_log"} => BufferedLogs' = BufferedLogs
    BY <2>1 DEF HasLoggingLock, BufferedLogs, logVars
  <2>3. at[u] \in {"check_mon", "send_mon"} => BufferedValues' = BufferedValues
    BY <2>1 DEF HasMonitoringLock, BufferedValues, monVars
  <2> QED
    BY <2>1, <2>2, <2>3, BatchKept DEF BatchInv
<1> QED
  BY <1>1, <1>2 DEF BatchInv

LEMMA BatchInvStep == TypeInv /\ LockInv /\ BatchInv /\ [Next]_vars => BatchInv'
<1> SUFFICES ASSUME TypeInv, LockInv, BatchInv, [Next]_vars PROVE BatchInv'
  OBVIOUS
<1>1. ASSUME UNCHANGED <<logging_buf, monitoring_buf, merge_buf, disturbed>>,
             NEW t \in Threads, at'[t] = at[t] \/ at'[t] = "clear"
      PROVE  BatchOK(t)'
  <2>1. BufferedLogs' = BufferedLogs /\ BufferedValues' = BufferedValues
    BY <1>1 DEF BufferedLogs, BufferedValues
  <2> QED
    BY <1>1, <2>1 DEF BatchInv, BatchOK
<1>2. CASE Wake
  <2>1. \A t \in Threads : at'[t] = at[t] \/ at'[t] = "clear"
    BY <1>2 DEF Wake, Goto, TypeInv, TypeOK
  <2> QED
    BY <1>1, <1>2, <2>1 DEF Wake, logVars, monVars, BatchInv
<1>3. ASSUME Time \/ UNCHANGED vars \/ \E t, u \in Threads : Crash(t, u)
      PROVE  UNCHANGED <<logging_buf, monitoring_buf, merge_buf, disturbed, at>>
  BY <1>3 DEF Time, MergePeriodEnds, Age, Crash, threadVars, vars, logVars, monVars
<1>4. CASE Time \/ UNCHANGED vars \/ \E t, u \in Threads : Crash(t, u)
  BY <1>1, <1>3, <1>4 DEF BatchInv
<1> QED
  BY <1>2, <1>4, BatchInvFlush, BatchInvUsers, BatchInvReport, NextCases

----------------------------------------------------------------------------
(* More about waiting.                                                     *)

LEMMA LocksInvariant == Spec => [](TypeInv /\ LockInv)
BY TypeInvInit, TypeInvStep, LockInvInit, LockInvStep, PTL DEF Spec

(* Where a thread waits, and what it has meanwhile.                        *)
LEMMA WaitersHave ==
  ASSUME TypeInv, LockInv, NEW t \in Threads
  PROVE  /\ at[t] = "lock_log" => logging_mtx # t
         /\ at[t] = "lock_mon" => monitoring_mtx # t \/ t \in nested
         /\ at[t] \in {"report_log", "long_log"} => logging_mtx = t
         /\ at[t] \in {"report_mon", "long_mon"} => monitoring_mtx = t
BY DEF TypeInv, WorkInv, LockInv, HasLoggingLock, HasMonitoringLock, NestedPlaces

SelfWaitIsReport == \A t \in Threads : WaitsFor(t, t) => Reporting(t)

(* BatchAndSendMulticast itself never asks for a lock its thread has:      *)
(* whoever waits for itself is writing a report with a lock held, of a     *)
(* multicast or of a message that is too long, or flushes for such a       *)
(* report.                                                                 *)
THEOREM OnlyReportsLockTwice == Spec => []SelfWaitIsReport
<1>1. TypeInv /\ LockInv => SelfWaitIsReport
  BY WaitersHave DEF SelfWaitIsReport, WaitsFor, Reporting
<1> QED
  BY <1>1, LocksInvariant, PTL

(* What a thread may do without any other thread.                          *)
GoesOn(t) ==
  /\ at[t] \in Merging \cup {"clear", "prune", "return", "long_log", "long_mon"}
  /\ \A u \in Threads : ~WaitsFor(t, u)

WaitsEnd ==
  ~Deadlocked =>
    \A t, u \in Threads :
      WaitsFor(t, u) =>
        GoesOn(u) \/ \E v \in Threads : WaitsFor(u, v) /\ GoesOn(v)

(* There is no other circle of waits than a thread that waits for itself   *)
(* and two that wait for each other: unless there is one of these, behind  *)
(* everyone who waits is a thread that has the lock, or the lock its       *)
(* holder waits for, and is at a step of its own (BatchAndSendMulticast,   *)
(* SendLog, SendMonitoringData).                                           *)
THEOREM WaitsEndUnlessDeadlocked == Spec => []WaitsEnd
<1>1. ASSUME TypeInv, LockInv, ~Deadlocked,
             NEW t \in Threads, NEW u \in Threads, WaitsFor(t, u)
      PROVE  GoesOn(u) \/ \E v \in Threads : WaitsFor(u, v) /\ GoesOn(v)
  <2>1. \A v, w \in Threads : ~(WaitsFor(v, w) /\ WaitsFor(w, v))
    BY <1>1 DEF Deadlocked
  <2>2. ASSUME NEW v \in Threads, logging_mtx = v \/ monitoring_mtx = v
        PROVE  at[v] \in Merging \cup {"clear", "prune", "return", "long_log", "long_mon"}
    BY <1>1, <2>2
    DEF TypeInv, TypeOK, WorkInv, LockInv, HasLoggingLock, HasMonitoringLock,
        NestedPlaces, Merging
  <2>3. at[u] \in Merging \cup {"clear", "prune", "return", "long_log", "long_mon"}
    BY <1>1, <2>2 DEF WaitsFor
  <2>4. ASSUME NEW v \in Threads, WaitsFor(u, v) PROVE GoesOn(v)
    <3>1. at[v] \in Merging \cup {"clear", "prune", "return", "long_log", "long_mon"}
      BY <2>2, <2>4 DEF WaitsFor
    <3>2. ~WaitsFor(u, u) /\ ~WaitsFor(v, v) /\ ~WaitsFor(t, t)
      BY <2>1
    <3>3. ASSUME NEW w \in Threads, WaitsFor(v, w) PROVE FALSE
      BY <1>1, <2>1, <2>4, <3>2, <3>3, WaitersHave DEF WaitsFor
    <3> QED
      BY <3>1, <3>3 DEF GoesOn
  <2> QED
    BY <2>3, <2>4 DEF GoesOn
<1>2. TypeInv /\ LockInv => WaitsEnd
  BY <1>1 DEF WaitsEnd
<1> QED
  BY <1>2, LocksInvariant, PTL

(* Nothing happens to a thread that waits.                                 *)
LEMMA WaitersStay ==
  ASSUME TypeInv, LockInv, [Next]_vars,
         NEW t \in Threads, NEW u \in Threads, WaitsFor(t, u)
  PROVE  /\ at'[t] = at[t] /\ doing'[t] = doing[t]
         /\ t \in nested' <=> t \in nested
<1> USE DEF lockVars, threadVars
<1>1. /\ \/ at[t] \in {"lock_log"} \cup ReportingPlaces /\ logging_mtx # None
         \/ at[t] = "lock_mon" /\ monitoring_mtx # None
      /\ Users \subseteq Threads
  BY UsersOK DEF WaitsFor, Threads
<1>2. ASSUME NEW w \in Threads, Flush(w)
      PROVE  /\ w # t /\ UNCHANGED <<doing, nested>>
             /\ \E where : Goto(w, where)
  <2>1. UNCHANGED <<doing, nested>> /\ \E where : Goto(w, where)
    BY <1>2
    DEF Flush, Clear, LockLog, MergeLog, CheckLog, SendBatchLog, ClearAgain,
        LockMonitoring, MergeMonitoring, CheckMonitoring, SendBatchMonitoring,
        Prune
  <2>2. w # t
    BY <1>1, <1>2
    DEF Flush, Clear, LockLog, MergeLog, CheckLog, SendBatchLog, ClearAgain,
        LockMonitoring, MergeMonitoring, CheckMonitoring, SendBatchMonitoring,
        Prune
  <2> QED
    BY <2>1, <2>2
<1>3. ASSUME NEW w \in Threads, ReportMulticast(w) \/ GoOnReporting(w)
      PROVE  /\ w # t
             /\ t \in nested' <=> t \in nested
  <2>1. w # t
    BY <1>1, <1>3
    DEF ReportMulticast, GoOnReporting, ReportRepeat, Report, ReportFull, Reports
  <2>2. nested' \in {nested, nested \cup {w}}
    BY <1>3 DEF ReportMulticast, GoOnReporting, ReportRepeat, Report, AfterReport,
                ReturnToIdle, ReportFull
  <2> QED
    BY <2>1, <2>2
<1>4. ASSUME NEW w \in Users, UserCalls(w) \/ Returns(w)
      PROVE  w # t /\ UNCHANGED nested
  BY <1>1, <1>4
  DEF UserCalls, Returns, SendLogRepeat, SendLog, SendLogFull, SendLogTooLong,
      SendMonitoringTooLong, SendMonitoringMerged, SendMonitoringData, SendMonitoringFull, SendAlarm,
      SendAlarmAgain, SendLogReturn, SendMonitoringReturn, AlarmReturn,
      ReturnToIdle, Call
<1>5. CASE \E w \in Threads : Flush(w)
  BY <1>2, <1>5 DEF Goto, TypeInv, TypeOK
<1>6. CASE \E w \in Threads : ReportMulticast(w) \/ GoOnReporting(w)
  BY <1>3, <1>6, ReportStep
<1>7. CASE \E w \in Users : UserCalls(w) \/ Returns(w)
  BY <1>1, <1>4, <1>7, UserStep
<1>8. CASE Wake
  BY <1>1, <1>8 DEF Wake, Goto, TypeInv, TypeOK
<1>9. CASE Time \/ UNCHANGED vars \/ \E v, w \in Threads : Crash(v, w)
  BY <1>9 DEF Time, MergePeriodEnds, Age, Crash, vars
<1> QED
  BY <1>5, <1>6, <1>7, <1>8, <1>9, NextCases

DeadlockStays ==
  \A t, u \in Threads :
    WaitsFor(t, u) /\ WaitsFor(u, t) => (WaitsFor(t, u) /\ WaitsFor(u, t))'

(* A deadlock does not resolve: whatever the other threads do, a thread    *)
(* that waits for itself does so for ever, and so do two that wait for     *)
(* each other.                                                             *)
THEOREM DeadlocksStay == Spec => [][DeadlockStays]_vars
<1>1. ASSUME TypeInv, LockInv, LockInv', [Next]_vars,
             NEW t \in Threads, NEW u \in Threads,
             WaitsFor(t, u), WaitsFor(u, t)
      PROVE  WaitsFor(t, u)'
  <2>1. /\ at'[t] = at[t] /\ at'[u] = at[u] /\ doing'[u] = doing[u]
        /\ u \in nested' <=> u \in nested
    BY <1>1, WaitersStay
  <2>2. /\ logging_mtx = u => logging_mtx' = u
        /\ monitoring_mtx = u => monitoring_mtx' = u
    BY <1>1, <2>1 DEF LockInv, HasLoggingLock, HasMonitoringLock
  <2> QED
    BY <1>1, <2>1, <2>2 DEF WaitsFor
<1>2. TypeInv /\ LockInv /\ LockInv' /\ [Next]_vars => DeadlockStays
  BY <1>1 DEF DeadlockStays
<1> QED
  BY <1>2, LocksInvariant, PTL DEF Spec

----------------------------------------------------------------------------
(* A flush comes to an end.  The rank of a place is at least the number of *)
(* steps to the end of the function; a flush within a call begins at       *)
(* "report_mon" or at "long_mon", below all the places before it.          *)

PlaceRank(place) ==
  IF place \in {"long_log", "long_mon"} THEN 15
  ELSE IF place = "clear" THEN 14
  ELSE IF place = "lock_log" THEN 13
  ELSE IF place = "merge_log" THEN 12
  ELSE IF place = "check_log" THEN 11
  ELSE IF place = "send_log" THEN 10
  ELSE IF place = "report_log" THEN 9
  ELSE IF place = "clear_again" THEN 8
  ELSE IF place = "lock_mon" THEN 7
  ELSE IF place = "merge_mon" THEN 6
  ELSE IF place = "check_mon" THEN 5
  ELSE IF place = "send_mon" THEN 4
  ELSE IF place = "report_mon" THEN 3
  ELSE IF place = "prune" THEN 2
  ELSE IF place \in {"return", "send_alarm"} THEN 1
  ELSE 0

FlushRank(t) ==
  PlaceRank(at[t]) +
    (IF at[t] \in Merging \cup {"clear"} /\ t \notin nested THEN 14 ELSE 0)

StepOf(t) == Flush(t) \/ ReportMulticast(t) \/ GoOnReporting(t) \/ Returns(t)

FlushGoesOn(t) ==
  at[t] # "idle" =>
    IF StepOf(t)
    THEN FlushRank(t)' < FlushRank(t) /\ (FlushRank(t)' = 0 <=> at'[t] = "idle")
    ELSE UNCHANGED FlushRank(t)

LEMMA FlushRankRange ==
  ASSUME TypeInv, NEW t \in Threads
  PROVE  FlushRank(t) \in 0..28 /\ (FlushRank(t) = 0 <=> at[t] = "idle")
BY DEF FlushRank, PlaceRank, Merging, TypeInv, TypeOK

LEMMA FlushRankUnchanged ==
  ASSUME NEW t, at'[t] = at[t], t \in nested' <=> t \in nested
  PROVE  UNCHANGED FlushRank(t)
BY DEF FlushRank

LEMMA FlushRankFalls ==
  ASSUME TypeInv, NEW t \in Threads, StepOf(t)
  PROVE  FlushRank(t)' < FlushRank(t)
<1> USE DEF FlushRank, PlaceRank, Merging
<1>1. at \in [Threads -> Places]
  BY DEF TypeInv, TypeOK
<1>2. t \in nested => at[t] \in NestedPlaces /\ doing[t] = "log"
  BY DEF TypeInv, WorkInv
<1>3. ASSUME NEW where, Goto(t, where) PROVE at'[t] = where
  BY <1>1, <1>3 DEF Goto
<1>4. ASSUME Flush(t) PROVE FlushRank(t)' < FlushRank(t)
  <2>0. nested' = nested
    BY <1>4
    DEF Flush, Clear, LockLog, MergeLog, CheckLog, SendBatchLog, ClearAgain,
        LockMonitoring, MergeMonitoring, CheckMonitoring, SendBatchMonitoring,
        Prune, threadVars
  <2>1. CASE Clear(t) \/ LockLog(t) \/ MergeLog(t)
    BY <1>3, <2>0, <2>1 DEF Clear, LockLog, MergeLog
  <2>2. CASE CheckLog(t) \/ SendBatchLog(t) \/ ClearAgain(t)
    BY <1>3, <2>0, <2>2 DEF CheckLog, SendBatchLog, ClearAgain
  <2>3. CASE LockMonitoring(t) \/ MergeMonitoring(t)
    BY <1>3, <2>0, <2>3 DEF LockMonitoring, MergeMonitoring
  <2>4. CASE CheckMonitoring(t) \/ SendBatchMonitoring(t) \/ Prune(t)
    BY <1>2, <1>3, <2>0, <2>4
    DEF CheckMonitoring, SendBatchMonitoring, Prune, NestedPlaces
  <2> QED
    BY <1>4, <2>1, <2>2, <2>3, <2>4 DEF Flush
<1>5. CASE ReportMulticast(t)
  <2>1. nested' = nested
    BY <1>5 DEF ReportMulticast
  <2> QED
    BY <1>3, <1>5, <2>1 DEF ReportMulticast
<1>6. ASSUME NEW m \in Messages, ReportRepeat(t, m) \/ Report(t, m)
      PROVE  FlushRank(t)' < FlushRank(t)
  <2>1. /\ nested' = nested
        /\ \/ at[t] = "report_mon" /\ at'[t] = "prune"
           \/ at[t] = "long_mon" /\ at'[t] = "idle"
    BY <1>1, <1>3, <1>6 DEF ReportRepeat, Report, AfterReport, ReturnToIdle
  <2> QED
    BY <2>1
<1>7. ASSUME NEW m \in Messages, ReportFull(t, m)
      PROVE  FlushRank(t)' < FlushRank(t)
  <2>1. at[t] \in {"report_mon", "long_mon"} /\ at'[t] = "clear" /\ t \in nested'
    BY <1>1, <1>7 DEF ReportFull, Reports, BeginFlush
  <2>2. t \notin nested
    BY <1>2, <2>1 DEF NestedPlaces
  <2> QED
    BY <2>1, <2>2
<1>8. CASE Returns(t)
  <2>1. at[t] \in {"return", "send_alarm"} /\ at'[t] = "idle"
    BY <1>1, <1>8
    DEF Returns, SendLogReturn, SendMonitoringReturn, AlarmReturn, ReturnToIdle
  <2> QED
    BY <2>1
<1> QED
  BY <1>4, <1>5, <1>6, <1>7, <1>8 DEF StepOf, GoOnReporting

(* What the others do.                                                     *)
LEMMA FlushRankKept ==
  ASSUME TypeInv, LockInv, [Next]_vars, NEW t \in Threads, at[t] # "idle", ~StepOf(t)
  PROVE  UNCHANGED FlushRank(t)
<1> USE DEF lockVars, threadVars
<1>0. Users \subseteq Threads /\ at \in [Threads -> Places]
  BY DEF Threads, TypeInv, TypeOK
<1>1. ASSUME NEW w \in Threads, Flush(w) PROVE UNCHANGED FlushRank(t)
  <2>1. nested' = nested /\ \E where : Goto(w, where)
    BY <1>1
    DEF Flush, Clear, LockLog, MergeLog, CheckLog, SendBatchLog, ClearAgain,
        LockMonitoring, MergeMonitoring, CheckMonitoring, SendBatchMonitoring,
        Prune
  <2>2. w # t
    BY <1>1 DEF StepOf
  <2>3. at'[t] = at[t]
    BY <1>0, <2>1, <2>2 DEF Goto
  <2> QED
    BY <2>1, <2>3, FlushRankUnchanged
<1>2. ASSUME NEW w \in Threads, ReportMulticast(w) \/ GoOnReporting(w)
      PROVE  UNCHANGED FlushRank(t)
  <2>1. w # t
    BY <1>2 DEF StepOf
  <2>2. nested' \in {nested, nested \cup {w}}
    BY <1>2 DEF ReportMulticast, GoOnReporting, ReportRepeat, Report, AfterReport,
                ReturnToIdle, ReportFull
  <2>3. at'[t] = at[t]
    BY <1>2, <2>1, ReportStep
  <2> QED
    BY <2>1, <2>2, <2>3, FlushRankUnchanged
<1>3. ASSUME NEW w \in Users, UserCalls(w) \/ Returns(w)
      PROVE  UNCHANGED FlushRank(t)
  <2>1. UserCalls(w) => at[w] = "idle"
    BY DEF UserCalls, SendLogRepeat, SendLog, SendLogFull, SendMonitoringMerged,
           SendMonitoringData, SendMonitoringFull, SendLogTooLong,
           SendMonitoringTooLong, SendAlarm, SendAlarmAgain, Call
  <2>2. w # t
    BY <1>3, <2>1 DEF StepOf
  <2>3. nested' = nested
    BY <1>3
    DEF UserCalls, Returns, SendLogRepeat, SendLog, SendLogFull, SendLogTooLong,
        SendMonitoringMerged, SendMonitoringData, SendMonitoringFull,
        SendMonitoringTooLong, SendAlarm,
        SendAlarmAgain, SendLogReturn, SendMonitoringReturn, AlarmReturn,
        ReturnToIdle
  <2>4. at'[t] = at[t]
    BY <1>3, <2>2, UserStep
  <2> QED
    BY <2>3, <2>4, FlushRankUnchanged
<1>4. CASE Wake
  <2>1. at'[t] = at[t] /\ nested' = nested
    BY <1>0, <1>4 DEF Wake, Goto
  <2> QED
    BY <2>1, FlushRankUnchanged
<1>5. CASE Time \/ UNCHANGED vars \/ \E v, w \in Threads : Crash(v, w)
  <2>1. at' = at /\ nested' = nested
    BY <1>5 DEF Time, MergePeriodEnds, Age, Crash, vars
  <2> QED
    BY <2>1, FlushRankUnchanged
<1> QED
  BY <1>1, <1>2, <1>3, <1>4, <1>5, NextCases

(* A call that flushes, and a round of the buffer thread, is a bounded     *)
(* number of its thread's own steps, even if a report makes it flush again *)
(* within, and no other thread sets it back.  With                         *)
(* WaitsEndUnlessDeadlocked this is the safety half of LogsLeaveBuffer     *)
(* (BatchAndSendMulticast).                                                *)
THEOREM FlushesRunDown == Spec => [][\A t \in Threads : FlushGoesOn(t)]_vars
<1> DEFINE RankInv ==
      \A t \in Threads : FlushRank(t) \in 0..28 /\ (FlushRank(t) = 0 <=> at[t] = "idle")
<1>1. TypeInv => RankInv
  BY FlushRankRange
<1>2. ASSUME TypeInv, LockInv, RankInv', [Next]_vars, NEW t \in Threads
      PROVE  FlushGoesOn(t)
  <2>1. FlushRank(t)' = 0 <=> at'[t] = "idle"
    BY <1>2
  <2>2. StepOf(t) => FlushRank(t)' < FlushRank(t)
    BY <1>2, FlushRankFalls
  <2>3. at[t] # "idle" /\ ~StepOf(t) => UNCHANGED FlushRank(t)
    BY <1>2, FlushRankKept
  <2> QED
    BY <2>1, <2>2, <2>3, Zenon DEF FlushGoesOn
<1>3. TypeInv /\ LockInv /\ RankInv' /\ [Next]_vars => \A t \in Threads : FlushGoesOn(t)
  BY <1>2
<1> HIDE DEF RankInv
<1> QED
  BY <1>1, <1>3, LocksInvariant, PTL DEF Spec

----------------------------------------------------------------------------
(* The log messages.                                                       *)

LEMMA BufferedPut ==
  ASSUME TypeOK, NEW m, NEW call, Put(m, call)
  PROVE  BufferedLogs' = BufferedLogs \cup {call}
<1> DEFINE n == Len(logging_buf)
<1> DEFINE entry == [message |-> m, calls |-> {call}]
<1>1. n \in Nat /\ DOMAIN logging_buf = 1..n
  BY DEF TypeOK
<1>2. /\ logging_buf' = Append(logging_buf, entry)
      /\ DOMAIN logging_buf' = 1..(n + 1)
      /\ logging_buf'[n + 1] = entry
      /\ \A i \in 1..n : logging_buf'[i] = logging_buf[i]
  BY <1>1 DEF Put, TypeOK
<1>3. entry.calls = {call}
  OBVIOUS
<1>4. ASSUME NEW c PROVE c \in BufferedLogs' <=> c \in BufferedLogs \cup {call}
  <2>1. c \in BufferedLogs' <=> \E i \in 1..(n + 1) : c \in logging_buf'[i].calls
    BY <1>2 DEF BufferedLogs
  <2>2. c \in BufferedLogs <=> \E i \in 1..n : c \in logging_buf[i].calls
    BY <1>1 DEF BufferedLogs
  <2>3. \A i : i \in 1..(n + 1) <=> i \in 1..n \/ i = n + 1
    BY <1>1
  <2> HIDE DEF n, entry
  <2> QED
    BY <1>2, <1>3, <2>1, <2>2, <2>3
<1> QED
  BY <1>4

LEMMA BufferedRepeat ==
  ASSUME TypeOK, logging_buf # <<>>, NEW call,
         Repeat(call)
  PROVE  /\ BufferedLogs' = BufferedLogs \cup {call}
         /\ logging_buf' # <<>>
         /\ DOMAIN logging_buf' = DOMAIN logging_buf
         /\ \A i \in DOMAIN logging_buf : logging_buf[i].calls \subseteq logging_buf'[i].calls
<1> DEFINE n == Len(logging_buf)
<1>1. n \in Nat /\ n > 0 /\ DOMAIN logging_buf = 1..n
  BY DEF TypeOK
<1>2. logging_buf[n] \in LogEntries
  BY <1>1 DEF TypeOK
<1>3. /\ DOMAIN logging_buf' = 1..n
      /\ logging_buf'[n].calls = logging_buf[n].calls \cup {call}
      /\ \A i \in 1..n : i # n => logging_buf'[i] = logging_buf[i]
  BY <1>1, <1>2 DEF LogEntries, Repeat
<1>4. ASSUME NEW c PROVE c \in BufferedLogs' <=> c \in BufferedLogs \cup {call}
  <2>1. c \in BufferedLogs' <=> \E i \in 1..n : c \in logging_buf'[i].calls
    BY <1>3 DEF BufferedLogs
  <2>2. c \in BufferedLogs <=> \E i \in 1..n : c \in logging_buf[i].calls
    BY <1>1 DEF BufferedLogs
  <2>3. n \in 1..n
    BY <1>1
  <2> HIDE DEF n
  <2> QED
    BY <1>3, <2>1, <2>2, <2>3
<1>5. logging_buf' # <<>>
  BY <1>1 DEF Repeat, TypeOK
<1> QED
  BY <1>1, <1>3, <1>4, <1>5

(* A message leaves the buffer only with a batch that it is in, or that    *)
(* another thread disturbed.                                               *)
LEMMA AccountedStep ==
  TypeInv /\ LockInv /\ BatchInv /\ AcceptedLogsAccountedFor /\ [Next]_vars => AcceptedLogsAccountedFor'
<1> SUFFICES ASSUME TypeInv, LockInv, BatchInv, AcceptedLogsAccountedFor, [Next]_vars
             PROVE  AcceptedLogsAccountedFor'
  OBVIOUS
<1> USE DEF logVars, batchHistory
<1>1. CASE UNCHANGED <<logging_buf, unsent, failed, raced>>
  BY <1>1 DEF AcceptedLogsAccountedFor, BufferedLogs
<1>2. ASSUME NEW call, BufferedLogs' = BufferedLogs \cup {call},
             unsent' = unsent \cup {call}, UNCHANGED <<failed, raced>>
      PROVE  AcceptedLogsAccountedFor'
  BY <1>2 DEF AcceptedLogsAccountedFor
<1>9. SendMulticast => /\ unsent' \subseteq unsent /\ failed \subseteq failed'
                       /\ unsent' \cap merge_buf \subseteq failed'
  BY DEF SendMulticast
<1>3. ASSUME NEW t \in Threads, SendBatchLog(t) PROVE AcceptedLogsAccountedFor'
  <2>1. /\ at[t] = "send_log" /\ SendMulticast
        /\ raced' = IF t \in disturbed
                    THEN raced \cup ((BufferedLogs \cap unsent) \ merge_buf) ELSE raced
    BY <1>3 DEF SendBatchLog
  <2>2. t \notin disturbed => merge_buf = BufferedLogs
    BY <2>1 DEF BatchInv, BatchOK
  <2> QED
    BY <1>9, <2>1, <2>2 DEF AcceptedLogsAccountedFor
<1>4. ASSUME NEW t \in Threads, Flush(t), ~SendBatchLog(t)
      PROVE  AcceptedLogsAccountedFor'
  <2>1. UNCHANGED <<logging_buf, raced>> /\ (SendMulticast \/ UNCHANGED <<unsent, failed>>)
    BY <1>4
    DEF Flush, Clear, LockLog, MergeLog, CheckLog, ClearAgain, LockMonitoring,
        MergeMonitoring, CheckMonitoring, SendBatchMonitoring, Prune
  <2> QED
    BY <1>9, <2>1 DEF AcceptedLogsAccountedFor, BufferedLogs
<1>5. ASSUME NEW t \in Users, UserCalls(t) PROVE AcceptedLogsAccountedFor'
  <2>1. ASSUME NEW m \in Messages, SendLogRepeat(t, m) PROVE AcceptedLogsAccountedFor'
    BY <1>2, <2>1, BufferedRepeat DEF SendLogRepeat, Repeats, TypeInv
  <2>2. ASSUME NEW m \in Messages, SendLog(t, m) PROVE AcceptedLogsAccountedFor'
    <3>1. PutLog(m, calls') /\ UNCHANGED <<failed, raced>>
      BY <2>2 DEF SendLog
    <3>2. BufferedLogs' = BufferedLogs \cup {calls'} /\ unsent' = unsent \cup {calls'}
      BY <3>1, BufferedPut DEF PutLog, TypeInv
    <3> QED
      BY <1>2, <3>1, <3>2
  <2> QED
    BY <1>1, <1>5, <2>1, <2>2
    DEF UserCalls, SendLogFull, SendLogTooLong, SendMonitoringMerged,
        SendMonitoringData, SendMonitoringFull, SendMonitoringTooLong, SendAlarm,
        SendAlarmAgain
<1>6. ASSUME NEW t \in Users, Returns(t) PROVE AcceptedLogsAccountedFor'
  <2>1. CASE SendLogReturn(t)
    <3>1. PutLog(what[t], id[t]) /\ UNCHANGED <<failed, raced>>
      BY <2>1 DEF SendLogReturn
    <3>2. BufferedLogs' = BufferedLogs \cup {id[t]} /\ unsent' = unsent \cup {id[t]}
      BY <3>1, BufferedPut DEF PutLog, TypeInv
    <3> QED
      BY <1>2, <3>1, <3>2
  <2> QED
    BY <1>1, <1>6, <2>1 DEF Returns, SendMonitoringReturn, AlarmReturn
<1>8. ASSUME NEW t \in Threads, ReportMulticast(t) \/ GoOnReporting(t)
      PROVE  AcceptedLogsAccountedFor'
  <2>1. raced' = raced
    BY <1>8, ReportStep
  <2>2. SendMulticast \/ UNCHANGED <<unsent, failed>>
    BY <1>8
    DEF ReportMulticast, GoOnReporting, ReportRepeat, Report, AfterReport, ReportFull
  <2>3. ASSUME NEW m \in Messages, ReportRepeat(t, m) \/ Report(t, m)
        PROVE  BufferedLogs \subseteq BufferedLogs'
    BY <2>3, BufferedRepeat, BufferedPut DEF ReportRepeat, Report, Repeats, TypeInv
  <2>4. UNCHANGED logging_buf => BufferedLogs' = BufferedLogs
    BY DEF BufferedLogs
  <2>5. BufferedLogs \subseteq BufferedLogs'
    BY <1>8, <2>3, <2>4 DEF ReportMulticast, GoOnReporting, ReportFull
  <2> QED
    BY <1>9, <2>1, <2>2, <2>5 DEF AcceptedLogsAccountedFor
<1>7. ASSUME Wake \/ Time \/ UNCHANGED vars \/ \E t, u \in Threads : Crash(t, u)
      PROVE  UNCHANGED <<logging_buf, unsent, failed, raced>>
  BY <1>7 DEF Wake, Time, MergePeriodEnds, Age, Crash, vars
<1> QED
  BY <1>1, <1>3, <1>4, <1>5, <1>6, <1>7, <1>8, NextCases

(* An accepted log message that no multicast has sent is in the buffer, or *)
(* was lost with a batch whose multicast failed, or by a flush to whose    *)
(* string another thread had written: AcceptedLogsAccountedFor of the runs *)
(* (ServicesBuffer).                                                       *)
THEOREM AcceptedLogsAreAccountedFor == Spec => []AcceptedLogsAccountedFor
<1>1. Init => AcceptedLogsAccountedFor
  BY DEF Init, AcceptedLogsAccountedFor
<1> QED
  BY TypeInvInit, TypeInvStep, LockInvInit, LockInvStep, BatchInvInit, BatchInvStep,
     AccountedStep, <1>1, PTL DEF Spec

----------------------------------------------------------------------------
(* The room a full sender makes.                                           *)

AfterLog == {"clear_again", "lock_mon", "merge_mon", "check_mon", "send_mon",
             "report_mon", "prune", "return"}

EntriesInv ==
  /\ \A i \in DOMAIN logging_buf : logging_buf[i].calls # {}
  /\ logging_buf = <<>> => logging_bytes = 0

RoomInv ==
  /\ EntriesInv
  /\ \A t \in Threads \ disturbed :
       doing[t] = "log" /\ at[t] \in AfterLog => logging_buf = <<>>

LEMMA RoomInvInit == Init => RoomInv
<1> SUFFICES ASSUME Init PROVE RoomInv
  OBVIOUS
<1>1. logging_buf = <<>> /\ logging_bytes = 0
  BY DEF Init
<1> QED
  BY <1>1 DEF RoomInv, EntriesInv

LEMMA RoomInvFlush ==
  ASSUME TypeInv, BatchInv, RoomInv, NEW t \in Threads, Flush(t)
  PROVE  RoomInv'
<1> USE DEF logVars
<1>1. CASE SendBatchLog(t)
  <2>1. logging_buf' = <<>> /\ logging_bytes' = 0
    BY <1>1 DEF SendBatchLog
  <2> QED
    BY <2>1 DEF RoomInv, EntriesInv
<1>2. CASE ~SendBatchLog(t)
  <2>1. UNCHANGED logVars /\ doing' = doing
    BY <1>2
    DEF Flush, Clear, LockLog, MergeLog, CheckLog, ClearAgain, LockMonitoring,
        MergeMonitoring, CheckMonitoring, SendBatchMonitoring, Prune
  <2>2. EntriesInv'
    BY <2>1 DEF RoomInv, EntriesInv
  <2>3. \A u \in Threads : doing[u] = "log" /\ u \in disturbed => u \in disturbed'
    BY <1>2
    DEF Flush, Clear, LockLog, MergeLog, CheckLog, ClearAgain, LockMonitoring,
        MergeMonitoring, CheckMonitoring, SendBatchMonitoring, Prune, SetMergeBuf, TypeInv,
        WorkInv, NestedPlaces
  <2>4. ASSUME NEW where, Goto(t, where)
        PROVE  at'[t] = where /\ \A u \in Threads \ {t} : at'[u] = at[u]
    BY <2>4 DEF Goto, TypeInv, TypeOK
  <2>5. PICK where : /\ Goto(t, where)
                     /\ \/ where \notin AfterLog
                        \/ at[t] \in AfterLog
                        \/ CheckLog(t) /\ merge_buf = {}
    BY <1>2
    DEF Flush, Clear, LockLog, MergeLog, CheckLog, ClearAgain, LockMonitoring,
        MergeMonitoring, CheckMonitoring, SendBatchMonitoring, Prune, AfterLog
  <2>6. ASSUME CheckLog(t), merge_buf = {}, t \notin disturbed PROVE logging_buf = <<>>
    <3>1. BufferedLogs = {}
      BY <2>6 DEF CheckLog, BatchInv, BatchOK
    <3>2. DOMAIN logging_buf = {}
      BY <3>1 DEF BufferedLogs, RoomInv, EntriesInv
    <3>3. logging_buf \in Seq(LogEntries)
      BY DEF TypeInv, TypeOK
    <3> QED
      BY <3>2, <3>3
  <2>7. ASSUME NEW u \in Threads \ disturbed', doing'[u] = "log", at'[u] \in AfterLog
        PROVE  logging_buf' = <<>>
    <3>1. u \notin disturbed /\ doing[u] = "log"
      BY <2>1, <2>3, <2>7
    <3>2. CASE u # t
      BY <2>1, <2>4, <2>5, <2>7, <3>1, <3>2 DEF RoomInv
    <3>3. CASE u = t
      BY <2>1, <2>4, <2>5, <2>6, <2>7, <3>1, <3>3 DEF RoomInv
    <3> QED
      BY <3>2, <3>3
  <2> QED
    BY <2>2, <2>7 DEF RoomInv
<1> QED
  BY <1>1, <1>2

LEMMA EntriesPut ==
  ASSUME TypeOK, EntriesInv, NEW m, NEW call, Put(m, call)
  PROVE  EntriesInv'
<1> DEFINE n == Len(logging_buf)
<1> DEFINE entry == [message |-> m, calls |-> {call}]
<1>1. n \in Nat /\ DOMAIN logging_buf = 1..n
  BY DEF TypeOK
<1>2. /\ DOMAIN logging_buf' = 1..(n + 1)
      /\ logging_buf'[n + 1] = entry
      /\ \A i \in 1..n : logging_buf'[i] = logging_buf[i]
      /\ logging_buf' # <<>>
  BY <1>1, SMTT(30) DEF Put, TypeOK
<1>3. entry.calls # {}
  OBVIOUS
<1>4. ASSUME NEW i \in 1..(n + 1) PROVE logging_buf'[i].calls # {}
  <2>1. CASE i = n + 1
    <3> HIDE DEF entry
    <3> QED
      BY <1>2, <1>3, <2>1
  <2>2. CASE i # n + 1
    <3>1. i \in 1..n
      BY <1>1, <2>2
    <3> QED
      BY <1>1, <1>2, <3>1 DEF EntriesInv
  <2> QED
    BY <2>1, <2>2
<1> QED
  BY <1>2, <1>4 DEF EntriesInv

LEMMA EntriesRepeat ==
  ASSUME TypeOK, EntriesInv, NEW m, NEW call, Repeats(m), Repeat(call)
  PROVE  EntriesInv'
<1>1. /\ logging_buf' # <<>>
      /\ DOMAIN logging_buf' = DOMAIN logging_buf
      /\ \A i \in DOMAIN logging_buf : logging_buf[i].calls \subseteq logging_buf'[i].calls
  BY BufferedRepeat DEF Repeats
<1> QED
  BY <1>1 DEF EntriesInv

LEMMA RoomInvUsers ==
  ASSUME TypeInv, LockInv, RoomInv, NEW t \in Users, UserCalls(t) \/ Returns(t)
  PROVE  RoomInv'
<1> USE DEF logVars
<1>1. UNCHANGED logVars => EntriesInv'
  BY DEF RoomInv, EntriesInv
<1>2. ASSUME UserCalls(t) PROVE EntriesInv'
  <2>1. ASSUME NEW m \in Messages, SendLogRepeat(t, m) PROVE EntriesInv'
    BY <2>1, EntriesRepeat DEF SendLogRepeat, TypeInv, RoomInv
  <2>2. ASSUME NEW m \in Messages, SendLog(t, m) PROVE EntriesInv'
    BY <2>2, EntriesPut DEF SendLog, PutLog, TypeInv, RoomInv
  <2> QED
    BY <1>1, <1>2, <2>1, <2>2
    DEF UserCalls, SendLogFull, SendLogTooLong, SendMonitoringMerged,
        SendMonitoringData, SendMonitoringFull, SendMonitoringTooLong, SendAlarm,
        SendAlarmAgain
<1>3. ASSUME Returns(t) PROVE EntriesInv'
  <2>1. CASE SendLogReturn(t)
    BY <2>1, EntriesPut DEF SendLogReturn, PutLog, TypeInv, RoomInv
  <2> QED
    BY <1>1, <1>3, <2>1 DEF Returns, SendMonitoringReturn, AlarmReturn
<1>4. ASSUME NEW u \in Threads \ disturbed', doing'[u] = "log", at'[u] \in AfterLog
      PROVE  logging_buf' = <<>>
  <2>1. u # t
    BY <1>4, UserStep DEF AfterLog
  <2>2. at'[u] = at[u] /\ doing'[u] = doing[u] /\ u \notin disturbed
    BY <1>4, <2>1, UserStep
  <2>3. HasLoggingLock(u)
    BY <1>4, <2>2 DEF HasLoggingLock
  <2>4. UNCHANGED logVars
    BY <2>1, <2>3, UserStep
  <2> QED
    BY <1>4, <2>2, <2>4 DEF RoomInv
<1>5. EntriesInv'
  BY <1>2, <1>3
<1> QED
  BY <1>4, <1>5 DEF RoomInv

LEMMA RoomInvReport ==
  ASSUME TypeInv, LockInv, RoomInv, NEW t \in Threads, ReportMulticast(t) \/ GoOnReporting(t)
  PROVE  RoomInv'
<1> USE DEF logVars
<1>1. EntriesInv'
  <2>1. UNCHANGED logVars => EntriesInv'
    BY DEF RoomInv, EntriesInv
  <2>2. ASSUME NEW m \in Messages, ReportRepeat(t, m) \/ Report(t, m) PROVE EntriesInv'
    BY <2>2, EntriesRepeat, EntriesPut DEF ReportRepeat, Report, TypeInv, RoomInv
  <2> QED
    BY <2>1, <2>2 DEF ReportMulticast, GoOnReporting, ReportFull
<1>2. ASSUME NEW u \in Threads \ disturbed', doing'[u] = "log", at'[u] \in AfterLog
      PROVE  logging_buf' = <<>>
  <2>1. CASE u # t
    <3>1. at'[u] = at[u] /\ doing'[u] = doing[u] /\ u \notin disturbed
      BY <1>2, <2>1, ReportStep
    <3>2. UNCHANGED logVars
      BY <1>2, <2>1, <3>1, ReportStep DEF HasLoggingLock
    <3> QED
      BY <1>2, <3>1, <3>2 DEF RoomInv
  <2>2. CASE u = t
    <3>1. CASE ReportMulticast(t)
      <4>1. at[t] = "send_mon" /\ UNCHANGED <<logVars, doing, disturbed>>
        BY <1>2, <2>2, <3>1 DEF ReportMulticast, Goto, AfterLog, TypeInv, TypeOK
      <4> QED
        BY <1>2, <2>2, <4>1 DEF RoomInv, AfterLog
    <3>2. CASE GoOnReporting(t)
      <4>1. logging_mtx = None /\ t # None
        BY <3>2, UsersOK DEF GoOnReporting, ReportRepeat, Report, ReportFull, Reports
      <4>2. doing[t] # "log"
        BY <4>1 DEF LockInv, HasLoggingLock
      <4>3. ASSUME NEW m \in Messages, ReportRepeat(t, m) \/ Report(t, m)
            PROVE  doing'[t] # "log" \/ at'[t] = "idle"
        <5>1. AfterReport(t)
          BY <4>3 DEF ReportRepeat, Report
        <5> QED
          BY <4>2, <5>1 DEF AfterReport, ReturnToIdle, TypeInv, TypeOK
      <4>4. PICK m \in Messages : ReportFull(t, m)
        BY <1>2, <2>2, <3>2, <4>3 DEF GoOnReporting, AfterLog
      <4>5. at'[t] = "clear"
        BY <4>4 DEF ReportFull, BeginFlush, TypeInv, TypeOK
      <4> QED
        BY <1>2, <2>2, <4>5 DEF AfterLog
    <3> QED
      BY <3>1, <3>2
  <2> QED
    BY <2>1, <2>2
<1> QED
  BY <1>1, <1>2 DEF RoomInv

LEMMA RoomInvStep ==
  TypeInv /\ LockInv /\ BatchInv /\ RoomInv /\ [Next]_vars => RoomInv'
<1> SUFFICES ASSUME TypeInv, LockInv, BatchInv, RoomInv, [Next]_vars PROVE RoomInv'
  OBVIOUS
<1>1. ASSUME Wake \/ Time \/ UNCHANGED vars \/ \E t, u \in Threads : Crash(t, u)
      PROVE  /\ UNCHANGED <<logging_buf, logging_bytes, doing, disturbed>>
             /\ \A t \in Threads : at'[t] = at[t] \/ at'[t] = "clear"
  <2>1. UNCHANGED <<logging_buf, logging_bytes, doing, disturbed>>
    BY <1>1 DEF Wake, Time, MergePeriodEnds, Age, Crash, vars, logVars, threadVars
  <2>2. Wake => \A t \in Threads : at'[t] = at[t] \/ at'[t] = "clear"
    BY DEF Wake, Goto, TypeInv, TypeOK
  <2>3. ~Wake => at' = at
    BY <1>1 DEF Time, MergePeriodEnds, Age, Crash, vars, threadVars
  <2> QED
    BY <2>1, <2>2, <2>3
<1>2. CASE Wake \/ Time \/ UNCHANGED vars \/ \E t, u \in Threads : Crash(t, u)
  BY <1>1, <1>2 DEF RoomInv, EntriesInv, AfterLog
<1> QED
  BY <1>2, RoomInvFlush, RoomInvUsers, RoomInvReport, NextCases

(* A flush that no other thread disturbs sends the buffer it clears, and   *)
(* leaves a full sender an empty one: UndisturbedFlush of the runs         *)
(* (ServicesBuffer).                                                       *)
THEOREM UndisturbedFlushes == Spec => []UndisturbedFlush
<1>1. BatchInv /\ RoomInv => UndisturbedFlush
  BY DEF BatchInv, BatchOK, RoomInv, EntriesInv, AfterLog, UndisturbedFlush
<1> QED
  BY TypeInvInit, TypeInvStep, LockInvInit, LockInvStep, BatchInvInit, BatchInvStep,
     RoomInvInit, RoomInvStep, <1>1, PTL DEF Spec

----------------------------------------------------------------------------
(* The alarms.                                                             *)

AlarmInv ==
  \A a \in Alarms : alarm_age[a] \in {"second", "fresh"} => a \in alarm_buf \cup pruned

LEMMA AlarmInvStep == TypeInv /\ AlarmInv /\ [Next]_vars => AlarmInv'
<1> SUFFICES ASSUME TypeInv, AlarmInv, [Next]_vars PROVE AlarmInv'
  OBVIOUS
<1> USE DEF alarmVars
<1>1. CASE UNCHANGED alarmVars
  BY <1>1 DEF AlarmInv
<1>2. ASSUME NEW t \in Threads, Prune(t) PROVE AlarmInv'
  BY <1>2 DEF Prune, AlarmInv
<1>3. ASSUME NEW t \in Users, NEW a \in Alarms, SendAlarm(t, a) PROVE AlarmInv'
  <2>1. /\ alarm_buf' = (alarm_buf \ OldAlarms) \cup {a} /\ pruned' = pruned \ {a}
        /\ \A b \in Alarms \ {a} : alarm_age'[b] = alarm_age[b]
    BY <1>3 DEF SendAlarm, TypeInv, TypeOK
  <2> QED
    BY <2>1 DEF AlarmInv, OldAlarms
<1>4. ASSUME NEW t \in Users, NEW a \in Alarms, NEW erased \in SUBSET OldAlarms,
             SendAlarmAgain(t, a, erased)
      PROVE  AlarmInv'
  BY <1>4 DEF SendAlarmAgain, AlarmInv, OldAlarms
<1>5. ASSUME NEW a \in Alarms, Age(a) PROVE AlarmInv'
  <2>1. /\ alarm_buf' = alarm_buf /\ pruned \ {a} \subseteq pruned'
        /\ alarm_age'[a] = "fresh" => alarm_age[a] = "second" /\ pruned' = pruned
        /\ alarm_age'[a] # "second"
        /\ \A b \in Alarms \ {a} : alarm_age'[b] = alarm_age[b]
    BY <1>5 DEF Age, TypeInv, TypeOK
  <2> QED
    BY <2>1 DEF AlarmInv
<1>6. ASSUME NEW t \in Threads, Flush(t), ~Prune(t) PROVE UNCHANGED alarmVars
  BY <1>6
  DEF Flush, Clear, LockLog, MergeLog, CheckLog, SendBatchLog, ClearAgain,
      LockMonitoring, MergeMonitoring, CheckMonitoring, SendBatchMonitoring
<1>10. ASSUME NEW t \in Threads, ReportMulticast(t) \/ GoOnReporting(t)
       PROVE  UNCHANGED alarmVars
  BY <1>10 DEF ReportMulticast, GoOnReporting, ReportRepeat, Report, ReportFull
<1>7. ASSUME NEW t \in Users, UserCalls(t) \/ Returns(t) PROVE AlarmInv'
  BY <1>1, <1>3, <1>4, <1>7
  DEF UserCalls, Returns, SendLogRepeat, SendLog, SendLogFull, SendMonitoringMerged,
      SendLogTooLong, SendMonitoringData, SendMonitoringFull, SendMonitoringTooLong,
      SendLogReturn, SendMonitoringReturn, AlarmReturn
<1>8. ASSUME Wake \/ UNCHANGED vars \/ \E t, u \in Threads : Crash(t, u)
      PROVE  UNCHANGED alarmVars
  BY <1>8 DEF Wake, Crash, vars
<1>9. CASE Time
  BY <1>1, <1>5, <1>9 DEF Time, MergePeriodEnds
<1> QED
  BY <1>1, <1>2, <1>6, <1>7, <1>8, <1>9, <1>10, NextCases

(* Only SendAlarm puts a thread on its way to sending an alarm.            *)
LEMMA OnlySendAlarmSends ==
  ASSUME TypeInv, [Next]_vars, NEW a \in Alarms, SendsAlarm(a)
  PROVE  a \notin alarm_buf \ OldAlarms
<1>1. PICK v \in Users : at[v] # "send_alarm" /\ at'[v] = "send_alarm" /\ what'[v] = a
  BY DEF SendsAlarm
<1>2. at \in [Threads -> Places]
      /\ what \in [Threads -> Messages \cup Subjects \cup Alarms \cup {None}]
  BY DEF TypeInv, TypeOK
<1>3. ASSUME NEW t, NEW where, at' = [at EXCEPT ![t] = where]
      PROVE  where = "send_alarm" /\ t = v
  BY <1>1, <1>2, <1>3 DEF Threads
<1>4. at' # at
  BY <1>1
<1> USE DEF threadVars
<1>5. ~\E t \in Threads : Flush(t)
  <2> SUFFICES ASSUME NEW t \in Threads, Flush(t) PROVE FALSE
    OBVIOUS
  <2>1. PICK where : Goto(t, where) /\ where # "send_alarm"
    BY DEF Flush, Clear, LockLog, MergeLog, CheckLog, SendBatchLog, ClearAgain,
           LockMonitoring, MergeMonitoring, CheckMonitoring, SendBatchMonitoring, Prune
  <2> QED
    BY <1>3, <2>1 DEF Goto
<1>12. ~\E t \in Threads : ReportMulticast(t) \/ GoOnReporting(t)
  <2> SUFFICES ASSUME NEW t \in Threads, ReportMulticast(t) \/ GoOnReporting(t) PROVE FALSE
    OBVIOUS
  <2>1. PICK where : at' = [at EXCEPT ![t] = where] /\ where # "send_alarm"
    BY DEF ReportMulticast, GoOnReporting, ReportRepeat, Report, AfterReport, ReturnToIdle,
           ReportFull, Goto, BeginFlush
  <2> QED
    BY <1>3, <2>1
<1>6. ~(Wake \/ Time \/ UNCHANGED vars \/ \E t, u \in Threads : Crash(t, u))
  BY <1>3, <1>4 DEF Wake, Goto, Time, MergePeriodEnds, Age, Crash, vars
<1>7. ~\E t \in Users : Returns(t)
  BY <1>3 DEF Returns, SendLogReturn, SendMonitoringReturn, AlarmReturn, ReturnToIdle
<1>8. PICK t \in Users : UserCalls(t)
  BY <1>5, <1>6, <1>7, <1>12, NextCases
<1>9. PICK b \in Alarms : SendAlarm(t, b)
  BY <1>3, <1>4, <1>8
  DEF UserCalls, SendLogRepeat, SendLog, SendLogFull, BeginFlush, SendMonitoringMerged,
      SendMonitoringData, SendMonitoringFull, SendLogTooLong, SendMonitoringTooLong,
      SendAlarmAgain
<1>10. t = v
  BY <1>3, <1>9 DEF SendAlarm
<1>11. a = b
  BY <1>1, <1>2, <1>9, <1>10 DEF SendAlarm, Threads
<1> QED
  BY <1>9, <1>11 DEF SendAlarm

(* No alarm is sent a second time within its cooldown, unless the buffer   *)
(* thread or a full sender forgot it in the second of its first sending:   *)
(* AlarmSentOnce of the runs (ServicesBuffer).                             *)
THEOREM AlarmsAreSentOnce == Spec => AlarmSentOnce
<1>1. Init => AlarmInv
  BY DEF Init, AlarmInv
<1>2. TypeInv /\ AlarmInv /\ [Next]_vars =>
        [\A a \in Alarms \ pruned : SendsAlarm(a) => alarm_age[a] = "old"]_vars
  <2> SUFFICES ASSUME TypeInv, AlarmInv, [Next]_vars,
                      NEW a \in Alarms \ pruned, SendsAlarm(a)
               PROVE  alarm_age[a] = "old"
    OBVIOUS
  <2>1. a \notin alarm_buf \ OldAlarms
    BY OnlySendAlarmSends
  <2>2. alarm_age[a] \in AlarmAges
    BY DEF TypeInv, TypeOK
  <2> QED
    BY <2>1, <2>2 DEF AlarmInv, OldAlarms, AlarmAges
<1> QED
  BY TypeInvInit, TypeInvStep, LockInvInit, LockInvStep, <1>1, AlarmInvStep, <1>2, PTL
  DEF Spec, AlarmSentOnce
============================================================================
