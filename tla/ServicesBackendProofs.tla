----------------------- MODULE ServicesBackendProofs -----------------------
(* Theorems about ServicesBackend for any number of calls and middlemen.   *)
EXTENDS ServicesBackend, TLAPS

USE DEF Calls, Ids, NoCall

(* Every variable of the command channel keeps its type.                   *)
THEOREM TypeCorrect == Spec => []TypeOK
<1>1. Init => TypeOK
  BY ConstantsOK DEF Init, TypeOK, Promise
<1>2. TypeOK /\ [Next]_vars => TypeOK'
  <2> SUFFICES ASSUME TypeOK, [Next]_vars
               PROVE  TypeOK'
    OBVIOUS
  <2> USE ConstantsOK DEF TypeOK, Promise, Goto, BgGoto, Return, callerVars,
          promiseVars, queueVars, bgVars, netVars
  <2>1. ASSUME NEW n \in Calls, Invoke(n) PROVE TypeOK'
    BY <2>1 DEF Invoke, NextId
  <2>2. ASSUME NEW n \in Calls, FileTicket(n) PROVE TypeOK'
    BY <2>2 DEF FileTicket
  <2>3. ASSUME NEW n \in Calls, QueueCommand(n) PROVE TypeOK'
    BY <2>3, SMTT(30) DEF QueueCommand
  <2>4. ASSUME NEW n \in Calls, SendTimeout(n) PROVE TypeOK'
    BY <2>4 DEF SendTimeout
  <2>5. ASSUME NEW n \in Calls, SendFailed(n) PROVE TypeOK'
    BY <2>5 DEF SendFailed
  <2>6. ASSUME NEW n \in Calls, SendConfirmed(n) PROVE TypeOK'
    BY <2>6 DEF SendConfirmed
  <2>7. ASSUME NEW n \in Calls, SendBroken(n) PROVE TypeOK'
    BY <2>7 DEF SendBroken
  <2>8. ASSUME NEW n \in Calls, Withdraw(n) PROVE TypeOK'
    BY <2>8, ZenonT(40) DEF Withdraw, Erased
  <2>9. ASSUME NEW n \in Calls, ResponseTimeout(n) PROVE TypeOK'
    BY <2>9 DEF ResponseTimeout
  <2>10. ASSUME NEW n \in Calls, TakeResponse(n) PROVE TypeOK'
    BY <2>10, ZenonT(40) DEF TakeResponse
  <2>11. CASE BgTerminate
    BY <2>11 DEF BgTerminate
  <2>12. CASE ReceiveNothing
    BY <2>12 DEF ReceiveNothing
  <2>13. ASSUME NEW r \in inbox, ReceiveReply(r) PROVE TypeOK'
    BY <2>13 DEF ReceiveReply
  <2>14. CASE MatchTicket
    BY <2>14 DEF MatchTicket
  <2>15. CASE DropReply
    BY <2>15 DEF DropReply
  <2>16. CASE LookUpTicket
    <3>1. held.id \in Ids
      BY DEF Reply, NoReply
    <3> QED BY <2>16, <3>1 DEF LookUpTicket
  <2>17. CASE Crash
    BY <2>17 DEF Crash
  <2>18. CASE FulfilTicket
    BY <2>18, ZenonT(40) DEF FulfilTicket
  <2>19. CASE EraseTicket
    BY <2>19 DEF EraseTicket, Erased
  <2>20. CASE NothingToSend
    BY <2>20 DEF NothingToSend
  <2>21. CASE PopCommand
    <3>1. Head(waiting_senders) \in Calls /\ Tail(waiting_senders) \in Seq(Calls)
      BY <2>21 DEF PopCommand
    <3> QED BY <2>21, <3>1 DEF PopCommand
  <2>22. CASE Transmit
    BY <2>22 DEF Transmit
  <2>23. CASE TransmitFails
    BY <2>23 DEF TransmitFails
  <2>24. CASE TransmitThrows
    BY <2>24 DEF TransmitThrows
  <2>25. CASE NotifyCaller
    BY <2>25 DEF NotifyCaller, SetReceipt
  <2>26. CASE FinaliseSignal
    BY <2>26 DEF FinaliseSignal
  <2>27. CASE FinaliseSenders
    BY <2>27 DEF FinaliseSenders
  <2>28. CASE FinaliseRecipients
    BY <2>28 DEF FinaliseRecipients
  <2>29. ASSUME NEW n \in Calls, NEW m \in Middlemen, NEW kind \in ReplyKinds,
                Answer(n, m, kind)
         PROVE  TypeOK'
    BY <2>29, SMTT(30) DEF Answer, Reply
  <2>30. CASE LoseRequest
    BY <2>30 DEF LoseRequest
  <2>31. CASE LoseReply
    BY <2>31 DEF LoseReply
  <2>32. CASE UNCHANGED vars
    BY <2>32 DEF vars
  <2> QED
    BY <2>1, <2>2, <2>3, <2>4, <2>5, <2>6, <2>7, <2>8, <2>9, <2>10, <2>11,
       <2>12, <2>13, <2>14, <2>15, <2>16, <2>17, <2>18, <2>19, <2>20, <2>21,
       <2>22, <2>23, <2>24, <2>25, <2>26, <2>27, <2>28, <2>29, <2>30, <2>31,
       <2>32 DEF Next, CallerWork, CallerTimeout, Background, FinaliseWork,
       Environment
<1>3. QED
  BY <1>1, <1>2, PTL DEF Spec

----------------------------------------------------------------------------
(* Ids.  They wrap after IdModulus calls, so that two calls may have the   *)
(* same one, but not two that are closer to each other than that.          *)

(* Calls take their ids in order; of two calls less than IdModulus apart   *)
(* the ids are as far apart, with or without a wrap between them.          *)
IdInv ==
  /\ msg_id = IF calls = 0 THEN Seed ELSE id[calls]
  /\ \A n \in Calls : pc[n] = "new" <=> n > calls
  /\ \A m, n \in Calls : m < n /\ n <= calls /\ n - m < IdModulus =>
       id[n] = id[m] + (n - m) \/ id[n] = id[m] + (n - m) - IdModulus

(* Something of call n is left that the background thread compares ids     *)
(* with: its ticket, or the reply the thread holds.                        *)
HasTicket(n) == \E i \in Ids : waiting_recipients[i] = n
ReplyHeld(n) ==
  bg \in {"match", "found", "fulfil", "erase"} /\ held.call = n

(* Its ticket and its held reply are gone before IdModulus more calls are  *)
(* made.  A run of the program in which 2^32 calls pass a stale ticket     *)
(* (a response timeout leaves one) or a late reply does not satisfy this.  *)
NoRelics ==
  \A n \in Calls : HasTicket(n) \/ ReplyHeld(n) => calls - n < IdModulus

(* A ticket is filed under the id of its call, which has been made.        *)
TicketInv ==
  \A i \in Ids :
    waiting_recipients[i] # NoCall =>
      /\ id[waiting_recipients[i]] = i
      /\ waiting_recipients[i] <= calls

(* Requests, replies and whatever the background thread holds carry the id *)
(* of the call they belong to.                                             *)
FlightInv ==
  /\ \A k \in 1 .. Len(waiting_senders) : waiting_senders[k] <= calls
  /\ \A q \in wire : q[1] <= calls
  /\ \A r \in inbox : r.call <= calls /\ r.id = id[r.call]
  /\ bg \in {"match", "found", "fulfil", "erase"} =>
       held.call <= calls /\ held.id = id[held.call]
  /\ bg \in {"fulfil", "erase"} =>
       current <= calls /\ id[current] = held.id
  /\ bg \in {"transmit", "notify_sent", "notify_failed"} => current <= calls

ReferenceInv == TypeOK /\ IdInv /\ TicketInv /\ FlightInv

(* Only a new call touches the counter, the ids, or who is "new".          *)
LEMMA OnlyInvokeTakesIds ==
  ASSUME TypeOK, [Next]_vars, ~ \E n \in Calls : Invoke(n)
  PROVE  /\ UNCHANGED <<calls, msg_id, id>>
         /\ \A n \in Calls : pc'[n] = "new" <=> pc[n] = "new"
<1> USE DEF TypeOK, Goto, Return, callerVars
<1>1. ASSUME NEW n \in Calls, CallerWork(n) \/ CallerTimeout(n)
      PROVE  /\ UNCHANGED <<calls, msg_id, id>>
             /\ \A k \in Calls : pc'[k] = "new" <=> pc[k] = "new"
  BY <1>1 DEF CallerWork, CallerTimeout, FileTicket, QueueCommand, SendTimeout,
              SendFailed, SendConfirmed, SendBroken, Withdraw, ResponseTimeout,
              TakeResponse
<1>2. CASE UNCHANGED callerVars
  BY <1>2
<1>3. Background => UNCHANGED callerVars
  BY DEF Background, BgTerminate, ReceiveNothing, ReceiveReply, MatchTicket,
         DropReply, LookUpTicket, Crash, FulfilTicket, EraseTicket,
         NothingToSend, PopCommand, Transmit, TransmitFails, TransmitThrows,
         NotifyCaller
<1>4. FinaliseSignal \/ FinaliseWork \/ Environment \/ UNCHANGED vars
        => UNCHANGED callerVars
  BY DEF FinaliseSignal, FinaliseWork, FinaliseSenders, FinaliseRecipients,
         Environment, Answer, LoseRequest, LoseReply, vars
<1> QED
  BY <1>1, <1>2, <1>3, <1>4 DEF Next

LEMMA IdInvStep ==
  ASSUME TypeOK, IdInv, [Next]_vars
  PROVE  /\ IdInv'
         /\ calls' \in Nat /\ calls <= calls'
         /\ \A n \in Calls : n <= calls => id'[n] = id[n]
<1>1. ASSUME NEW n \in Calls, Invoke(n)
      PROVE  /\ IdInv'
             /\ calls' \in Nat /\ calls <= calls'
             /\ \A k \in Calls : k <= calls => id'[k] = id[k]
  <2>1. /\ n = calls + 1 /\ calls' = n /\ pc' = [pc EXCEPT ![n] = "ticket"]
        /\ msg_id' = NextId(msg_id)
        /\ id' = [id EXCEPT ![n] = NextId(msg_id)]
    BY <1>1 DEF Invoke, Goto
  <2>2. \A k \in Calls : k # n => id'[k] = id[k] /\ pc'[k] = pc[k]
    BY <2>1 DEF TypeOK
  <2>3. id'[n] = NextId(msg_id) /\ pc'[n] = "ticket"
    BY <2>1 DEF TypeOK
  <2>4. msg_id' = IF calls' = 0 THEN Seed ELSE id'[calls']
    BY <2>1, <2>3, ConstantsOK
  <2>5. \A k \in Calls : pc'[k] = "new" <=> k > calls'
    BY <2>1, <2>2, <2>3, ConstantsOK DEF IdInv, TypeOK
  <2>6. ASSUME NEW m \in Calls, m < n, n - m < IdModulus
        PROVE  id'[n] = id'[m] + (n - m) \/ id'[n] = id'[m] + (n - m) - IdModulus
    <3>1. m <= calls /\ calls \in Calls /\ msg_id = id[calls] /\ calls < n
      BY <2>1, <2>6, ConstantsOK DEF IdInv, TypeOK
    <3>2. id'[m] = id[m] /\ id[m] \in 0 .. IdModulus - 1
          /\ id[calls] \in 0 .. IdModulus - 1
      BY <2>2, <2>6, <3>1, ConstantsOK DEF TypeOK
    <3>3. \/ id[calls] = id[m] + (calls - m)
          \/ id[calls] = id[m] + (calls - m) - IdModulus
      <4>1. CASE m = calls
        BY <3>2, <4>1, ConstantsOK
      <4>2. CASE m < calls
        <5>1. calls - m < IdModulus
          BY <2>1, <2>6, <3>1, <4>2, ConstantsOK
        <5> QED
          BY <3>1, <4>2, <5>1, ConstantsOK DEF IdInv
      <4> QED
        BY <3>1, <4>1, <4>2, ConstantsOK
    <3>4. id'[n] = IF id[calls] = IdModulus - 1 THEN 0 ELSE id[calls] + 1
      BY <2>3, <3>1 DEF NextId
    <3> QED
      BY <2>1, <2>6, <3>1, <3>2, <3>3, <3>4, ConstantsOK
  <2>7. ASSUME NEW j \in Calls, NEW k \in Calls,
               j < k, k <= calls', k - j < IdModulus
        PROVE  id'[k] = id'[j] + (k - j) \/ id'[k] = id'[j] + (k - j) - IdModulus
    <3>1. CASE k = n
      BY <2>6, <2>7, <3>1
    <3>2. CASE k # n
      <4>1. j # n /\ k <= calls
        BY <2>1, <2>7, <3>2, ConstantsOK DEF TypeOK
      <4> QED
        BY <2>2, <2>7, <3>2, <4>1 DEF IdInv
    <3> QED
      BY <3>1, <3>2
  <2> QED
    BY <2>1, <2>2, <2>4, <2>5, <2>7, ConstantsOK DEF IdInv, TypeOK
<1>2. CASE ~ \E n \in Calls : Invoke(n)
  <2>1. /\ UNCHANGED <<calls, msg_id, id>>
        /\ \A n \in Calls : pc'[n] = "new" <=> pc[n] = "new"
    BY <1>2, OnlyInvokeTakesIds
  <2> QED
    BY <2>1, ConstantsOK DEF IdInv, TypeOK
<1> QED
  BY <1>1, <1>2

LEMMA TicketInvStep ==
  ASSUME TypeOK, IdInv, TicketInv, [Next]_vars
  PROVE  TicketInv'
<1> USE ConstantsOK DEF TypeOK, TicketInv
<1>0. /\ calls' \in Nat /\ calls <= calls'
      /\ \A n \in Calls : n <= calls => id'[n] = id[n]
  BY IdInvStep
<1>1. ASSUME NEW n \in Calls, FileTicket(n) PROVE TicketInv'
  <2>1. n <= calls /\ id' = id /\ calls' = calls
    BY <1>1 DEF FileTicket, Goto, IdInv
  <2>2. \/ waiting_recipients' = waiting_recipients
        \/ waiting_recipients' = [waiting_recipients EXCEPT ![id[n]] = n]
    BY <1>1 DEF FileTicket
  <2>3. \A i \in Ids : waiting_recipients'[i] = waiting_recipients[i]
                       \/ (waiting_recipients'[i] = n /\ i = id[n])
    BY <2>2
  <2> QED
    BY <2>1, <2>3
<1>2. ASSUME NEW n \in Calls, Withdraw(n) PROVE TicketInv'
  BY <1>0, <1>2 DEF Withdraw, Erased
<1>3. CASE EraseTicket
  BY <1>0, <1>3 DEF EraseTicket, Erased
<1>4. CASE FinaliseRecipients
  BY <1>0, <1>4 DEF FinaliseRecipients
<1>5. CASE UNCHANGED waiting_recipients
  BY <1>0, <1>5
<1>6. \/ UNCHANGED waiting_recipients \/ EraseTicket \/ FinaliseRecipients
      \/ \E n \in Calls : FileTicket(n) \/ Withdraw(n)
  <2>1. ASSUME NEW n \in Calls,
               Invoke(n) \/ CallerWork(n) \/ CallerTimeout(n)
        PROVE  UNCHANGED waiting_recipients \/ FileTicket(n) \/ Withdraw(n)
    BY <2>1 DEF CallerWork, CallerTimeout, Invoke, QueueCommand, SendTimeout,
                SendFailed, SendConfirmed, SendBroken, ResponseTimeout,
                TakeResponse, queueVars
  <2>2. Background => UNCHANGED waiting_recipients \/ EraseTicket
    BY DEF Background, BgTerminate, ReceiveNothing, ReceiveReply, MatchTicket,
           DropReply, LookUpTicket, Crash, FulfilTicket, NothingToSend,
           PopCommand, Transmit, TransmitFails, TransmitThrows, NotifyCaller,
           queueVars
  <2>3. FinaliseSignal \/ FinaliseWork \/ Environment \/ UNCHANGED vars
          => UNCHANGED waiting_recipients \/ FinaliseRecipients
    BY DEF FinaliseSignal, FinaliseWork, FinaliseSenders, Environment, Answer,
           LoseRequest, LoseReply, vars, queueVars
  <2> QED
    BY <2>1, <2>2, <2>3 DEF Next
<1> QED
  BY <1>1, <1>2, <1>3, <1>4, <1>5, <1>6

LEMMA FlightInvStep ==
  ASSUME TypeOK, IdInv, TicketInv, FlightInv, [Next]_vars
  PROVE  FlightInv'
<1> USE ConstantsOK DEF TypeOK, FlightInv
<1>0. /\ calls' \in Nat /\ calls <= calls'
      /\ \A n \in Calls : n <= calls => id'[n] = id[n]
      /\ \A r \in Reply : r.call \in Calls
  BY IdInvStep DEF Reply
<1>1. ASSUME NEW n \in Calls, QueueCommand(n) PROVE FlightInv'
  <2>1. n <= calls
    BY <1>1 DEF QueueCommand, Goto, IdInv
  <2>2. \A k \in 1 .. Len(waiting_senders') : waiting_senders'[k] <= calls
    <3>1. waiting_senders' = Append(waiting_senders, n)
      BY <1>1 DEF QueueCommand
    <3>2. /\ Len(waiting_senders') = Len(waiting_senders) + 1
          /\ waiting_senders'[Len(waiting_senders) + 1] = n
          /\ \A k \in 1 .. Len(waiting_senders) :
               waiting_senders'[k] = waiting_senders[k]
      BY <3>1
    <3>3. /\ Len(waiting_senders) \in Nat
          /\ \A k \in 1 .. Len(waiting_senders) : waiting_senders[k] <= calls
      OBVIOUS
    <3> HIDE DEF FlightInv, TypeOK
    <3>4. ASSUME NEW k \in 1 .. Len(waiting_senders')
          PROVE  waiting_senders'[k] <= calls
      <4>1. k \in 1 .. Len(waiting_senders) \/ k = Len(waiting_senders) + 1
        BY <3>2, <3>3
      <4> QED BY <2>1, <3>2, <3>3, <4>1
    <3> QED
      BY <3>4
  <2>3. UNCHANGED <<calls, id, bgVars, netVars>>
    BY <1>1 DEF QueueCommand
  <2> QED
    BY <2>2, <2>3 DEF bgVars, netVars
<1>2. ASSUME NEW n \in Calls,
             \/ Invoke(n) \/ FileTicket(n) \/ CallerTimeout(n)
             \/ SendFailed(n) \/ SendConfirmed(n) \/ SendBroken(n)
             \/ Withdraw(n) \/ TakeResponse(n)
      PROVE  FlightInv'
  <2>1. UNCHANGED <<waiting_senders, bgVars, netVars>>
    BY <1>2 DEF Invoke, FileTicket, CallerTimeout, SendTimeout,
                ResponseTimeout, SendFailed, SendConfirmed, SendBroken,
                Withdraw, TakeResponse, queueVars
  <2> QED
    BY <1>0, <2>1, SMTT(30) DEF bgVars, netVars
<1>3. ASSUME NEW r \in inbox, ReceiveReply(r) PROVE FlightInv'
  BY <1>0, <1>3, SMTT(30) DEF ReceiveReply, BgGoto, queueVars
<1>4. CASE LookUpTicket
  <2>1. held.id \in Ids
    BY <1>4 DEF LookUpTicket, BgGoto, Reply
  <2>2. UNCHANGED <<calls, id, held, waiting_senders, netVars>>
    BY <1>4 DEF LookUpTicket, callerVars, queueVars
  <2>3. current' <= calls /\ id[current'] = held.id
    BY <1>4, <2>1 DEF LookUpTicket, TicketInv
  <2>4. bg = "found" /\ bg' = "fulfil"
    BY <1>4 DEF LookUpTicket, BgGoto
  <2> QED
    BY <2>2, <2>3, <2>4 DEF netVars
<1>5. CASE PopCommand
  <2>1. Head(waiting_senders) <= calls
    BY <1>5 DEF PopCommand
  <2>2. \A k \in 1 .. Len(waiting_senders') : waiting_senders'[k] <= calls
    BY <1>5 DEF PopCommand
  <2> QED
    BY <1>0, <1>5, <2>1, <2>2, SMTT(30) DEF PopCommand, BgGoto, netVars
<1>6. CASE Transmit
  BY <1>0, <1>6 DEF Transmit, BgGoto, queueVars
<1>7. CASE \/ BgTerminate \/ ReceiveNothing \/ MatchTicket \/ DropReply
           \/ Crash \/ FulfilTicket \/ EraseTicket \/ NothingToSend
           \/ TransmitFails \/ TransmitThrows \/ NotifyCaller
  <2>1. UNCHANGED <<waiting_senders, wire, inbox>>
    BY <1>7 DEF BgTerminate, ReceiveNothing, MatchTicket, DropReply, Crash,
                FulfilTicket, EraseTicket, NothingToSend, TransmitFails,
                TransmitThrows, NotifyCaller, queueVars, netVars
  <2>2. /\ bg' \in {"match", "found", "fulfil", "erase"} =>
             /\ held' = held
             /\ bg \in {"match", "found", "fulfil", "erase"}
        /\ bg' \in {"fulfil", "erase"} =>
             /\ current' = current
             /\ bg \in {"fulfil", "erase"}
        /\ bg' \in {"transmit", "notify_sent", "notify_failed"} =>
             /\ current' = current
             /\ bg \in {"transmit", "notify_sent", "notify_failed"}
    BY <1>7 DEF BgTerminate, ReceiveNothing, MatchTicket, DropReply, Crash,
                FulfilTicket, EraseTicket, NothingToSend, TransmitFails,
                TransmitThrows, NotifyCaller, BgGoto
  <2>3. UNCHANGED <<calls, id>>
    BY <1>7 DEF BgTerminate, ReceiveNothing, MatchTicket, DropReply, Crash,
                FulfilTicket, EraseTicket, NothingToSend, TransmitFails,
                TransmitThrows, NotifyCaller, callerVars
  <2> QED
    BY <2>1, <2>2, <2>3
<1>8. CASE FinaliseSenders
  BY <1>0, <1>8 DEF FinaliseSenders, bgVars
<1>9. ASSUME NEW n \in Calls, NEW m \in Middlemen, NEW kind \in ReplyKinds,
             Answer(n, m, kind)
      PROVE  FlightInv'
  BY <1>0, <1>9 DEF Answer, bgVars, queueVars, callerVars
<1>10. CASE \/ FinaliseSignal \/ FinaliseRecipients \/ LoseRequest
            \/ LoseReply \/ UNCHANGED vars
  <2>1. /\ UNCHANGED <<waiting_senders, bgVars>>
        /\ wire' \subseteq wire /\ inbox' \subseteq inbox
    BY <1>10 DEF FinaliseSignal, FinaliseRecipients, LoseRequest, LoseReply,
                 vars, queueVars, netVars
  <2> QED
    BY <1>0, <2>1, SMTT(30) DEF bgVars
<1> QED
  BY <1>1, <1>2, <1>3, <1>4, <1>5, <1>6, <1>7, <1>8, <1>9, <1>10
     DEF Next, CallerWork, Background, FinaliseWork, Environment

(* Two calls with the same id are IdModulus calls apart, or one.           *)
LEMMA SameIdFarApart ==
  ASSUME TypeOK, IdInv, NEW m \in Calls, NEW n \in Calls,
         m < n, n <= calls, id[m] = id[n]
  PROVE  n - m >= IdModulus
<1> SUFFICES ASSUME n - m < IdModulus PROVE FALSE
  BY ConstantsOK
<1>1. id[n] = id[m] + (n - m) \/ id[n] = id[m] + (n - m) - IdModulus
  BY DEF IdInv
<1>2. id[m] \in 0 .. IdModulus - 1
  BY DEF TypeOK
<1> QED
  BY <1>1, <1>2, ConstantsOK

(* The reply in the background thread's hands is for the call whose ticket *)
(* it found.                                                               *)
LEMMA TicketIsForHeldReply ==
  ASSUME TypeOK, IdInv, FlightInv, NoRelics, bg = "fulfil",
         waiting_recipients[held.id] = current
  PROVE  held.call = current
<1>1. /\ held.call \in Calls /\ current \in Calls /\ held.id \in Ids
      /\ calls \in 0 .. MaxCalls
  BY DEF TypeOK, Reply
<1>2. id[current] = id[held.call] /\ current <= calls /\ held.call <= calls
  BY DEF FlightInv
<1>3. HasTicket(current) /\ ReplyHeld(held.call)
  BY <1>1 DEF HasTicket, ReplyHeld
<1>4. calls - current < IdModulus /\ calls - held.call < IdModulus
  BY <1>1, <1>3 DEF NoRelics
<1>5. ASSUME current < held.call PROVE FALSE
  <2>1. held.call - current >= IdModulus
    BY <1>1, <1>2, <1>5, SameIdFarApart
  <2> QED
    BY <1>1, <1>2, <1>4, <2>1, ConstantsOK
<1>6. ASSUME held.call < current PROVE FALSE
  <2>1. current - held.call >= IdModulus
    BY <1>1, <1>2, <1>6, SameIdFarApart
  <2> QED
    BY <1>1, <1>2, <1>4, <2>1, ConstantsOK
<1> QED
  BY <1>1, <1>5, <1>6, ConstantsOK

(* Only FulfilTicket answers a call.                                       *)
LEMMA OnlyFulfilAnswers ==
  ASSUME TypeOK, [Next]_vars, ~ FulfilTicket
  PROVE  /\ reply' = reply
         /\ \A n \in Calls : response'[n] = "ready" => response[n] = "ready"
<1> USE DEF TypeOK, promiseVars
<1>1. ASSUME NEW n \in Calls,
             Invoke(n) \/ CallerWork(n) \/ CallerTimeout(n)
      PROVE  /\ reply' = reply
             /\ \A k \in Calls : response'[k] = "ready" => response[k] = "ready"
  BY <1>1 DEF Invoke, CallerWork, CallerTimeout, FileTicket, QueueCommand,
              SendTimeout, SendFailed, SendConfirmed, SendBroken, Withdraw,
              Erased, ResponseTimeout, TakeResponse
<1>2. CASE Background
  BY <1>2 DEF Background, BgTerminate, ReceiveNothing, ReceiveReply,
         MatchTicket, DropReply, LookUpTicket, Crash, EraseTicket, Erased,
         NothingToSend, PopCommand, Transmit, TransmitFails, TransmitThrows,
         NotifyCaller
<1>3. CASE FinaliseSignal \/ FinaliseWork \/ Environment \/ UNCHANGED vars
  BY <1>3 DEF FinaliseSignal, FinaliseWork, FinaliseSenders,
         FinaliseRecipients, Environment, Answer, LoseRequest, LoseReply, vars
<1> QED
  BY <1>1, <1>2, <1>3 DEF Next

LEMMA CorrelationStep ==
  ASSUME TypeOK, IdInv, FlightInv, NoRelics, ReplyMatchesCommand, [Next]_vars
  PROVE  ReplyMatchesCommand'
<1>1. CASE FulfilTicket
  <2>1. bg = "fulfil"
    BY <1>1 DEF FulfilTicket, BgGoto
  <2>2. waiting_recipients[held.id] = current => held.call = current
    BY <2>1, TicketIsForHeldReply
  <2>3. \/ /\ waiting_recipients[held.id] = current
           /\ response' = [response EXCEPT ![current] = "ready"]
           /\ reply' = [reply EXCEPT ![current] = held]
        \/ UNCHANGED <<response, reply>>
    BY <1>1 DEF FulfilTicket
  <2>4. \A n \in Calls :
          \/ reply'[n] = held /\ n = current /\ held.call = current
          \/ reply'[n] = reply[n] /\ response'[n] = response[n]
    BY <2>2, <2>3 DEF TypeOK
  <2> QED
    BY <2>4 DEF ReplyMatchesCommand
<1>2. CASE ~ FulfilTicket
  BY <1>2, OnlyFulfilAnswers DEF ReplyMatchesCommand
<1> QED
  BY <1>1, <1>2

LEMMA ReferenceInvariant == Spec => []ReferenceInv
<1>1. Init => IdInv /\ TicketInv /\ FlightInv
  BY ConstantsOK DEF Init, IdInv, TicketInv, FlightInv
<1>2. TypeOK /\ IdInv /\ TicketInv /\ FlightInv /\ [Next]_vars
      => (IdInv /\ TicketInv /\ FlightInv)'
  BY IdInvStep, TicketInvStep, FlightInvStep
<1> QED
  BY <1>1, <1>2, TypeCorrect, PTL DEF Spec, ReferenceInv

(* No call is ever handed the reply to another call's command, for as long *)
(* as nothing of a call outlives the round of the ids.                     *)
THEOREM RepliesMatch == Spec /\ []NoRelics => []ReplyMatchesCommand
<1>1. Init => ReplyMatchesCommand
  BY DEF Init, ReplyMatchesCommand
<1>2. ReferenceInv /\ NoRelics /\ ReplyMatchesCommand /\ [Next]_vars
        => ReplyMatchesCommand'
  BY CorrelationStep DEF ReferenceInv
<1> QED
  BY <1>1, <1>2, ReferenceInvariant, PTL DEF Spec

(* With no more calls than there are ids no id is used twice, and nothing  *)
(* more is asked for.                                                      *)
THEOREM FewCallsLeaveNoRelics ==
  ASSUME MaxCalls <= IdModulus
  PROVE  Spec => []NoRelics
<1>1. TypeOK => NoRelics
  <2> SUFFICES ASSUME calls \in 0 .. MaxCalls, NEW n \in Calls
               PROVE  calls - n < IdModulus
    BY DEF TypeOK, NoRelics
  <2> QED
    BY ConstantsOK
<1> QED
  BY <1>1, TypeCorrect, PTL

----------------------------------------------------------------------------
(* Tickets are not lost.                                                   *)

LEMMA TicketKeptStep ==
  ASSUME TypeOK, IdInv, PendingCallHasTicket, [Next]_vars
  PROVE  PendingCallHasTicket'
<1> USE ConstantsOK DEF TypeOK, PendingCallHasTicket
<1>1. ASSUME NEW n \in Calls, Invoke(n) PROVE PendingCallHasTicket'
  <2>1. /\ pc' = [pc EXCEPT ![n] = "ticket"]
        /\ \A k \in Calls : k # n => id'[k] = id[k]
        /\ UNCHANGED <<response, waiting_recipients>>
    BY <1>1 DEF Invoke, Goto, promiseVars, queueVars
  <2> QED
    BY <2>1
<1>2. ASSUME NEW n \in Calls, FileTicket(n) PROVE PendingCallHasTicket'
  <2>1. pc' = [pc EXCEPT ![n] = "queue"] /\ id' = id
    BY <1>2 DEF FileTicket, Goto
  <2>2. CASE waiting_recipients[id[n]] = NoCall
    <3>1. /\ waiting_recipients' = [waiting_recipients EXCEPT ![id[n]] = n]
          /\ response' = response
      BY <1>2, <2>2 DEF FileTicket
    <3> QED
      BY <2>1, <2>2, <3>1
  <2>3. CASE waiting_recipients[id[n]] # NoCall
    <3>1. /\ response' = [response EXCEPT ![n] = "broken"]
          /\ waiting_recipients' = waiting_recipients
      BY <1>2, <2>3 DEF FileTicket
    <3> QED
      BY <2>1, <3>1
  <2> QED
    BY <2>2, <2>3
<1>3. ASSUME NEW n \in Calls, Withdraw(n) PROVE PendingCallHasTicket'
  <2>1. pc' = [pc EXCEPT ![n] = "returned"] /\ id' = id
    BY <1>3 DEF Withdraw, Return, Goto
  <2>2. Erased(id[n])
    BY <1>3 DEF Withdraw
  <2> QED
    BY <2>1, <2>2 DEF Erased
<1>4. CASE EraseTicket
  BY <1>4 DEF EraseTicket, Erased, callerVars
<1>5. CASE FinaliseRecipients
  BY <1>5 DEF FinaliseRecipients, callerVars
<1>6. CASE FulfilTicket
  BY <1>6 DEF FulfilTicket, callerVars, queueVars
<1>7. ASSUME NEW n \in Calls,
             \/ QueueCommand(n) \/ CallerTimeout(n) \/ SendFailed(n)
             \/ SendConfirmed(n) \/ SendBroken(n) \/ TakeResponse(n)
      PROVE  PendingCallHasTicket'
  <2>1. /\ UNCHANGED <<id, response, waiting_recipients>>
        /\ pc[n] \in {"queue", "sending", "receiving"}
        /\ \A k \in Calls : k # n => pc'[k] = pc[k]
    BY <1>7 DEF QueueCommand, CallerTimeout, SendTimeout, ResponseTimeout,
                SendFailed, SendConfirmed, SendBroken, TakeResponse, Goto,
                Return, promiseVars, queueVars
  <2> QED
    BY <2>1
<1>8. CASE UNCHANGED <<callerVars, response, waiting_recipients>>
  BY <1>8 DEF callerVars
<1>9. Background =>
        \/ UNCHANGED <<callerVars, response, waiting_recipients>>
        \/ FulfilTicket \/ EraseTicket
  BY DEF Background, BgTerminate, ReceiveNothing, ReceiveReply, MatchTicket,
         DropReply, LookUpTicket, Crash, NothingToSend, PopCommand, Transmit,
         TransmitFails, TransmitThrows, NotifyCaller, promiseVars, queueVars
<1>10. FinaliseSignal \/ FinaliseWork \/ Environment \/ UNCHANGED vars =>
         \/ UNCHANGED <<callerVars, response, waiting_recipients>>
         \/ FinaliseRecipients
  BY DEF FinaliseSignal, FinaliseWork, FinaliseSenders, Environment, Answer,
         LoseRequest, LoseReply, vars, promiseVars, queueVars
<1> HIDE DEF TypeOK, PendingCallHasTicket
<1> QED
  BY <1>1, <1>2, <1>3, <1>4, <1>5, <1>6, <1>7, <1>8, <1>9, <1>10
     DEF Next, CallerWork

(* A call that waits and has no answer keeps its ticket.                   *)
THEOREM TicketsKept == Spec => []PendingCallHasTicket
<1>1. Init => PendingCallHasTicket
  BY DEF Init, PendingCallHasTicket
<1>2. ReferenceInv /\ PendingCallHasTicket /\ [Next]_vars
        => PendingCallHasTicket'
  BY TicketKeptStep DEF ReferenceInv
<1> QED
  BY <1>1, <1>2, ReferenceInvariant, PTL DEF Spec

----------------------------------------------------------------------------
(* Results are truthful.                                                   *)

Submitted(n) == pc[n] \notin {"new", "ticket", "queue"}
InSend == bg \in {"transmit", "notify_sent", "notify_failed"}

(* A command is in one place at a time: not queued yet, queued, in the     *)
(* background thread's hands, or receipted; and a failed send touches      *)
(* nothing.                                                                *)
SendInv ==
  /\ \A j, k \in 1 .. Len(waiting_senders) :
       waiting_senders[j] = waiting_senders[k] => j = k
  /\ \A n \in Calls : Queued(n) =>
       /\ Submitted(n) /\ receipt[n] = "pending" /\ Untouched(n)
       /\ ~ (InSend /\ current = n)
  /\ InSend => Submitted(current) /\ receipt[current] = "pending"
  /\ bg \in {"transmit", "notify_failed"} => Untouched(current)
  /\ \A n \in Calls :
       ~ Submitted(n) => receipt[n] = "pending" /\ Untouched(n)
  /\ \A n \in Calls : receipt[n] = "failed" => Untouched(n)
  /\ \A n \in Calls :
       pc[n] = "withdraw_failed" \/ result[n] = "unsent"
         => receipt[n] = "failed"

(* A reply exists only for a command a middleman acted on.                 *)
AnswerInv ==
  /\ \A r \in inbox : r.call \in executed
  /\ bg \in {"match", "found", "fulfil", "erase"} => held.call \in executed
  /\ \A n \in Calls : response[n] = "ready" => reply[n].call \in executed
  /\ \A n \in Calls : result[n] = "ok" => n \in executed

(* Only sending a command touches it.                                      *)
LEMMA UntouchedStable ==
  ASSUME [Next]_vars, NEW k \in Calls, Untouched(k),
         ~ (Transmit /\ current = k)
  PROVE  Untouched(k)'
<1> USE DEF Untouched, netVars
<1>1. ASSUME NEW n \in Calls,
             Invoke(n) \/ CallerWork(n) \/ CallerTimeout(n)
      PROVE  Untouched(k)'
  BY <1>1 DEF Invoke, CallerWork, CallerTimeout, FileTicket, QueueCommand,
              SendTimeout, SendFailed, SendConfirmed, SendBroken, Withdraw,
              ResponseTimeout, TakeResponse
<1>2. CASE Transmit
  BY <1>2 DEF Transmit
<1>3. CASE Background /\ ~ Transmit
  BY <1>3 DEF Background, BgTerminate, ReceiveNothing, ReceiveReply,
         MatchTicket, DropReply, LookUpTicket, Crash, FulfilTicket,
         EraseTicket, NothingToSend, PopCommand, TransmitFails,
         TransmitThrows, NotifyCaller
<1>4. CASE FinaliseSignal \/ FinaliseWork \/ LoseRequest \/ LoseReply
           \/ UNCHANGED vars
  BY <1>4 DEF FinaliseSignal, FinaliseWork, FinaliseSenders,
         FinaliseRecipients, LoseRequest, LoseReply, vars
<1>5. ASSUME NEW n \in Calls, NEW m \in Middlemen, NEW kind \in ReplyKinds,
             Answer(n, m, kind)
      PROVE  Untouched(k)'
  BY <1>5 DEF Answer
<1> QED
  BY <1>1, <1>2, <1>3, <1>4, <1>5 DEF Next, Environment

LEMMA HeadOfQueue ==
  ASSUME NEW q \in Seq(Calls), q # <<>>
  PROVE  Head(q) \in Calls
<1>1. Len(q) \in Nat /\ Len(q) # 0
  OBVIOUS
<1>2. q[1] \in Calls /\ Head(q) = q[1]
  BY <1>1, ConstantsOK
<1> QED
  BY <1>2

LEMMA QueueAfterAppend ==
  ASSUME TypeOK, NEW n \in Calls, QueueCommand(n), ~ Queued(n),
         \A j, k \in 1 .. Len(waiting_senders) :
           waiting_senders[j] = waiting_senders[k] => j = k
  PROVE  /\ \A k \in Calls : Queued(k)' <=> Queued(k) \/ k = n
         /\ \A j, k \in 1 .. Len(waiting_senders') :
              waiting_senders'[j] = waiting_senders'[k] => j = k
<1>1. waiting_senders \in Seq(Calls) /\ waiting_senders' = Append(waiting_senders, n)
  BY DEF TypeOK, QueueCommand
<1>2. /\ Len(waiting_senders) \in Nat
      /\ Len(waiting_senders') = Len(waiting_senders) + 1
      /\ waiting_senders'[Len(waiting_senders) + 1] = n
      /\ \A k \in 1 .. Len(waiting_senders) :
           waiting_senders'[k] = waiting_senders[k]
  BY <1>1
<1>3. \A k \in 1 .. Len(waiting_senders') :
        k \in 1 .. Len(waiting_senders) \/ k = Len(waiting_senders) + 1
  BY <1>2
<1>4. Len(waiting_senders) + 1 \in 1 .. Len(waiting_senders')
      /\ 1 .. Len(waiting_senders) \subseteq 1 .. Len(waiting_senders')
  BY <1>2
<1> QED
  BY <1>2, <1>3, <1>4 DEF Queued

LEMMA QueueAfterPop ==
  ASSUME TypeOK, PopCommand,
         \A j, k \in 1 .. Len(waiting_senders) :
           waiting_senders[j] = waiting_senders[k] => j = k
  PROVE  /\ \A k \in Calls : k = current' => Queued(k) /\ ~ Queued(k)'
         /\ \A k \in Calls : Queued(k)' => Queued(k)
         /\ \A j, k \in 1 .. Len(waiting_senders') :
              waiting_senders'[j] = waiting_senders'[k] => j = k
<1>1. /\ waiting_senders \in Seq(Calls) /\ waiting_senders # <<>>
      /\ waiting_senders' = Tail(waiting_senders)
      /\ current' = Head(waiting_senders)
  BY DEF TypeOK, PopCommand
<1>2. /\ Len(waiting_senders) \in Nat \ {0}
      /\ Len(waiting_senders') = Len(waiting_senders) - 1
      /\ current' = waiting_senders[1]
      /\ \A k \in 1 .. Len(waiting_senders') :
           /\ waiting_senders'[k] = waiting_senders[k + 1]
           /\ k + 1 \in 1 .. Len(waiting_senders)
  BY <1>1
<1>3. 1 \in 1 .. Len(waiting_senders)
  BY <1>2
<1>4. ASSUME NEW n \in Calls, n = current'
      PROVE  ~ Queued(n)'
  <2> SUFFICES ASSUME NEW k \in 1 .. Len(waiting_senders'),
                      waiting_senders'[k] = n
               PROVE  FALSE
    BY DEF Queued
  <2>1. k + 1 = 1
    BY <1>2, <1>3, <1>4
  <2> QED
    BY <2>1, <1>2
<1>5. \A n \in Calls : n = current' => Queued(n)
  BY <1>2, <1>3 DEF Queued
<1>6. \A k \in Calls : Queued(k)' => Queued(k)
  BY <1>2 DEF Queued
<1>7. \A j, k \in 1 .. Len(waiting_senders') :
        waiting_senders'[j] = waiting_senders'[k] => j = k
  <2> SUFFICES ASSUME NEW j \in 1 .. Len(waiting_senders'),
                      NEW k \in 1 .. Len(waiting_senders'),
                      waiting_senders'[j] = waiting_senders'[k]
               PROVE  j = k
    OBVIOUS
  <2>1. j + 1 = k + 1
    BY <1>2
  <2> QED
    BY <2>1
<1> QED
  BY <1>4, <1>5, <1>6, <1>7

LEMMA SendInvStep ==
  ASSUME TypeOK, SendInv, [Next]_vars
  PROVE  SendInv'
<1> USE DEF InSend, Submitted
<1>0. \A k \in Calls :
        Untouched(k) /\ ~ (Transmit /\ current = k) => Untouched(k)'
  BY UntouchedStable
<1>1. ASSUME NEW n \in Calls, QueueCommand(n) PROVE SendInv'
  <2>1. /\ pc[n] = "queue" /\ pc' = [pc EXCEPT ![n] = "sending"]
        /\ UNCHANGED <<receipt, result, bg, current>>
    BY <1>1 DEF QueueCommand, Goto, promiseVars, bgVars
  <2>2. ~ Transmit
    BY <1>1, <2>1 DEF Transmit, BgGoto
  <2>3. ~ Queued(n) /\ ~ (InSend /\ current = n)
    BY <2>1 DEF SendInv
  <2>4. /\ \A k \in Calls : Queued(k)' <=> Queued(k) \/ k = n
        /\ \A j, k \in 1 .. Len(waiting_senders') :
             waiting_senders'[j] = waiting_senders'[k] => j = k
    BY <1>1, <2>3, QueueAfterAppend DEF SendInv
  <2>5. \A k \in Calls : Untouched(k) => Untouched(k)'
    BY <1>0, <2>2
  <2>6. /\ Submitted(n)'
        /\ \A k \in Calls \ {n} : pc'[k] = pc[k]
        /\ pc'[n] = "sending"
    BY <2>1 DEF TypeOK
  <2>7. (\A j, k \in 1 .. Len(waiting_senders) :
           waiting_senders[j] = waiting_senders[k] => j = k)'
    BY <2>4
  <2>8. (\A k \in Calls : Queued(k) =>
           /\ Submitted(k) /\ receipt[k] = "pending" /\ Untouched(k)
           /\ ~ (InSend /\ current = k))'
    BY <2>1, <2>3, <2>4, <2>5, <2>6 DEF SendInv
  <2>9. (InSend => Submitted(current) /\ receipt[current] = "pending")'
    BY <2>1, <2>6 DEF SendInv, TypeOK
  <2>10. (bg \in {"transmit", "notify_failed"} => Untouched(current))'
    BY <2>1, <2>5 DEF SendInv, TypeOK
  <2>11. (\A k \in Calls :
            ~ Submitted(k) => receipt[k] = "pending" /\ Untouched(k))'
    BY <2>1, <2>5, <2>6 DEF SendInv
  <2>12. (\A k \in Calls : receipt[k] = "failed" => Untouched(k))'
    BY <2>1, <2>5 DEF SendInv
  <2>13. (\A k \in Calls :
            pc[k] = "withdraw_failed" \/ result[k] = "unsent"
              => receipt[k] = "failed")'
    BY <2>1, <2>6 DEF SendInv
  <2> HIDE DEF InSend, Submitted
  <2> QED
    BY <2>7, <2>8, <2>9, <2>10, <2>11, <2>12, <2>13 DEF SendInv
<1>2. ASSUME NEW n \in Calls,
             \/ Invoke(n) \/ FileTicket(n) \/ CallerTimeout(n)
             \/ SendFailed(n) \/ SendConfirmed(n) \/ SendBroken(n)
             \/ Withdraw(n) \/ TakeResponse(n)
      PROVE  SendInv'
  <2>1. UNCHANGED <<waiting_senders, receipt, bg, current, sent>>
    BY <1>2 DEF Invoke, FileTicket, CallerTimeout, SendTimeout,
                ResponseTimeout, SendFailed, SendConfirmed, SendBroken,
                Withdraw, TakeResponse, promiseVars, queueVars, bgVars, netVars
  <2>2. ~ Transmit
    BY <2>1 DEF Transmit, BgGoto
  <2>3. \A k \in Calls : Submitted(k)' <=> Submitted(k)
    BY <1>2, ZenonT(60) DEF Invoke, FileTicket, CallerTimeout, SendTimeout,
                ResponseTimeout, SendFailed, SendConfirmed, SendBroken,
                Withdraw, TakeResponse, Goto, Return, TypeOK
  <2>4. \A k \in Calls :
          pc'[k] = "withdraw_failed" \/ result'[k] = "unsent"
            => \/ pc[k] = "withdraw_failed" \/ result[k] = "unsent"
               \/ receipt[k] = "failed"
    BY <1>2, ZenonT(60) DEF Invoke, FileTicket, CallerTimeout, SendTimeout,
                ResponseTimeout, SendFailed, SendConfirmed, SendBroken,
                Withdraw, TakeResponse, Goto, Return, TypeOK
  <2>5. \A k \in Calls : Queued(k)' <=> Queued(k)
    BY <2>1 DEF Queued
  <2> QED
    BY <1>0, <2>1, <2>2, <2>3, <2>4, <2>5 DEF SendInv, TypeOK
<1>3. CASE PopCommand
  <2>1. /\ bg' = "transmit" /\ bg = "send"
        /\ UNCHANGED <<pc, result, receipt>>
    BY <1>3 DEF PopCommand, BgGoto, callerVars, promiseVars
  <2>2. current' \in Calls /\ ~ Transmit
    <3>1. /\ waiting_senders \in Seq(Calls) /\ waiting_senders # <<>>
          /\ current' = Head(waiting_senders)
      BY <1>3 DEF PopCommand, TypeOK
    <3>2. current' \in Calls
      BY <3>1, HeadOfQueue
    <3>3. ~ Transmit
      BY <2>1 DEF Transmit, BgGoto
    <3> QED
      BY <3>2, <3>3
  <2>3. /\ \A k \in Calls : k = current' => Queued(k) /\ ~ Queued(k)'
        /\ \A k \in Calls : Queued(k)' => Queued(k)
        /\ \A j, k \in 1 .. Len(waiting_senders') :
             waiting_senders'[j] = waiting_senders'[k] => j = k
    BY <1>3, QueueAfterPop DEF SendInv
  <2>4. \A k \in Calls : Untouched(k) => Untouched(k)'
    BY <1>0, <2>2
  <2>5. Untouched(current)'
    BY <1>3, <2>2, <2>3 DEF SendInv, Untouched, PopCommand, netVars
  <2>6. InSend' => Submitted(current)' /\ receipt'[current'] = "pending"
    BY <1>3, <2>1, <2>2, <2>3 DEF SendInv
  <2>7. \A k \in Calls : Queued(k)' =>
          /\ Submitted(k)' /\ receipt'[k] = "pending" /\ Untouched(k)'
          /\ ~ (InSend' /\ current' = k)
    BY <2>1, <2>3, <2>4 DEF SendInv
  <2>8. \A k \in Calls : ~ Submitted(k)' =>
           receipt'[k] = "pending" /\ Untouched(k)'
    BY <2>1, <2>4 DEF SendInv
  <2> HIDE DEF InSend, Submitted
  <2> QED
    BY <2>1, <2>3, <2>4, <2>5, <2>6, <2>7, <2>8 DEF SendInv
<1>4. CASE Transmit \/ TransmitFails \/ TransmitThrows
  <2>1. /\ UNCHANGED <<pc, result, receipt, waiting_senders, current>>
        /\ bg = "transmit" /\ bg' \in {"notify_sent", "notify_failed"}
        /\ bg' = "notify_failed" => ~ Transmit
        /\ current \in Calls
    BY <1>4 DEF Transmit, TransmitFails, TransmitThrows, BgGoto, callerVars,
                promiseVars, queueVars, TypeOK
  <2>2. \A k \in Calls : Queued(k)' <=> Queued(k)
    BY <2>1 DEF Queued
  <2>3. bg' = "notify_failed" => Untouched(current)'
    BY <1>4, <2>1 DEF SendInv, TransmitFails, TransmitThrows, netVars,
                      Untouched
  <2>4. \A k \in Calls : k # current /\ Untouched(k) => Untouched(k)'
    BY <1>0
  <2>5. /\ Submitted(current)' /\ InSend /\ receipt[current] = "pending"
        /\ \A k \in Calls : Queued(k) => k # current
        /\ \A k \in Calls : receipt[k] = "failed" => k # current
        /\ \A k \in Calls : ~ Submitted(k) => k # current
    BY <2>1 DEF SendInv
  <2>6. (\A j, k \in 1 .. Len(waiting_senders) :
           waiting_senders[j] = waiting_senders[k] => j = k)'
    BY <2>1 DEF SendInv
  <2>7. (\A k \in Calls : Queued(k) =>
           /\ Submitted(k) /\ receipt[k] = "pending" /\ Untouched(k)
           /\ ~ (InSend /\ current = k))'
    BY <2>1, <2>2, <2>4, <2>5 DEF SendInv
  <2>8. (InSend => Submitted(current) /\ receipt[current] = "pending")'
    BY <2>1, <2>5
  <2>9. (bg \in {"transmit", "notify_failed"} => Untouched(current))'
    BY <2>1, <2>3
  <2>10. (\A k \in Calls :
            ~ Submitted(k) => receipt[k] = "pending" /\ Untouched(k))'
    BY <2>1, <2>4, <2>5 DEF SendInv
  <2>11. (\A k \in Calls : receipt[k] = "failed" => Untouched(k))'
    BY <2>1, <2>4, <2>5 DEF SendInv
  <2>12. (\A k \in Calls :
            pc[k] = "withdraw_failed" \/ result[k] = "unsent"
              => receipt[k] = "failed")'
    BY <2>1 DEF SendInv
  <2> HIDE DEF InSend, Submitted
  <2> QED
    BY <2>6, <2>7, <2>8, <2>9, <2>10, <2>11, <2>12 DEF SendInv
<1>5. CASE NotifyCaller
  <2>1. /\ UNCHANGED <<pc, result, waiting_senders>>
        /\ bg' = "top" /\ InSend
        /\ \/ /\ bg = "notify_sent"
              /\ receipt' = [receipt EXCEPT ![current] = "sent"]
           \/ /\ bg = "notify_failed"
              /\ receipt' = [receipt EXCEPT ![current] = "failed"]
    BY <1>5 DEF NotifyCaller, BgGoto, SetReceipt, callerVars, queueVars
  <2>2. ~ Transmit /\ current \in Calls
    BY <2>1 DEF Transmit, BgGoto, TypeOK
  <2>3. \A k \in Calls : Queued(k)' <=> Queued(k)
    BY <2>1 DEF Queued
  <2>4. \A k \in Calls : Untouched(k) => Untouched(k)'
    BY <1>0, <2>2
  <2>5. /\ Submitted(current) /\ receipt[current] = "pending"
        /\ \A k \in Calls : Queued(k) => k # current
        /\ bg = "notify_failed" => Untouched(current)
    BY <2>1, <2>2 DEF SendInv
  <2>6. (\A j, k \in 1 .. Len(waiting_senders) :
           waiting_senders[j] = waiting_senders[k] => j = k)'
    BY <2>1 DEF SendInv
  <2>7. (\A k \in Calls : Queued(k) =>
           /\ Submitted(k) /\ receipt[k] = "pending" /\ Untouched(k)
           /\ ~ (InSend /\ current = k))'
    BY <2>1, <2>3, <2>4, <2>5, ZenonT(40) DEF SendInv, TypeOK
  <2>8. ~ InSend' /\ bg' \notin {"transmit", "notify_failed"}
    BY <2>1
  <2>9. (\A k \in Calls :
           ~ Submitted(k) => receipt[k] = "pending" /\ Untouched(k))'
    BY <2>1, <2>4, <2>5 DEF SendInv, TypeOK
  <2>10. (\A k \in Calls : receipt[k] = "failed" => Untouched(k))'
    BY <2>1, <2>2, <2>4, <2>5, ZenonT(40) DEF SendInv, TypeOK
  <2>11. (\A k \in Calls :
            pc[k] = "withdraw_failed" \/ result[k] = "unsent"
              => receipt[k] = "failed")'
    BY <2>1, <2>5 DEF SendInv, TypeOK
  <2> HIDE DEF InSend, Submitted
  <2> QED
    BY <2>6, <2>7, <2>8, <2>9, <2>10, <2>11 DEF SendInv
<1>6. CASE FinaliseSenders
  <2>1. /\ UNCHANGED <<pc, result, bg, current>> /\ bg = "joined"
        /\ waiting_senders' = <<>>
        /\ receipt' = [n \in Calls |-> IF Queued(n) THEN "broken"
                                       ELSE receipt[n]]
    BY <1>6 DEF FinaliseSenders, callerVars, bgVars
  <2>2. ~ Transmit
    BY <2>1 DEF Transmit, BgGoto
  <2>3. \A k \in Calls : ~ Queued(k)'
    BY <2>1 DEF Queued
  <2> QED
    BY <1>0, <2>1, <2>2, <2>3 DEF SendInv, TypeOK
<1>7. CASE \/ FinaliseSignal \/ FinaliseRecipients \/ Environment
           \/ UNCHANGED vars
  <2>1. UNCHANGED <<pc, result, receipt, waiting_senders, bg, current>>
    BY <1>7 DEF FinaliseSignal, FinaliseRecipients, Environment, Answer,
                LoseRequest, LoseReply, vars, callerVars, promiseVars,
                queueVars, bgVars
  <2>2. ~ Transmit
    BY <2>1 DEF Transmit, BgGoto
  <2>3. \A k \in Calls : Queued(k)' <=> Queued(k)
    BY <2>1 DEF Queued
  <2> QED
    BY <1>0, <2>1, <2>2, <2>3 DEF SendInv, TypeOK
<1>8. CASE \/ BgTerminate \/ ReceiveNothing \/ (\E r \in inbox : ReceiveReply(r))
           \/ MatchTicket \/ DropReply \/ LookUpTicket \/ Crash
           \/ FulfilTicket \/ EraseTicket \/ NothingToSend
  <2>1. /\ UNCHANGED <<pc, result, receipt, waiting_senders>>
        /\ bg' \notin {"transmit", "notify_sent", "notify_failed"}
    BY <1>8 DEF BgTerminate, ReceiveNothing, ReceiveReply, MatchTicket,
                DropReply, LookUpTicket, Crash, FulfilTicket, EraseTicket,
                NothingToSend, BgGoto, callerVars, promiseVars, queueVars
  <2>2. ~ Transmit
    BY <2>1 DEF Transmit, BgGoto
  <2>3. \A k \in Calls : Queued(k)' <=> Queued(k)
    BY <2>1 DEF Queued
  <2> QED
    BY <1>0, <2>1, <2>2, <2>3 DEF SendInv, TypeOK
<1> QED
  BY <1>1, <1>2, <1>3, <1>4, <1>5, <1>6, <1>7, <1>8
     DEF Next, CallerWork, Background, FinaliseWork

LEMMA AnswerInvStep ==
  ASSUME TypeOK, IdInv, FlightInv, ReplyMatchesCommand, AnswerInv, [Next]_vars
  PROVE  AnswerInv'
<1>0. executed \subseteq executed'
  <2>1. ASSUME NEW n \in Calls,
               Invoke(n) \/ CallerWork(n) \/ CallerTimeout(n)
        PROVE  UNCHANGED executed
    BY <2>1 DEF Invoke, CallerWork, CallerTimeout, FileTicket, QueueCommand,
                SendTimeout, SendFailed, SendConfirmed, SendBroken, Withdraw,
                ResponseTimeout, TakeResponse, netVars
  <2>2. Background => UNCHANGED executed
    BY DEF Background, BgTerminate, ReceiveNothing, ReceiveReply, MatchTicket,
           DropReply, LookUpTicket, Crash, FulfilTicket, EraseTicket,
           NothingToSend, PopCommand, Transmit, TransmitFails, TransmitThrows,
           NotifyCaller, netVars
  <2>3. FinaliseSignal \/ FinaliseWork \/ Environment \/ UNCHANGED vars
          => executed \subseteq executed'
    BY DEF FinaliseSignal, FinaliseWork, FinaliseSenders, FinaliseRecipients,
           Environment, Answer, LoseRequest, LoseReply, vars, netVars
  <2> QED
    BY <2>1, <2>2, <2>3 DEF Next
<1>1. \A r \in inbox' : r.call \in executed'
  <2>1. ASSUME NEW n \in Calls, NEW m \in Middlemen, NEW kind \in ReplyKinds,
               Answer(n, m, kind)
        PROVE  \A r \in inbox' : r.call \in executed'
    BY <2>1 DEF Answer, AnswerInv
  <2>2. CASE inbox' \subseteq inbox
    BY <1>0, <2>2 DEF AnswerInv
  <2>3. ASSUME NEW n \in Calls,
               Invoke(n) \/ CallerWork(n) \/ CallerTimeout(n)
        PROVE  inbox' \subseteq inbox
    BY <2>3 DEF Invoke, CallerWork, CallerTimeout, FileTicket, QueueCommand,
                SendTimeout, SendFailed, SendConfirmed, SendBroken, Withdraw,
                ResponseTimeout, TakeResponse, netVars
  <2>4. Background => inbox' \subseteq inbox
    BY DEF Background, BgTerminate, ReceiveNothing, ReceiveReply, MatchTicket,
           DropReply, LookUpTicket, Crash, FulfilTicket, EraseTicket,
           NothingToSend, PopCommand, Transmit, TransmitFails, TransmitThrows,
           NotifyCaller, netVars
  <2>5. FinaliseSignal \/ FinaliseWork \/ LoseRequest \/ LoseReply
          \/ UNCHANGED vars => inbox' \subseteq inbox
    BY DEF FinaliseSignal, FinaliseWork, FinaliseSenders, FinaliseRecipients,
           LoseRequest, LoseReply, vars, netVars
  <2> QED
    BY <2>1, <2>2, <2>3, <2>4, <2>5 DEF Next, Environment
<1>2. bg' \in {"match", "found", "fulfil", "erase"} => held'.call \in executed'
  <2>1. CASE \E r \in inbox : ReceiveReply(r)
    BY <1>0, <2>1 DEF ReceiveReply, AnswerInv
  <2>2. CASE Background /\ ~ \E r \in inbox : ReceiveReply(r)
    <3>1. bg' \in {"match", "found", "fulfil", "erase"} =>
            held' = held /\ bg \in {"match", "found", "fulfil", "erase"}
      BY <2>2 DEF Background, BgTerminate, ReceiveNothing, MatchTicket,
             DropReply, LookUpTicket, Crash, FulfilTicket, EraseTicket,
             NothingToSend, PopCommand, Transmit, TransmitFails,
             TransmitThrows, NotifyCaller, BgGoto
    <3> QED
      BY <1>0, <3>1 DEF AnswerInv
  <2>3. ASSUME NEW n \in Calls,
               Invoke(n) \/ CallerWork(n) \/ CallerTimeout(n)
        PROVE  UNCHANGED bgVars
    BY <2>3 DEF Invoke, CallerWork, CallerTimeout, FileTicket, QueueCommand,
                SendTimeout, SendFailed, SendConfirmed, SendBroken, Withdraw,
                ResponseTimeout, TakeResponse
  <2>4. FinaliseSignal \/ FinaliseWork \/ Environment \/ UNCHANGED vars
          => UNCHANGED bgVars
    BY DEF FinaliseSignal, FinaliseWork, FinaliseSenders, FinaliseRecipients,
           Environment, Answer, LoseRequest, LoseReply, vars
  <2>5. CASE UNCHANGED bgVars
    BY <1>0, <2>5 DEF bgVars, AnswerInv
  <2> QED
    BY <2>1, <2>2, <2>3, <2>4, <2>5 DEF Next
<1>3. \A n \in Calls : response'[n] = "ready" => reply'[n].call \in executed'
  <2>1. CASE FulfilTicket
    <3>1. bg = "fulfil" /\ held.call \in executed
      BY <2>1 DEF FulfilTicket, BgGoto, AnswerInv
    <3>2. \/ /\ response' = [response EXCEPT ![current] = "ready"]
             /\ reply' = [reply EXCEPT ![current] = held]
          \/ UNCHANGED <<response, reply>>
      BY <2>1 DEF FulfilTicket
    <3>3. \A n \in Calls :
            \/ reply'[n] = held
            \/ reply'[n] = reply[n] /\ response'[n] = response[n]
      BY <3>2 DEF TypeOK
    <3> QED
      BY <1>0, <3>1, <3>3 DEF AnswerInv
  <2>2. CASE ~ FulfilTicket
    BY <1>0, <2>2, OnlyFulfilAnswers DEF AnswerInv
  <2> QED
    BY <2>1, <2>2
<1>4. \A n \in Calls : result'[n] = "ok" => n \in executed'
  <2>1. ASSUME NEW n \in Calls, TakeResponse(n)
        PROVE  \A k \in Calls : result'[k] = "ok" => k \in executed'
    <3>1. \/ response[n] = "ready"
          \/ result' = [result EXCEPT ![n] = "error"]
      BY <2>1 DEF TakeResponse, Return
    <3>2. response[n] = "ready" => n \in executed
      BY DEF AnswerInv, ReplyMatchesCommand
    <3>3. \A k \in Calls : k # n => result'[k] = result[k]
      BY <2>1 DEF TakeResponse, Return, TypeOK
    <3> QED
      BY <1>0, <3>1, <3>2, <3>3 DEF AnswerInv, TypeOK
  <2>2. ASSUME NEW n \in Calls,
               \/ Invoke(n) \/ CallerTimeout(n)
               \/ CallerWork(n) /\ ~ TakeResponse(n)
        PROVE  \A k \in Calls : result'[k] = "ok" => result[k] = "ok"
    BY <2>2 DEF Invoke, CallerWork, CallerTimeout, FileTicket, QueueCommand,
                SendTimeout, SendFailed, SendConfirmed, SendBroken, Withdraw,
                ResponseTimeout, Return, TypeOK
  <2>3. Background => UNCHANGED result
    BY DEF Background, BgTerminate, ReceiveNothing, ReceiveReply, MatchTicket,
           DropReply, LookUpTicket, Crash, FulfilTicket, EraseTicket,
           NothingToSend, PopCommand, Transmit, TransmitFails, TransmitThrows,
           NotifyCaller, callerVars
  <2>4. FinaliseSignal \/ FinaliseWork \/ Environment \/ UNCHANGED vars
          => UNCHANGED result
    BY DEF FinaliseSignal, FinaliseWork, FinaliseSenders, FinaliseRecipients,
           Environment, Answer, LoseRequest, LoseReply, vars, callerVars
  <2> QED
    BY <1>0, <2>1, <2>2, <2>3, <2>4 DEF Next, AnswerInv
<1> QED
  BY <1>1, <1>2, <1>3, <1>4 DEF AnswerInv

LEMMA SendInvariant == Spec => []SendInv
<1>1. Init => SendInv
  BY DEF Init, SendInv, Queued, Submitted, InSend, Untouched
<1>2. TypeOK /\ SendInv /\ [Next]_vars => SendInv'
  BY SendInvStep
<1> QED
  BY <1>1, <1>2, TypeCorrect, PTL DEF Spec

LEMMA AnswerInvariant == Spec /\ []NoRelics => []AnswerInv
<1>1. Init => AnswerInv
  BY DEF Init, AnswerInv
<1>2. ReferenceInv /\ ReplyMatchesCommand /\ AnswerInv /\ [Next]_vars
        => AnswerInv'
  BY AnswerInvStep DEF ReferenceInv
<1> QED
  BY <1>1, <1>2, ReferenceInvariant, RepliesMatch, PTL DEF Spec

(* After the error of a failed send no middleman has acted on the command  *)
(* and none ever will, whatever becomes of the ids.                        *)
THEOREM UnsentIsUntouched ==
  Spec => [](\A n \in Calls : result[n] = "unsent" => Untouched(n))
<1>1. SendInv => \A n \in Calls : result[n] = "unsent" => Untouched(n)
  BY DEF SendInv
<1> QED
  BY <1>1, SendInvariant, PTL

(* Success means a middleman acted on the command; the error of a failed   *)
(* send means none has and none will.                                      *)
THEOREM ResultsTruthful == Spec /\ []NoRelics => []ResultIsTruthful
<1>1. SendInv /\ AnswerInv => ResultIsTruthful
  BY DEF SendInv, AnswerInv, ResultIsTruthful
<1> QED
  BY <1>1, SendInvariant, AnswerInvariant, PTL

----------------------------------------------------------------------------
(* Finalise leaves nobody waiting.                                         *)

(* A command submitted and not receipted is queued or in the background    *)
(* thread's hands; once the thread is joined no receipt says "sent" that   *)
(* did not before, and no response promise outlives its ticket.            *)
FinInv ==
  /\ fin \in {"closed", "done"} => bg = "joined"
  /\ \A n \in Calls : pc[n] = "sending" /\ receipt[n] = "pending" =>
       Queued(n) \/ (InSend /\ current = n)
  /\ \A n \in Calls : pc[n] = "receiving" => receipt[n] = "sent"
  /\ fin = "done" => \A n \in Calls :
       receipt[n] = "sent" /\ pc[n] \in {"sending", "receiving"}
         => response[n] # "pending"

LEMMA QueueAfterPopKeeps ==
  ASSUME TypeOK, PopCommand, NEW n \in Calls, Queued(n)
  PROVE  Queued(n)' \/ n = current'
<1>1. /\ waiting_senders \in Seq(Calls) /\ waiting_senders # <<>>
      /\ waiting_senders' = Tail(waiting_senders)
      /\ current' = Head(waiting_senders)
  BY DEF TypeOK, PopCommand
<1>2. /\ Len(waiting_senders) \in Nat \ {0}
      /\ Len(waiting_senders') = Len(waiting_senders) - 1
      /\ current' = waiting_senders[1]
      /\ \A k \in 1 .. Len(waiting_senders') :
           waiting_senders'[k] = waiting_senders[k + 1]
  BY <1>1
<1>3. PICK k \in 1 .. Len(waiting_senders) : waiting_senders[k] = n
  BY DEF Queued
<1>4. CASE k = 1
  BY <1>2, <1>3, <1>4
<1>5. CASE k # 1
  <2>1. k - 1 \in 1 .. Len(waiting_senders') /\ (k - 1) + 1 = k
    BY <1>2, <1>3, <1>5
  <2>2. waiting_senders'[k - 1] = n
    BY <1>2, <1>3, <2>1
  <2> QED
    BY <2>1, <2>2 DEF Queued
<1> QED
  BY <1>4, <1>5

(* A response promise is never pending again, and Finalise's second half   *)
(* breaks those it finds pending.                                          *)
LEMMA PendingResponse ==
  ASSUME TypeOK, [Next]_vars, NEW n \in Calls, response'[n] = "pending"
  PROVE  response[n] = "pending"
<1>1. ASSUME NEW k \in Calls, Invoke(k) \/ CallerWork(k) \/ CallerTimeout(k)
      PROVE  response[n] = "pending"
  BY <1>1 DEF Invoke, CallerWork, CallerTimeout, FileTicket, QueueCommand,
              SendTimeout, SendFailed, SendConfirmed, SendBroken, Withdraw,
              Erased, ResponseTimeout, TakeResponse, promiseVars, TypeOK
<1>2. CASE Background
  BY <1>2 DEF Background, BgTerminate, ReceiveNothing, ReceiveReply,
         MatchTicket, DropReply, LookUpTicket, Crash, FulfilTicket, Erased,
         EraseTicket, NothingToSend, PopCommand, Transmit, TransmitFails,
         TransmitThrows, NotifyCaller, promiseVars, TypeOK
<1>3. CASE FinaliseSignal \/ FinaliseWork \/ Environment \/ UNCHANGED vars
  BY <1>3 DEF FinaliseSignal, FinaliseWork, FinaliseSenders,
         FinaliseRecipients, Environment, Answer, LoseRequest, LoseReply,
         vars, promiseVars
<1> QED
  BY <1>1, <1>2, <1>3 DEF Next

LEMMA FinInvStep ==
  ASSUME TypeOK, SendInv, PendingCallHasTicket, FinInv, [Next]_vars
  PROVE  FinInv'
<1> USE DEF InSend
<1>0. \A n \in Calls : response'[n] = "pending" => response[n] = "pending"
  BY PendingResponse
<1>1. ASSUME NEW n \in Calls, QueueCommand(n) PROVE FinInv'
  <2>1. /\ pc' = [pc EXCEPT ![n] = "sending"] /\ pc[n] = "queue"
        /\ UNCHANGED <<receipt, response, bg, current, fin>>
    BY <1>1 DEF QueueCommand, Goto, promiseVars, bgVars
  <2>2. ~ Queued(n) /\ receipt[n] = "pending"
    BY <2>1 DEF SendInv, Submitted
  <2>3. \A k \in Calls : Queued(k)' <=> Queued(k) \/ k = n
    BY <1>1, <2>2, QueueAfterAppend DEF SendInv
  <2>4. pc'[n] = "sending" /\ \A k \in Calls \ {n} : pc'[k] = pc[k]
    BY <2>1 DEF TypeOK
  <2>5. (\A k \in Calls : pc[k] = "sending" /\ receipt[k] = "pending" =>
           Queued(k) \/ (InSend /\ current = k))'
    BY <2>1, <2>3, <2>4 DEF FinInv
  <2>6. (\A k \in Calls : pc[k] = "receiving" => receipt[k] = "sent")'
    BY <2>1, <2>4 DEF FinInv
  <2>7. (fin = "done" => \A k \in Calls :
           receipt[k] = "sent" /\ pc[k] \in {"sending", "receiving"}
             => response[k] # "pending")'
    BY <2>1, <2>2, <2>4 DEF FinInv
  <2> QED
    BY <2>1, <2>5, <2>6, <2>7 DEF FinInv
<1>2. ASSUME NEW n \in Calls,
             \/ Invoke(n) \/ FileTicket(n) \/ CallerTimeout(n)
             \/ SendFailed(n) \/ SendConfirmed(n) \/ SendBroken(n)
             \/ Withdraw(n) \/ TakeResponse(n)
      PROVE  FinInv'
  <2>1. UNCHANGED <<waiting_senders, receipt, bg, current, fin>>
    BY <1>2 DEF Invoke, FileTicket, CallerTimeout, SendTimeout,
                ResponseTimeout, SendFailed, SendConfirmed, SendBroken,
                Withdraw, TakeResponse, promiseVars, queueVars, bgVars
  <2>2. \A k \in Calls :
          \/ pc'[k] = pc[k]
          \/ pc'[k] \notin {"sending", "receiving"}
          \/ pc[k] = "sending" /\ receipt[k] = "sent" /\ pc'[k] = "receiving"
    BY <1>2, ZenonT(40) DEF Invoke, FileTicket, CallerTimeout, SendTimeout,
                ResponseTimeout, SendFailed, SendConfirmed, SendBroken,
                Withdraw, TakeResponse, Goto, Return, TypeOK
  <2>3. \A k \in Calls : Queued(k)' <=> Queued(k)
    BY <2>1 DEF Queued
  <2> QED
    BY <1>0, <2>1, <2>2, <2>3 DEF FinInv
<1>3. CASE PopCommand
  <2>1. /\ bg' = "transmit" /\ bg = "send"
        /\ UNCHANGED <<pc, receipt, response, fin>>
    BY <1>3 DEF PopCommand, BgGoto, callerVars, promiseVars
  <2>2. \A k \in Calls : Queued(k) => Queued(k)' \/ k = current'
    BY <1>3, QueueAfterPopKeeps
  <2>3. fin \notin {"closed", "done"} /\ ~ InSend /\ InSend'
    BY <2>1 DEF FinInv
  <2>4. (\A k \in Calls : pc[k] = "sending" /\ receipt[k] = "pending" =>
           Queued(k) \/ (InSend /\ current = k))'
    BY <2>1, <2>2, <2>3 DEF FinInv
  <2> QED
    BY <2>1, <2>3, <2>4 DEF FinInv
<1>4. CASE NotifyCaller
  <2>1. /\ UNCHANGED <<pc, response, waiting_senders, fin>>
        /\ bg' = "top" /\ InSend /\ current \in Calls
        /\ \E ret \in {"sent", "failed"} :
             receipt' = [receipt EXCEPT ![current] = ret]
    BY <1>4 DEF NotifyCaller, BgGoto, SetReceipt, callerVars, queueVars, TypeOK
  <2>2. /\ fin \notin {"closed", "done"} /\ receipt[current] = "pending"
        /\ receipt'[current] # "pending"
        /\ \A k \in Calls \ {current} : receipt'[k] = receipt[k]
    BY <2>1 DEF FinInv, SendInv, TypeOK
  <2>3. \A k \in Calls : Queued(k)' <=> Queued(k)
    BY <2>1 DEF Queued
  <2> QED
    BY <2>1, <2>2, <2>3 DEF FinInv
<1>5. CASE FinaliseSenders
  <2>1. /\ UNCHANGED <<pc, response, bg>> /\ bg = "joined" /\ fin' = "closed"
        /\ receipt' = [n \in Calls |-> IF Queued(n) THEN "broken"
                                       ELSE receipt[n]]
    BY <1>5 DEF FinaliseSenders, callerVars, bgVars
  <2>2. \A n \in Calls : pc[n] = "receiving" => receipt'[n] = "sent"
    BY <2>1 DEF FinInv, SendInv
  <2>3. \A n \in Calls :
          ~ (pc[n] = "sending" /\ receipt'[n] = "pending")
    BY <2>1 DEF FinInv
  <2> QED
    BY <2>1, <2>2, <2>3 DEF FinInv
<1>6. CASE FinaliseRecipients
  <2>1. /\ UNCHANGED <<pc, receipt, waiting_senders, bg, current>>
        /\ fin = "closed" /\ fin' = "done"
        /\ \A n \in Calls :
             waiting_recipients[id[n]] = n => response'[n] # "pending"
    BY <1>6 DEF FinaliseRecipients, callerVars, bgVars
  <2>2. \A n \in Calls :
          pc[n] \in {"sending", "receiving"} => response'[n] # "pending"
    BY <1>0, <2>1 DEF PendingCallHasTicket
  <2>3. \A k \in Calls : Queued(k)' <=> Queued(k)
    BY <2>1 DEF Queued
  <2> QED
    BY <2>1, <2>2, <2>3 DEF FinInv
<1>7. CASE FinaliseSignal \/ Environment \/ UNCHANGED vars
  <2>1. /\ UNCHANGED <<pc, receipt, response, waiting_senders, bg, current>>
        /\ fin' = fin \/ fin' = "signalled"
    BY <1>7 DEF FinaliseSignal, Environment, Answer, LoseRequest, LoseReply,
                vars, callerVars, promiseVars, queueVars, bgVars
  <2>2. \A k \in Calls : Queued(k)' <=> Queued(k)
    BY <2>1 DEF Queued
  <2> QED
    BY <2>1, <2>2 DEF FinInv
<1>8. CASE Transmit \/ TransmitFails \/ TransmitThrows
  <2>1. /\ UNCHANGED <<pc, receipt, response, waiting_senders, current, fin>>
        /\ bg = "transmit" /\ InSend'
    BY <1>8 DEF Transmit, TransmitFails, TransmitThrows, BgGoto, callerVars,
                promiseVars, queueVars
  <2>2. \A k \in Calls : Queued(k)' <=> Queued(k)
    BY <2>1 DEF Queued
  <2> QED
    BY <2>1, <2>2 DEF FinInv
<1>9. CASE \/ BgTerminate \/ ReceiveNothing \/ (\E r \in inbox : ReceiveReply(r))
           \/ MatchTicket \/ DropReply \/ LookUpTicket \/ Crash
           \/ FulfilTicket \/ EraseTicket \/ NothingToSend
  <2>1. /\ UNCHANGED <<pc, receipt, waiting_senders, fin>>
        /\ bg # "joined" /\ ~ InSend
    BY <1>9 DEF BgTerminate, ReceiveNothing, ReceiveReply, MatchTicket,
                DropReply, LookUpTicket, Crash, FulfilTicket, EraseTicket,
                NothingToSend, BgGoto, callerVars, promiseVars, queueVars
  <2>2. \A k \in Calls : Queued(k)' <=> Queued(k)
    BY <2>1 DEF Queued
  <2>3. fin \notin {"closed", "done"}
    BY <2>1 DEF FinInv
  <2>4. (\A k \in Calls : pc[k] = "sending" /\ receipt[k] = "pending" =>
           Queued(k) \/ (InSend /\ current = k))'
    BY <2>1, <2>2 DEF FinInv
  <2> QED
    BY <2>1, <2>3, <2>4 DEF FinInv
<1> QED
  BY <1>1, <1>2, <1>3, <1>4, <1>5, <1>6, <1>7, <1>8, <1>9
     DEF Next, CallerWork, Background, FinaliseWork

(* After Finalise nobody waits for an answer that cannot come.             *)
THEOREM FinaliseComplete == Spec => []FinalisedLeavesNoWaiter
<1>1. Init => FinInv
  BY DEF Init, FinInv
<1>2. TypeOK /\ SendInv /\ PendingCallHasTicket /\ FinInv /\ [Next]_vars
        => FinInv'
  BY FinInvStep
<1>3. FinInv => FinalisedLeavesNoWaiter
  BY DEF FinInv, FinalisedLeavesNoWaiter, InSend
<1> QED
  BY <1>1, <1>2, <1>3, TypeCorrect, SendInvariant, TicketsKept, PTL DEF Spec

----------------------------------------------------------------------------
(* The channel implements CommandChannel.                                  *)

LEMMA StatusOf ==
  \A n \in Calls :
    /\ pc[n] = "new" => CallStatus[n] = "idle"
    /\ pc[n] = "returned" => CallStatus[n] = result[n]
    /\ pc[n] \notin {"new", "returned"} => CallStatus[n] = "open"
BY DEF CallStatus

(* A step that moves one call only changes its status only.                *)
LEMMA StatusAfter ==
  ASSUME TypeOK, TypeOK', NEW n \in Calls,
         \A k \in Calls \ {n} : pc'[k] = pc[k] /\ result'[k] = result[k]
  PROVE  /\ pc'[n] = "new" => CallStatus' = [CallStatus EXCEPT ![n] = "idle"]
         /\ pc'[n] = "returned" =>
              CallStatus' = [CallStatus EXCEPT ![n] = result'[n]]
         /\ pc'[n] \notin {"new", "returned"} =>
              CallStatus' = [CallStatus EXCEPT ![n] = "open"]
<1>1. \A k \in Calls \ {n} : CallStatus'[k] = CallStatus[k]
  BY DEF CallStatus
<1>2. /\ pc'[n] = "new" => CallStatus'[n] = "idle"
      /\ pc'[n] = "returned" => CallStatus'[n] = result'[n]
      /\ pc'[n] \notin {"new", "returned"} => CallStatus'[n] = "open"
  BY DEF CallStatus
<1>3. CallStatus = [k \in Calls |-> CallStatus[k]]
      /\ CallStatus' = [k \in Calls |-> CallStatus'[k]]
  BY DEF CallStatus
<1> HIDE DEF CallStatus
<1> QED
  BY <1>1, <1>2, <1>3
(* Every step of the channel is a step of CommandChannel or changes        *)
(* nothing it sees.                                                        *)
LEMMA ChannelStep ==
  ASSUME TypeOK, TypeOK', ReplyMatchesCommand, SendInv, AnswerInv, [Next]_vars
  PROVE  [Channel!Next]_(Channel!channelVars)
<1> USE DEF Channel!Next, Channel!channelVars
<1>1. ASSUME NEW n \in Calls, Invoke(n)
      PROVE  Channel!Begin(n)
  <2>1. /\ pc[n] = "new" /\ pc' = [pc EXCEPT ![n] = "ticket"]
        /\ UNCHANGED <<result, executed>>
    BY <1>1 DEF Invoke, Goto, netVars
  <2>2. pc'[n] = "ticket" /\ \A k \in Calls \ {n} : pc'[k] = pc[k]
    BY <2>1 DEF TypeOK
  <2> QED
    BY <2>1, <2>2, StatusOf, StatusAfter DEF Channel!Begin
<1>2. ASSUME NEW n \in Calls,
             \/ FileTicket(n) \/ QueueCommand(n) \/ SendTimeout(n)
             \/ SendFailed(n) \/ SendConfirmed(n)
      PROVE  UNCHANGED Channel!channelVars
  <2>1. /\ pc[n] \notin {"new", "returned"}
        /\ \E p \in {"queue", "sending", "withdraw_timeout",
                     "withdraw_failed", "receiving"} :
             pc' = [pc EXCEPT ![n] = p]
        /\ UNCHANGED <<result, executed>>
    BY <1>2 DEF FileTicket, QueueCommand, SendTimeout, SendFailed,
                SendConfirmed, Goto, netVars
  <2>2. pc'[n] \notin {"new", "returned"}
        /\ \A k \in Calls \ {n} : pc'[k] = pc[k]
    BY <2>1 DEF TypeOK
  <2>3. CallStatus' = CallStatus
    BY <2>1, <2>2 DEF CallStatus
  <2> QED
    BY <2>1, <2>3
<1>3. ASSUME NEW n \in Calls, NEW from, NEW what,
             Return(n, from, what), UNCHANGED executed,
             from \notin {"new", "returned"}
      PROVE  Channel!End(n, what)
  <2>1. /\ pc[n] = from /\ pc' = [pc EXCEPT ![n] = "returned"]
        /\ result' = [result EXCEPT ![n] = what]
    BY <1>3 DEF Return, Goto
  <2>2. /\ pc'[n] = "returned" /\ result'[n] = what
        /\ \A k \in Calls \ {n} : pc'[k] = pc[k] /\ result'[k] = result[k]
    BY <2>1 DEF TypeOK
  <2>3. CallStatus' = [CallStatus EXCEPT ![n] = what]
    BY <2>2, StatusAfter
  <2>4. CallStatus[n] = "open"
    BY <1>3, <2>1, StatusOf
  <2> QED
    BY <1>3, <2>3, <2>4 DEF Channel!End
<1>4. ASSUME NEW n \in Calls,
             SendBroken(n) \/ Withdraw(n) \/ ResponseTimeout(n) \/ TakeResponse(n)
      PROVE  Channel!Confirm(n) \/ Channel!Reject(n) \/ Channel!GiveUp(n)
  <2>1. UNCHANGED executed
    BY <1>4 DEF SendBroken, Withdraw, ResponseTimeout, TakeResponse, netVars
  <2>2. CASE SendBroken(n) \/ ResponseTimeout(n) \/ Return(n, "withdraw_timeout", "error")
    BY <1>3, <2>1, <2>2 DEF SendBroken, ResponseTimeout, Channel!GiveUp
  <2>3. CASE Withdraw(n) /\ Return(n, "withdraw_failed", "unsent")
    <3>1. n \notin executed
      BY <2>3 DEF Return, Goto, SendInv, Untouched
    <3> QED
      BY <1>3, <2>1, <2>3, <3>1 DEF Channel!Reject
  <2>4. CASE TakeResponse(n)
    <3>1. CASE response[n] = "ready" /\ Return(n, "receiving", "ok")
      <4>1. n \in executed
        BY <3>1 DEF AnswerInv, ReplyMatchesCommand
      <4> QED
        BY <1>3, <2>1, <3>1, <4>1 DEF Channel!Confirm
    <3>2. CASE Return(n, "receiving", "error")
      BY <1>3, <2>1, <3>2 DEF Channel!GiveUp
    <3> QED
      BY <2>4, <3>1, <3>2 DEF TakeResponse
  <2> QED
    BY <1>4, <2>2, <2>3, <2>4 DEF Withdraw
<1>5. ASSUME NEW n \in Calls, NEW m \in Middlemen, NEW kind \in ReplyKinds,
             Answer(n, m, kind)
      PROVE  Channel!Perform(n)
  <2>1. /\ <<n, m>> \in wire /\ UNCHANGED <<pc, result>>
        /\ executed' = executed \cup {n}
    BY <1>5 DEF Answer, callerVars
  <2>2. ~ Untouched(n)
    BY <2>1 DEF Untouched
  <2>3. pc[n] # "new" /\ result[n] # "unsent"
    BY <2>2 DEF SendInv, Submitted
  <2>4. CallStatus[n] \notin {"idle", "unsent"}
    BY <2>3, StatusOf DEF TypeOK
  <2>5. CallStatus' = CallStatus
    BY <2>1 DEF CallStatus
  <2> QED
    BY <2>1, <2>4, <2>5 DEF Channel!Perform
<1>6. Background \/ FinaliseSignal \/ FinaliseWork \/ LoseRequest \/ LoseReply
      \/ UNCHANGED vars
        => UNCHANGED Channel!channelVars
  <2>1. Background \/ FinaliseSignal \/ FinaliseWork \/ LoseRequest \/ LoseReply
        \/ UNCHANGED vars
          => UNCHANGED <<pc, result, executed>>
    BY DEF Background, BgTerminate, ReceiveNothing, ReceiveReply, MatchTicket,
           DropReply, LookUpTicket, Crash, FulfilTicket, EraseTicket,
           NothingToSend, PopCommand, Transmit, TransmitFails, TransmitThrows,
           NotifyCaller, FinaliseSignal, FinaliseWork, FinaliseSenders,
           FinaliseRecipients, LoseRequest, LoseReply, callerVars, netVars, vars
  <2> QED
    BY <2>1 DEF CallStatus
<1> QED
  BY <1>1, <1>2, <1>4, <1>5, <1>6
     DEF Next, CallerWork, CallerTimeout, Environment

(* SendCommand as coded keeps the promise of CommandChannel: it answers    *)
(* "ok" only for a performed command, and one it calls unsent is never     *)
(* performed.                                                              *)
THEOREM ChannelImplemented == Spec /\ []NoRelics => ImplementsChannel
<1>1. Init => Channel!Init
  BY DEF Init, Channel!Init, CallStatus
<1>2. TypeOK /\ TypeOK' /\ ReplyMatchesCommand /\ SendInv /\ AnswerInv
        /\ [Next]_vars
        => [Channel!Next]_(Channel!channelVars)
  BY ChannelStep
<1> QED
  BY <1>1, <1>2, TypeCorrect, RepliesMatch, SendInvariant, AnswerInvariant, PTL
     DEF Spec, ImplementsChannel, Channel!Spec

----------------------------------------------------------------------------
(* Commands are sent at most once.                                         *)

(* What was put on a socket is past the queue and the background thread's  *)
(* hands.                                                                  *)
SentInv ==
  \A n \in sent :
    Submitted(n) /\ ~ Queued(n) /\ ~ (bg = "transmit" /\ current = n)

(* No request of a command is put on its way after the command was.        *)
SentOnce ==
  \A n \in sent, m \in Middlemen : <<n, m>> \in wire' => <<n, m>> \in wire

LEMMA SentInvStep == TypeOK /\ SendInv /\ SentInv /\ [Next]_vars => SentInv'
<1> SUFFICES ASSUME TypeOK, SendInv, SentInv, [Next]_vars PROVE SentInv'
  OBVIOUS
<1> USE DEF SentInv, Submitted, TypeOK
<1>1. ASSUME NEW n \in Calls, QueueCommand(n) PROVE SentInv'
  <2>1. /\ pc[n] = "queue" /\ pc' = [pc EXCEPT ![n] = "sending"]
        /\ UNCHANGED <<sent, bg, current>>
    BY <1>1 DEF QueueCommand, Goto, bgVars, netVars
  <2>2. n \notin sent /\ ~ Queued(n)
    BY <2>1 DEF SendInv
  <2>3. \A k \in Calls : Queued(k)' <=> Queued(k) \/ k = n
    BY <1>1, <2>2, QueueAfterAppend DEF SendInv
  <2> QED
    BY <2>1, <2>2, <2>3
<1>2. CASE PopCommand
  <2>1. /\ \A k \in Calls : k = current' => Queued(k)
        /\ \A k \in Calls : Queued(k)' => Queued(k)
    BY <1>2, QueueAfterPop DEF SendInv
  <2>2. UNCHANGED <<pc, sent>>
    BY <1>2 DEF PopCommand, callerVars, netVars
  <2> QED
    BY <2>1, <2>2
<1>3. CASE Transmit
  <2>1. /\ bg = "transmit" /\ bg' = "notify_sent"
        /\ sent' = sent \cup {current}
        /\ UNCHANGED <<pc, waiting_senders>>
    BY <1>3 DEF Transmit, BgGoto, callerVars, queueVars
  <2>2. Submitted(current) /\ ~ Queued(current)
    BY <2>1 DEF SendInv, InSend
  <2>3. \A k \in Calls : Queued(k)' <=> Queued(k)
    BY <2>1 DEF Queued
  <2> QED
    BY <2>1, <2>2, <2>3
<1>4. CASE FinaliseSenders
  <2>1. \A k \in Calls : ~ Queued(k)'
    BY <1>4 DEF FinaliseSenders, Queued
  <2> QED
    BY <1>4, <2>1 DEF FinaliseSenders, callerVars, bgVars, netVars
<1>5. ASSUME UNCHANGED <<sent, waiting_senders>>,
             \A k \in Calls : Submitted(k) => Submitted(k)',
             bg' = "transmit" => bg = "transmit" /\ UNCHANGED current
      PROVE  SentInv'
  <2>1. \A k \in Calls : Queued(k)' <=> Queued(k)
    BY <1>5 DEF Queued
  <2> QED
    BY <1>5, <2>1
<1>6. ASSUME NEW n \in Calls,
             Invoke(n) \/ (CallerWork(n) /\ ~ QueueCommand(n)) \/ CallerTimeout(n)
      PROVE  SentInv'
  <2>1. UNCHANGED <<sent, waiting_senders, bg, current>>
    BY <1>6
    DEF Invoke, CallerWork, CallerTimeout, FileTicket, SendTimeout, SendFailed,
        SendConfirmed, SendBroken, Withdraw, ResponseTimeout, TakeResponse,
        bgVars, netVars, queueVars
  <2>2. \A k \in Calls : Submitted(k) => Submitted(k)'
    BY <1>6
    DEF Invoke, CallerWork, CallerTimeout, FileTicket, SendTimeout, SendFailed,
        SendConfirmed, SendBroken, Withdraw, ResponseTimeout, TakeResponse,
        Goto, Return
  <2> QED
    BY <1>5, <2>1, <2>2
<1>7. CASE Background /\ ~ PopCommand /\ ~ Transmit
  BY <1>5, <1>7
  DEF Background, BgTerminate, ReceiveNothing, ReceiveReply, MatchTicket,
      DropReply, LookUpTicket, Crash, FulfilTicket, EraseTicket, NothingToSend,
      TransmitFails, TransmitThrows, NotifyCaller, BgGoto, callerVars,
      queueVars, netVars
<1>8. CASE FinaliseSignal \/ FinaliseRecipients \/ Environment \/ UNCHANGED vars
  BY <1>5, <1>8
  DEF FinaliseSignal, FinaliseRecipients, Environment, Answer, LoseRequest,
      LoseReply, vars, callerVars, queueVars, bgVars, netVars
<1> QED
  BY <1>1, <1>2, <1>3, <1>4, <1>6, <1>7, <1>8 DEF Next, FinaliseWork

(* Only Transmit puts requests on their way, those of the command held.    *)
LEMMA OnlyTransmitSends ==
  ASSUME TypeOK, [Next]_vars,
         NEW n \in Calls, NEW m \in Middlemen, <<n, m>> \in wire' \ wire
  PROVE  bg = "transmit" /\ n = current
<1>1. CASE Transmit
  BY <1>1 DEF Transmit, BgGoto
<1>2. ASSUME NEW k \in Calls, Invoke(k) \/ CallerWork(k) \/ CallerTimeout(k)
      PROVE  FALSE
  BY <1>2
  DEF Invoke, CallerWork, CallerTimeout, FileTicket, QueueCommand, SendTimeout,
      SendFailed, SendConfirmed, SendBroken, Withdraw, ResponseTimeout,
      TakeResponse, netVars
<1>3. CASE Background /\ ~ Transmit
  BY <1>3
  DEF Background, BgTerminate, ReceiveNothing, ReceiveReply, MatchTicket,
      DropReply, LookUpTicket, Crash, FulfilTicket, EraseTicket, NothingToSend,
      PopCommand, TransmitFails, TransmitThrows, NotifyCaller, netVars
<1>4. CASE FinaliseSignal \/ FinaliseWork \/ Environment \/ UNCHANGED vars
  BY <1>4
  DEF FinaliseSignal, FinaliseWork, FinaliseSenders, FinaliseRecipients,
      Environment, Answer, LoseRequest, LoseReply, vars, netVars
<1> QED
  BY <1>1, <1>2, <1>3, <1>4 DEF Next

(* A command is put on a socket at most once, whatever times out or fails: *)
(* if its caller does not call again, no middleman gets it twice           *)
(* (SendNextCommand, PollAndSend).                                         *)
THEOREM CommandsSentOnce == Spec => [][SentOnce]_vars
<1>1. Init => SentInv
  BY DEF Init, SentInv
<1>2. TypeOK /\ SentInv /\ [Next]_vars => [SentOnce]_vars
  BY OnlyTransmitSends DEF SentOnce, SentInv, TypeOK
<1> QED
  BY <1>1, <1>2, SentInvStep, SendInvariant, TypeCorrect, PTL DEF Spec

----------------------------------------------------------------------------
(* What it takes to crash the background thread.                           *)

SomeCallFailed == \E n \in Calls : result[n] \in {"error", "unsent"}

(* The ticket the background thread found is there until it erases it, or  *)
(* someone withdrew one.                                                   *)
CrashInv ==
  /\ \A n \in Calls : result[n] # "none" => pc[n] = "returned"
  /\ fin \in {"closed", "done"} => bg = "joined"
  /\ bg = "found" => waiting_recipients[held.id] # NoCall \/ SomeCallFailed
  /\ bg = "fulfil" => waiting_recipients[held.id] = current \/ SomeCallFailed
  /\ bg = "crashed" => SomeCallFailed

LEMMA CrashInvStep ==
  ASSUME RacyLookup = FALSE, TypeOK, CrashInv, [Next]_vars
  PROVE  CrashInv'
<1> USE DEF CrashInv, SomeCallFailed, TypeOK
<1>1. ASSUME NEW n \in Calls, NEW from, NEW what \in {"ok", "error", "unsent"},
             from # "new", Return(n, from, what), UNCHANGED <<bg, held, current, fin>>,
             what = "ok" => UNCHANGED waiting_recipients,
             from # "returned"
      PROVE  CrashInv'
  <2>1. /\ pc[n] # "returned" /\ pc' = [pc EXCEPT ![n] = "returned"]
        /\ result' = [result EXCEPT ![n] = what]
    BY <1>1 DEF Return, Goto
  <2>2. SomeCallFailed => SomeCallFailed'
    BY <2>1
  <2>3. what # "ok" => SomeCallFailed'
    BY <2>1
  <2>4. \A k \in Calls : result'[k] # "none" => pc'[k] = "returned"
    BY <2>1
  <2> QED
    BY <1>1, <2>2, <2>3, <2>4
<1>2. ASSUME NEW n \in Calls, FileTicket(n) PROVE CrashInv'
  <2>1. /\ pc[n] = "ticket" /\ pc' = [pc EXCEPT ![n] = "queue"]
        /\ UNCHANGED <<result, bg, held, current, fin>>
    BY <1>2 DEF FileTicket, Goto, bgVars
  <2>2. \A i \in Ids : waiting_recipients[i] # NoCall =>
                          waiting_recipients'[i] = waiting_recipients[i]
    BY <1>2 DEF FileTicket
  <2>3. bg \in {"found", "fulfil"} => held.id \in Ids
    BY DEF Reply
  <2>4. \A k \in Calls : result'[k] # "none" => pc'[k] = "returned"
    BY <2>1
  <2> QED
    BY <2>1, <2>2, <2>3, <2>4, ConstantsOK
<1>3. ASSUME NEW n \in Calls,
             \/ Invoke(n) \/ QueueCommand(n) \/ SendTimeout(n) \/ SendFailed(n)
             \/ SendConfirmed(n)
      PROVE  CrashInv'
  <2>1. /\ UNCHANGED <<result, waiting_recipients, bg, held, current, fin>>
        /\ pc[n] # "returned"
        /\ \A k \in Calls \ {n} : pc'[k] = pc[k]
    BY <1>3
    DEF Invoke, QueueCommand, SendTimeout, SendFailed, SendConfirmed, Goto,
        bgVars, queueVars
  <2> QED
    BY <2>1
<1>4. ASSUME NEW n \in Calls,
             SendBroken(n) \/ Withdraw(n) \/ ResponseTimeout(n) \/ TakeResponse(n)
      PROVE  CrashInv'
  BY <1>1, <1>4
  DEF SendBroken, Withdraw, ResponseTimeout, TakeResponse, bgVars, queueVars
<1>5. CASE Background
  <2>1. UNCHANGED <<pc, result, fin>>
    BY <1>5
    DEF Background, BgTerminate, ReceiveNothing, ReceiveReply, MatchTicket,
        DropReply, LookUpTicket, Crash, FulfilTicket, EraseTicket,
        NothingToSend, PopCommand, Transmit, TransmitFails, TransmitThrows,
        NotifyCaller, callerVars
  <2>2. bg # "joined"
    BY <1>5
    DEF Background, BgTerminate, ReceiveNothing, ReceiveReply, MatchTicket,
        DropReply, LookUpTicket, Crash, FulfilTicket, EraseTicket,
        NothingToSend, PopCommand, Transmit, TransmitFails, TransmitThrows,
        NotifyCaller, BgGoto
  <2>3. /\ bg' = "found" => waiting_recipients'[held'.id] # NoCall
        /\ bg' = "fulfil" => waiting_recipients'[held'.id] = current'
        /\ bg' = "crashed" => SomeCallFailed
    BY <1>5
    DEF Background, BgTerminate, ReceiveNothing, ReceiveReply, MatchTicket,
        DropReply, LookUpTicket, Crash, FulfilTicket, EraseTicket,
        NothingToSend, PopCommand, Transmit, TransmitFails, TransmitThrows,
        NotifyCaller, BgGoto, queueVars
  <2> QED
    BY <2>1, <2>2, <2>3
<1>6. CASE FinaliseSignal \/ FinaliseWork
  BY <1>6
  DEF FinaliseSignal, FinaliseWork, FinaliseSenders, FinaliseRecipients,
      callerVars, bgVars, queueVars
<1>7. CASE Environment \/ UNCHANGED vars
  BY <1>7
  DEF Environment, Answer, LoseRequest, LoseReply, vars, callerVars, bgVars,
      queueVars
<1> QED
  BY <1>2, <1>3, <1>4, <1>5, <1>6, <1>7 DEF Next, CallerWork, CallerTimeout

(* With lookups that do not race, the background thread takes the process  *)
(* down only after a call returned an error (GetNextResponse): a run in    *)
(* which every command succeeds does not crash.                            *)
THEOREM CrashNeedsFailedCall ==
  ASSUME RacyLookup = FALSE
  PROVE  Spec => [](~ Alive => SomeCallFailed)
<1>1. Init => CrashInv
  BY DEF Init, CrashInv
<1>2. TypeOK /\ CrashInv /\ [Next]_vars => CrashInv'
  BY CrashInvStep
<1>3. CrashInv => (~ Alive => SomeCallFailed)
  BY DEF CrashInv, Alive
<1> QED
  BY <1>1, <1>2, <1>3, TypeCorrect, PTL DEF Spec
============================================================================
