-------------------------- MODULE ServicesBackend --------------------------
(***************************************************************************)
(* The command channel of ServicesBackend: user threads call SendCommand,  *)
(* which registers a ticket, queues the command and waits twice (for the   *)
(* send receipt, then for the response); one background thread owns the    *)
(* zmq sockets, sends queued commands and hands replies to the tickets.    *)
(*                                                                         *)
(* A call (one execution of DoCommand) is named by the order in which it   *)
(* took its message id, so "the reply to call n" has a meaning that does   *)
(* not depend on ids.  What a command says is abstracted to its call.      *)
(***************************************************************************)
EXTENDS Naturals, Sequences, FiniteSets

CONSTANTS
  MaxCalls,      \* bound: calls of SendCommand made in a behaviour
  IdModulus,     \* ids are uint32_t: 2^32 of them in the code
  Seed,          \* the nanosecond clock msg_id is initialised from
  Middlemen,     \* the processes that serve the two sockets
  RacyLookup     \* TRUE: the unlocked lookup in waiting_recipients may miss

ASSUME ConstantsOK ==
  /\ MaxCalls \in Nat
  /\ IdModulus \in Nat \ {0}
  /\ Seed \in 0 .. IdModulus - 1
  /\ RacyLookup \in BOOLEAN

Calls == 1 .. MaxCalls
Ids == 0 .. IdModulus - 1
NoCall == 0

VARIABLES
  calls,               \* number of calls made so far
  msg_id,              \* the atomic message id counter
  id,                  \* thismsgid of every call
  pc,                  \* where the thread of every call is in DoCommand
  receipt,             \* state of the send promise of every call
  response,            \* state of the response promise of every call
  reply,               \* the reply a fulfilled response promise carries
  result,              \* what SendCommand returned for every call
  waiting_senders,     \* queue of commands to send
  waiting_recipients,  \* ticket (a call) filed under every id, or NoCall
  bg,                  \* where the background thread is in its loop
  held,                \* the reply it is handing out
  current,             \* the call whose promise it holds
  fin,                 \* progress of Finalise
  wire,                \* requests on their way: <<call, middleman>>
  inbox,               \* replies on their way or in the DEALER socket
  executed,            \* calls a middleman has acted on
  sent                 \* history: calls put on a zmq socket

callerVars == <<calls, msg_id, id, pc, result>>
promiseVars == <<receipt, response, reply>>
queueVars == <<waiting_senders, waiting_recipients>>
bgVars == <<bg, held, current>>
netVars == <<wire, inbox, executed, sent>>
vars == <<callerVars, promiseVars, queueVars, bgVars, fin, netVars>>

(* A reply succeeds when its status part says so and every later part      *)
(* decompresses; it fails otherwise, also when the status part is missing. *)
ReplyKinds == {"ok", "fail"}
Succeeds(kind) == kind = "ok"

Reply == [id : Ids, call : Calls, by : Middlemen, kind : ReplyKinds]
NoReply == [id |-> 0, call |-> NoCall, by |-> NoCall, kind |-> "none"]

Alive == bg # "crashed"

Init ==
  /\ calls = 0
  /\ msg_id = Seed
  /\ id = [n \in Calls |-> 0]
  /\ pc = [n \in Calls |-> "new"]
  /\ receipt = [n \in Calls |-> "pending"]
  /\ response = [n \in Calls |-> "pending"]
  /\ reply = [n \in Calls |-> NoReply]
  /\ result = [n \in Calls |-> "none"]
  /\ waiting_senders = <<>>
  /\ waiting_recipients = [i \in Ids |-> NoCall]
  /\ bg = "top"
  /\ held = NoReply
  /\ current = NoCall
  /\ fin = "running"
  /\ wire = {}
  /\ inbox = {}
  /\ executed = {}
  /\ sent = {}

----------------------------------------------------------------------------
(* The calling threads: SendCommand and DoCommand.                         *)

(* Faulty: a counter wider than the ids of the tickets. *)
NextIdWide(i) == i + 1

(* Faulty: the counter is read but not advanced. *)
NextIdStuck(i) == i

(* ++msg_id on a uint32_t. *)
NextId(i) == IF i = IdModulus - 1 THEN 0 ELSE i + 1

Goto(n, from, to) == pc[n] = from /\ pc' = [pc EXCEPT ![n] = to]

Return(n, from, what) ==
  /\ Goto(n, from, "returned")
  /\ result' = [result EXCEPT ![n] = what]

(* A call passes the topic checks and takes its message id.  Nothing keeps *)
(* calls away while Finalise runs; after it the compression context is     *)
(* gone and no call is made.                                               *)
Invoke(n) ==
  /\ n = calls + 1
  /\ fin # "done"
  /\ Goto(n, "new", "ticket")
  /\ calls' = n
  /\ msg_id' = NextId(msg_id)
  /\ id' = [id EXCEPT ![n] = NextId(msg_id)]
  /\ UNCHANGED <<result, promiseVars, queueVars, bgVars, fin, netVars>>

(* waiting_recipients.emplace: when the id is already filed, map::emplace  *)
(* destroys the new promise instead, and its future is ready with          *)
(* broken_promise.                                                         *)
FileTicket(n) ==
  /\ Goto(n, "ticket", "queue")
  /\ IF waiting_recipients[id[n]] = NoCall
       THEN /\ waiting_recipients' = [waiting_recipients EXCEPT ![id[n]] = n]
            /\ UNCHANGED response
       ELSE /\ response' = [response EXCEPT ![n] = "broken"]
            /\ UNCHANGED waiting_recipients
  /\ UNCHANGED <<calls, msg_id, id, result, receipt, reply,
                 waiting_senders, bgVars, fin, netVars>>

(* waiting_senders.emplace. *)
QueueCommand(n) ==
  /\ Goto(n, "queue", "sending")
  /\ waiting_senders' = Append(waiting_senders, n)
  /\ UNCHANGED <<calls, msg_id, id, result, promiseVars, waiting_recipients,
                 bgVars, fin, netVars>>

(* send_receipt.wait_for times out, or the receipt is there but the wait   *)
(* took longer than the timeout; the ticket is still filed.                *)
SendTimeout(n) ==
  /\ Goto(n, "sending", "withdraw_timeout")
  /\ UNCHANGED <<calls, msg_id, id, result, promiseVars, queueVars, bgVars,
                 fin, netVars>>

(* The receipt says PollAndSend failed. *)
SendFailed(n) ==
  /\ receipt[n] = "failed"
  /\ Goto(n, "sending", "withdraw_failed")
  /\ UNCHANGED <<calls, msg_id, id, result, promiseVars, queueVars, bgVars,
                 fin, netVars>>

(* The receipt says 0: go on to wait for the response. *)
SendConfirmed(n) ==
  /\ receipt[n] = "sent"
  /\ Goto(n, "sending", "receiving")
  /\ UNCHANGED <<calls, msg_id, id, result, promiseVars, queueVars, bgVars,
                 fin, netVars>>

(* Finalise destroyed the send promise: send_receipt.get() throws out of   *)
(* DoCommand, past the erase, and SendCommand's catch returns false.       *)
SendBroken(n) ==
  /\ receipt[n] = "broken"
  /\ Return(n, "sending", "error")
  /\ UNCHANGED <<calls, msg_id, id, promiseVars, queueVars, bgVars, fin,
                 netVars>>

(* waiting_recipients.erase(thismsgid) by key, on the two paths that give  *)
(* up before the response; a promise erased unfulfilled is broken.         *)
Erased(i) ==
  /\ waiting_recipients' = [waiting_recipients EXCEPT ![i] = NoCall]
  /\ response' =
       [n \in Calls |->
          IF waiting_recipients[i] = n /\ response[n] = "pending"
            THEN "broken" ELSE response[n]]

Withdraw(n) ==
  /\ \/ Return(n, "withdraw_timeout", "error")
     \/ Return(n, "withdraw_failed", "unsent")
  /\ Erased(id[n])
  /\ UNCHANGED <<calls, msg_id, id, receipt, reply, waiting_senders, bgVars,
                 fin, netVars>>

(* Faulty: get() without a timed wait before it. *)
ResponseTimeoutNever(n) == FALSE /\ pc[n] = "receiving" /\ UNCHANGED vars

(* response_reciept.wait_for times out: no erase on this path. *)
ResponseTimeout(n) ==
  /\ response[n] = "pending"
  /\ Return(n, "receiving", "error")
  /\ UNCHANGED <<calls, msg_id, id, promiseVars, queueVars, bgVars, fin,
                 netVars>>

(* Faulty: a response that could not be got leaves an initial success. *)
TakeResponseUnchecked(n) ==
  /\ response[n] # "pending"
  /\ Return(n, "receiving", IF response[n] = "broken" THEN "ok" ELSE "error")
  /\ UNCHANGED <<calls, msg_id, id, promiseVars, queueVars, bgVars, fin,
                 netVars>>

(* response_reciept.get(): the reply, or the exception of a broken promise.*)
TakeResponse(n) ==
  /\ \/ /\ response[n] = "ready"
        /\ Return(n, "receiving",
                  IF Succeeds(reply[n].kind) THEN "ok" ELSE "error")
     \/ /\ response[n] = "broken"
        /\ Return(n, "receiving", "error")
  /\ UNCHANGED <<calls, msg_id, id, promiseVars, queueVars, bgVars, fin,
                 netVars>>

CallerWork(n) ==
  \/ FileTicket(n) \/ QueueCommand(n)
  \/ SendFailed(n) \/ SendConfirmed(n) \/ SendBroken(n)
  \/ Withdraw(n) \/ TakeResponse(n)

CallerTimeout(n) == SendTimeout(n) \/ ResponseTimeout(n)

----------------------------------------------------------------------------
(* The background thread: BackgroundThread, GetNextResponse,               *)
(* SendNextCommand.  One round of the loop is                              *)
(*   top -> [match -> found -> fulfil -> erase] -> send                    *)
(*       -> [transmit -> notify] -> top                                    *)

BgGoto(from, to) == bg = from /\ bg' = to

(* The terminate signal is polled first in every round. *)
BgTerminate ==
  /\ fin = "signalled"
  /\ BgGoto("top", "joined")
  /\ UNCHANGED <<held, current, callerVars, promiseVars, queueVars, fin,
                 netVars>>

(* PollAndReceive: nothing to receive, or a poll or receive error. *)
ReceiveNothing ==
  /\ fin = "running"
  /\ BgGoto("top", "send")
  /\ UNCHANGED <<held, current, callerVars, promiseVars, queueVars, fin,
                 netVars>>

(* PollAndReceive returns a message; its first part is the id. *)
ReceiveReply(r) ==
  /\ fin = "running"
  /\ BgGoto("top", "match")
  /\ held' = r
  /\ inbox' = inbox \ {r}
  /\ UNCHANGED <<current, callerVars, promiseVars, queueVars, fin, wire,
                 executed, sent>>

(* Some thread is inside a locked update of waiting_recipients, which the  *)
(* background thread reads without the lock.                               *)
UpdateInProgress ==
  \E n \in Calls : pc[n] \in {"ticket", "withdraw_timeout", "withdraw_failed"}

(* waiting_recipients.count: a ticket is found ... *)
MatchTicket ==
  /\ waiting_recipients[held.id] # NoCall
  /\ BgGoto("match", "found")
  /\ UNCHANGED <<held, current, callerVars, promiseVars, queueVars, fin,
                 netVars>>

(* Faulty: the reply of a failed command is not handed out. *)
DropReplyOfFailure ==
  /\ waiting_recipients[held.id] = NoCall \/ held.kind = "fail"
  /\ BgGoto("match", "send")
  /\ held' = NoReply
  /\ UNCHANGED <<current, callerVars, promiseVars, queueVars, fin, netVars>>

(* ... or not, and the reply is dropped as "Unknown message id".  A lookup *)
(* racing with an update may miss a ticket that is filed.                  *)
DropReply ==
  /\ \/ waiting_recipients[held.id] = NoCall
     \/ RacyLookup /\ UpdateInProgress
  /\ BgGoto("match", "send")
  /\ held' = NoReply
  /\ UNCHANGED <<current, callerVars, promiseVars, queueVars, fin, netVars>>

(* waiting_recipients.at: a pointer to the ticket's promise ... *)
LookUpTicket ==
  /\ waiting_recipients[held.id] # NoCall
  /\ BgGoto("found", "fulfil")
  /\ current' = waiting_recipients[held.id]
  /\ UNCHANGED <<held, callerVars, promiseVars, queueVars, fin, netVars>>

(* ... or std::out_of_range when the ticket was withdrawn since count (or  *)
(* the racing lookup misses it), or a write through the pointer after the  *)
(* promise was erased: the exception leaves the thread function, or memory *)
(* is corrupted, and the process dies.                                     *)
Crash ==
  /\ \/ /\ bg = "found"
        /\ waiting_recipients[held.id] = NoCall
     \/ /\ bg = "found"
        /\ RacyLookup /\ UpdateInProgress
     \/ /\ bg = "fulfil"
        /\ waiting_recipients[held.id] # current
  /\ bg' = "crashed"
  /\ UNCHANGED <<held, current, callerVars, promiseVars, queueVars, fin,
                 netVars>>

(* ticket->set_value(cmd); on an erased promise the write may also go      *)
(* unnoticed.                                                              *)
FulfilTicket ==
  /\ BgGoto("fulfil", "erase")
  /\ IF waiting_recipients[held.id] = current
       THEN /\ response' = [response EXCEPT ![current] = "ready"]
            /\ reply' = [reply EXCEPT ![current] = held]
       ELSE UNCHANGED <<response, reply>>
  /\ UNCHANGED <<held, current, callerVars, receipt, queueVars, fin, netVars>>

(* waiting_recipients.erase under the lock. *)
EraseTicket ==
  /\ BgGoto("erase", "send")
  /\ Erased(held.id)
  /\ held' = NoReply
  /\ current' = NoCall
  /\ UNCHANGED <<callerVars, receipt, reply, waiting_senders, fin, netVars>>

(* SendNextCommand: nothing queued ... *)
NothingToSend ==
  /\ waiting_senders = <<>>
  /\ BgGoto("send", "top")
  /\ UNCHANGED <<held, current, callerVars, promiseVars, queueVars, fin,
                 netVars>>

(* ... or the front of the queue is moved out. *)
PopCommand ==
  /\ waiting_senders # <<>>
  /\ BgGoto("send", "transmit")
  /\ current' = Head(waiting_senders)
  /\ waiting_senders' = Tail(waiting_senders)
  /\ UNCHANGED <<held, callerVars, promiseVars, waiting_recipients, fin,
                 netVars>>

(* The return code of PollAndSend, as set_value will report it. *)
SetReceipt(n, ret) == receipt' = [receipt EXCEPT ![n] = ret]

(* PollAndSend returns 0: a read goes to one middleman (DEALER), a write   *)
(* to those that are connected (PUB), possibly none.  The receipt is set   *)
(* by a later step.                                                        *)
Transmit ==
  \E targets \in SUBSET Middlemen :
    /\ BgGoto("transmit", "notify_sent")
    /\ wire' = wire \cup {<<current, m>> : m \in targets}
    /\ sent' = sent \cup {current}
    /\ UNCHANGED <<held, current, callerVars, promiseVars, queueVars, fin,
                   inbox, executed>>

(* PollAndSend returns -1 .. -4. *)
TransmitFails ==
  /\ BgGoto("transmit", "notify_failed")
  /\ UNCHANGED <<held, current, callerVars, promiseVars, queueVars, fin,
                 netVars>>

(* A zmq send throws: ret = false, which is the 0 of a success. *)
TransmitThrows ==
  /\ BgGoto("transmit", "notify_sent")
  /\ UNCHANGED <<held, current, callerVars, promiseVars, queueVars, fin,
                 netVars>>

(* next_cmd.second.set_value(ret). *)
NotifyCaller ==
  /\ \/ BgGoto("notify_sent", "top") /\ SetReceipt(current, "sent")
     \/ BgGoto("notify_failed", "top") /\ SetReceipt(current, "failed")
  /\ current' = NoCall
  /\ UNCHANGED <<held, callerVars, response, reply, queueVars, fin, netVars>>

Background ==
  \/ BgTerminate \/ ReceiveNothing \/ \E r \in inbox : ReceiveReply(r)
  \/ MatchTicket \/ DropReply \/ LookUpTicket \/ Crash
  \/ FulfilTicket \/ EraseTicket
  \/ NothingToSend \/ PopCommand
  \/ Transmit \/ TransmitFails \/ TransmitThrows \/ NotifyCaller

----------------------------------------------------------------------------
(* The thread that calls Finalise.                                         *)

FinaliseSignal ==
  /\ fin = "running"
  /\ fin' = "signalled"
  /\ UNCHANGED <<callerVars, promiseVars, queueVars, bgVars, netVars>>

Queued(n) == \E k \in 1 .. Len(waiting_senders) : waiting_senders[k] = n

(* Faulty: the queue is swapped out and its promises live on. *)
FinaliseSendersSwapped ==
  /\ fin = "signalled"
  /\ bg = "joined"
  /\ fin' = "closed"
  /\ inbox' = {}
  /\ waiting_senders' = <<>>
  /\ UNCHANGED <<callerVars, promiseVars, waiting_recipients, bgVars, wire,
                 executed, sent>>

(* join, delete the sockets, then replace the queue: the send promise of   *)
(* every command still in it is broken.                                    *)
FinaliseSenders ==
  /\ fin = "signalled"
  /\ bg = "joined"
  /\ fin' = "closed"
  /\ inbox' = {}
  /\ waiting_senders' = <<>>
  /\ receipt' = [n \in Calls |->
       IF Queued(n) THEN "broken" ELSE receipt[n]]
  /\ UNCHANGED <<callerVars, response, reply, waiting_recipients, bgVars,
                 wire, executed, sent>>

(* Faulty: the tickets are swapped out and their promises live on. *)
FinaliseRecipientsSwapped ==
  /\ fin = "closed"
  /\ fin' = "done"
  /\ waiting_recipients' = [i \in Ids |-> NoCall]
  /\ UNCHANGED <<callerVars, promiseVars, waiting_senders, bgVars, netVars>>

(* waiting_recipients.clear(): the response promise of every ticket still  *)
(* filed is broken.                                                        *)
FinaliseRecipients ==
  /\ fin = "closed"
  /\ fin' = "done"
  /\ waiting_recipients' = [i \in Ids |-> NoCall]
  /\ response' = [n \in Calls |->
       IF waiting_recipients[id[n]] = n /\ response[n] = "pending"
         THEN "broken" ELSE response[n]]
  /\ UNCHANGED <<callerVars, receipt, reply, waiting_senders, bgVars,
                 netVars>>

FinaliseWork == FinaliseSenders \/ FinaliseRecipients

----------------------------------------------------------------------------
(* The network and the middlemen (external).                               *)

(* A middleman acts on a request and replies with the message id it came   *)
(* with.                                                                   *)
Answer(n, m, kind) ==
  /\ <<n, m>> \in wire
  /\ wire' = wire \ {<<n, m>>}
  /\ executed' = executed \cup {n}
  /\ inbox' = inbox \cup {[id |-> id[n], call |-> n, by |-> m, kind |-> kind]}
  /\ UNCHANGED <<callerVars, promiseVars, queueVars, bgVars, fin, sent>>

LoseRequest ==
  /\ \E q \in wire : wire' = wire \ {q}
  /\ UNCHANGED <<callerVars, promiseVars, queueVars, bgVars, fin, inbox,
                 executed, sent>>

LoseReply ==
  /\ \E r \in inbox : inbox' = inbox \ {r}
  /\ UNCHANGED <<callerVars, promiseVars, queueVars, bgVars, fin, wire,
                 executed, sent>>

Environment ==
  \/ \E n \in Calls, m \in Middlemen, kind \in ReplyKinds : Answer(n, m, kind)
  \/ LoseRequest
  \/ LoseReply

----------------------------------------------------------------------------

Next ==
  /\ Alive
  /\ \/ \E n \in Calls : Invoke(n) \/ CallerWork(n) \/ CallerTimeout(n)
     \/ Background
     \/ FinaliseSignal
     \/ FinaliseWork
     \/ Environment

Spec == Init /\ [][Next]_vars

(* Every thread keeps running; wait_for does time out.  Nothing is assumed *)
(* of the middlemen, of the network, or of who calls SendCommand or        *)
(* Finalise.                                                               *)
ThreadFairness ==
  /\ WF_vars(Alive /\ Background)
  /\ WF_vars(Alive /\ FinaliseWork)
  /\ \A n \in Calls : WF_vars(Alive /\ CallerWork(n))

TimerFairness == \A n \in Calls : WF_vars(Alive /\ CallerTimeout(n))

FairSpec == Spec /\ ThreadFairness /\ TimerFairness

(* The same with callers that are in no hurry: their timeouts may never    *)
(* fire, so that whatever ends a wait is the channel itself.               *)
PatientSpec == Spec /\ ThreadFairness

----------------------------------------------------------------------------
(* Properties.                                                             *)

Promise == {"pending", "broken"}

(* Every variable keeps its type, and the background thread holds a reply  *)
(* and a promise in the places where it uses one.                          *)
TypeOK ==
  /\ calls \in 0 .. MaxCalls
  /\ msg_id \in Ids
  /\ id \in [Calls -> Ids]
  /\ pc \in [Calls -> {"new", "ticket", "queue", "sending", "receiving",
                       "withdraw_timeout", "withdraw_failed", "returned"}]
  /\ receipt \in [Calls -> Promise \cup {"sent", "failed"}]
  /\ response \in [Calls -> Promise \cup {"ready"}]
  /\ reply \in [Calls -> Reply \cup {NoReply}]
  /\ result \in [Calls -> {"none", "ok", "error", "unsent"}]
  /\ waiting_senders \in Seq(Calls)
  /\ waiting_recipients \in [Ids -> Calls \cup {NoCall}]
  /\ bg \in {"top", "match", "found", "fulfil", "erase", "send", "transmit",
            "notify_sent", "notify_failed", "joined", "crashed"}
  /\ held \in Reply \cup {NoReply}
  /\ bg \in {"match", "found", "fulfil", "erase"} => held \in Reply
  /\ current \in Calls \cup {NoCall}
  /\ bg \in {"fulfil", "erase", "transmit", "notify_sent", "notify_failed"}
       => current \in Calls
  /\ fin \in {"running", "signalled", "closed", "done"}
  /\ wire \subseteq Calls \X Middlemen
  /\ inbox \subseteq Reply
  /\ executed \subseteq Calls
  /\ sent \subseteq Calls

(* A call is only ever handed the reply to its own command, whatever was   *)
(* delayed, duplicated or abandoned before (GetNextResponse, DoCommand).   *)
ReplyMatchesCommand ==
  \A n \in Calls : response[n] = "ready" => reply[n].call = n

(* No middleman has acted on call n, and no request of it is on its way.   *)
Untouched(n) == n \notin executed /\ \A m \in Middlemen : <<n, m>> \notin wire

(* SendCommand returns success only for a command a middleman acted on,    *)
(* and after the error of a failed send the command never reaches one: a   *)
(* caller may retry it without doing it twice.                             *)
ResultIsTruthful ==
  \A n \in Calls :
    /\ result[n] = "ok" => n \in executed
    /\ result[n] = "unsent" => Untouched(n)

(* A call that has registered, has not given up and has no answer yet is   *)
(* still filed under its id: nothing another call, the background thread   *)
(* or Finalise does takes its ticket away silently.                        *)
PendingCallHasTicket ==
  \A n \in Calls :
    /\ pc[n] \in {"queue", "sending", "receiving"}
    /\ response[n] = "pending"
    => waiting_recipients[id[n]] = n

(* Once Finalise is through, nobody is left waiting for a response that    *)
(* can no longer come, nor for the receipt of a command it discarded.      *)
FinalisedLeavesNoWaiter ==
  /\ fin = "done" => \A n \in Calls :
       pc[n] = "receiving" => response[n] # "pending"
  /\ fin \in {"closed", "done"} => \A n \in Calls :
       pc[n] = "sending" /\ receipt[n] = "pending" => Queued(n)

Wanted(n) ==
  /\ pc[n] \in {"queue", "sending", "receiving"}
  /\ response[n] = "pending"

(* A reply the background thread has received ends the wait of its caller, *)
(* however patient the caller is.                                          *)
ReceivedReplyEndsWait ==
  \A n \in Calls :
    bg = "match" /\ held.call = n /\ pc[n] = "receiving"
      ~> pc[n] = "returned" \/ ~Alive

(* Finalise releases the calls that are waiting when it starts without     *)
(* the help of their timeouts.                                             *)
FinaliseReleasesCallers ==
  \A n \in Calls :
    fin = "signalled" /\ pc[n] \in {"sending", "receiving"}
      ~> pc[n] = "returned" \/ ~Alive

(* Every call returns, unless the background thread takes the process down.*)
EveryCallReturnsOrCrash ==
  \A n \in Calls :
    pc[n] \notin {"new", "returned"} ~> pc[n] = "returned" \/ ~Alive

----------------------------------------------------------------------------
(* Refinement.                                                             *)

CallStatus ==
  [n \in Calls |-> CASE pc[n] = "new" -> "idle"
                     [] pc[n] = "returned" -> result[n]
                     [] OTHER -> "open"]

Channel == INSTANCE CommandChannel
             WITH status <- CallStatus, performed <- executed

(* SendCommand keeps the promise stated in CommandChannel.                 *)
ImplementsChannel == Channel!Spec

----------------------------------------------------------------------------
(* What comments of the code say, and the code does not do.                *)

(* "These return within timeout."                                          *)
EveryCallReturns ==
  \A n \in Calls : pc[n] # "new" ~> pc[n] = "returned"

============================================================================
