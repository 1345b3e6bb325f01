--------------------------- MODULE SocketManager ---------------------------
(***************************************************************************)
(* SocketManager: a thread that owns a ZMQ socket for a tool.  In rounds   *)
(* it takes what has arrived, and sends the messages that were queued and  *)
(* hands each back to the pool with its sent and error flags set.  Other   *)
(* threads connect the socket to the services of a name (Update), forget   *)
(* the connections made (ResetConnections) and end it all (Close).  They   *)
(* ask the thread to pause so that they get sock_mtx.                      *)
(*                                                                         *)
(* What is received is not followed: it is good or bad, and a receiver's   *)
(* buffer or the pool gets it without any effect on the rest.              *)
(***************************************************************************)
EXTENDS Naturals, Sequences

CONSTANTS
  Replies,     \* messages that are queued to be sent, each once
  Parts,       \* number of parts of each
  Users,       \* threads that call Update and ResetConnections
  Endpoints,   \* ip and port of the remote services
  MaxInbox,    \* bound: messages that wait at the socket
  MaxCalls,    \* bound: calls of Update and ResetConnections
  None

Thread == "SocketManager"

ASSUME UsersOK == Thread \notin Users /\ None \notin Users \cup {Thread}
ASSUME PartsOK == Parts \in [Replies -> Nat]
ASSUME BoundsOK == MaxInbox \in Nat /\ MaxCalls \in Nat
ASSUME EndpointsOK == None \notin Endpoints

VARIABLES
  polls_in,         \* received_messages # 0: no if the buffer is of shared_ptr
  at,               \* where the thread is
  paused,
  aborted,          \* history: an Update has thrown since it was last let go on
  sock_mtx,         \* who holds it, or None
  inbox,            \* number of messages that wait at the socket
  revents,          \* what the last poll found: [in, out]
  caught,           \* history: an exception in this round's receiving loop
  messages_to_send,
  local_messages,   \* local_messages_to_send
  i,                \* the one that is sent next
  flag,             \* the sent and error flags of each: unset, sent or error
  returned,         \* messages handed back to the pool
  wire,             \* multi-part messages the peer gets, by what they are of
  open,             \* the same of one whose last part has not been sent
  threw,            \* history: an exception while this batch was sent
  user,             \* what each user is doing
  services,         \* the endpoints a user has got listed and not handled yet
  next,             \* the one it is about to connect to
  connections,      \* the table of endpoints
  connects,         \* how often the socket has been connected to each
  resets,           \* calls of ResetConnections that are over
  calls,            \* calls made so far
  closing           \* no, paused, joining or closed

pauseVars == <<paused, aborted>>
pollVars == <<revents, caught>>
roundVars == <<at, sock_mtx, inbox, pollVars>>
sendVars == <<messages_to_send, local_messages, i, flag, returned, wire, open, threw>>
userVars == <<user, services, next, connections, connects, resets, calls>>
vars == <<polls_in, pauseVars, roundVars, sendVars, userVars, closing>>

Init ==
  /\ polls_in \in BOOLEAN
  /\ at = "loop"
  /\ paused = FALSE /\ aborted = FALSE
  /\ sock_mtx = None
  /\ inbox = 0
  /\ revents = [in |-> FALSE, out |-> FALSE] /\ caught = FALSE
  /\ messages_to_send = <<>> /\ local_messages = <<>> /\ i = 1
  /\ flag = [m \in Replies |-> "unset"]
  /\ returned = {}
  /\ wire = {} /\ open = <<>>
  /\ threw = FALSE
  /\ user = [u \in Users |-> "idle"]
  /\ services = [u \in Users |-> {}]
  /\ next = [u \in Users |-> None]
  /\ connections = {}
  /\ connects = [e \in Endpoints |-> 0]
  /\ resets = 0
  /\ calls = 0
  /\ closing = "no"

Elements(seq) == {seq[k] : k \in DOMAIN seq}

(* Anything that has been handed to the manager.                           *)
Queued(m) == m \in Elements(messages_to_send) \cup Elements(local_messages)

(* An exception was caught in the receiving loop, which goes on without    *)
(* the lock: its condition is not evaluated anew by another poll.          *)
Unlocked == at = "receive" /\ sock_mtx # Thread

----------------------------------------------------------------------------
(* The surroundings.                                                       *)

Arrive ==
  /\ inbox < MaxInbox
  /\ inbox' = inbox + 1
  /\ UNCHANGED <<polls_in, pauseVars, at, sock_mtx, pollVars, sendVars, userVars,
                 closing>>

(* A tool adds a message to the buffer.                                    *)
Queue(m) ==
  /\ ~Queued(m) /\ m \notin returned
  /\ messages_to_send' = Append(messages_to_send, m)
  /\ UNCHANGED <<polls_in, pauseVars, roundVars, local_messages, i, flag,
                 returned, wire, open, threw, userVars, closing>>

----------------------------------------------------------------------------
(* The thread.  A round begins unless the thread has been killed.          *)

(* Definitions marked Faulty are plausible mistakes, for the properties to *)
(* find.  Bug: the thread is killed only when it next is not running.      *)
FaultyEndThread ==
  /\ at = "loop" /\ closing = "joining" /\ ~paused
  /\ at' = "ended"
  /\ UNCHANGED <<polls_in, pauseVars, sock_mtx, inbox, pollVars, sendVars,
                 userVars, closing>>

EndThread ==
  /\ at = "loop" /\ closing = "joining"
  /\ at' = "ended"
  /\ UNCHANGED <<polls_in, pauseVars, sock_mtx, inbox, pollVars, sendVars,
                 userVars, closing>>

StartRound ==
  /\ at = "loop" /\ closing # "joining"
  /\ at' = "pause"
  /\ UNCHANGED <<polls_in, pauseVars, sock_mtx, inbox, pollVars, sendVars,
                 userVars, closing>>

(* Bug: what could not be sent in the last round is dropped by the swap.   *)
FaultySwap ==
  /\ at = "pause" /\ ~paused
  /\ at' = "lock"
  /\ local_messages' = messages_to_send
  /\ messages_to_send' = <<>>
  /\ UNCHANGED <<polls_in, pauseVars, sock_mtx, inbox, pollVars, i, flag,
                 returned, wire, open, threw, userVars, closing>>

(* Bug: the round begins although the thread is to pause.                  *)
EagerSwap ==
  /\ at = "pause"
  /\ at' = "lock"
  /\ local_messages' = messages_to_send
  /\ messages_to_send' = local_messages
  /\ UNCHANGED <<polls_in, pauseVars, sock_mtx, inbox, pollVars, i, flag,
                 returned, wire, open, threw, userVars, closing>>

(* What could not be sent in the last round goes back into the buffer, for *)
(* the round after this one.                                               *)
Swap ==
  /\ at = "pause" /\ ~paused
  /\ at' = "lock"
  /\ local_messages' = messages_to_send
  /\ messages_to_send' = local_messages
  /\ UNCHANGED <<polls_in, pauseVars, sock_mtx, inbox, pollVars, i, flag,
                 returned, wire, open, threw, userVars, closing>>

Lock ==
  /\ at = "lock" /\ sock_mtx = None
  /\ IF local_messages # <<>> \/ polls_in
     THEN at' = "poll" /\ sock_mtx' = Thread
     ELSE at' = "loop" /\ UNCHANGED sock_mtx
  /\ UNCHANGED <<polls_in, pauseVars, inbox, pollVars, sendVars, userVars, closing>>

(* Each direction is polled only if there is something to do with it.      *)
Poll(writable) ==
  /\ at = "poll"
  /\ revents' = [in |-> polls_in /\ inbox > 0,
                 out |-> IF local_messages = <<>> THEN revents.out ELSE writable]
  /\ at' = "receive"
  /\ UNCHANGED <<polls_in, pauseVars, sock_mtx, inbox, caught, sendVars, userVars,
                 closing>>

PollThrows ==
  /\ at = "poll"
  /\ at' = "loop"
  /\ sock_mtx' = None
  /\ UNCHANGED <<polls_in, pauseVars, inbox, pollVars, sendVars, userVars, closing>>

Receive ==
  /\ at = "receive" /\ sock_mtx = Thread /\ revents.in
  /\ inbox' = inbox - 1
  /\ sock_mtx' = None
  /\ at' = "stored"
  /\ UNCHANGED <<polls_in, pauseVars, pollVars, sendVars, userVars, closing>>

(* Bug: the lock is not taken again for the next message.                  *)
FaultyPollAgain ==
  /\ at = "stored"
  /\ revents' = [in |-> inbox > 0, out |-> revents.out]
  /\ at' = "receive"
  /\ UNCHANGED <<polls_in, pauseVars, sock_mtx, inbox, caught, sendVars, userVars,
                 closing>>

(* Poll again, without waiting.                                            *)
PollAgain ==
  /\ at = "stored" /\ sock_mtx = None
  /\ sock_mtx' = Thread
  /\ revents' = [in |-> inbox > 0, out |-> revents.out]
  /\ at' = "receive"
  /\ UNCHANGED <<polls_in, pauseVars, inbox, caught, sendVars, userVars, closing>>

(* GetNew, recv, Add or poll throws: the lock is given up.                 *)
ReceiveThrows ==
  /\ at \in {"receive", "stored"} /\ revents.in
  /\ sock_mtx' = IF sock_mtx = Thread THEN None ELSE sock_mtx
  /\ at' = "receive"
  /\ caught' = TRUE
  /\ UNCHANGED <<polls_in, pauseVars, inbox, revents, sendVars, userVars, closing>>

(* Bug: recv does not wait for a message.                                  *)
FaultyReceiveUnlocked ==
  /\ Unlocked
  /\ inbox' = inbox - 1
  /\ UNCHANGED <<polls_in, pauseVars, at, sock_mtx, pollVars, sendVars, userVars,
                 closing>>

(* recv waits for a message, which is lost when the unlock then throws.    *)
ReceiveUnlocked ==
  /\ Unlocked /\ inbox > 0
  /\ inbox' = inbox - 1
  /\ UNCHANGED <<polls_in, pauseVars, at, sock_mtx, pollVars, sendVars, userVars,
                 closing>>

(* Nothing more to receive.                                                *)
Received ==
  /\ at = "receive" /\ ~revents.in
  /\ sock_mtx' = None
  /\ at' = IF local_messages # <<>> /\ revents.out THEN "send" ELSE "loop"
  /\ i' = 1
  /\ caught' = FALSE
  /\ UNCHANGED <<polls_in, pauseVars, inbox, revents, messages_to_send, local_messages,
                 flag, returned, wire, open, threw, userVars, closing>>

Sending == at = "send" /\ i <= Len(local_messages) /\ sock_mtx = None

(* All parts are sent; after a message that was left incomplete they are   *)
(* further parts of that.                                                  *)
Send(m) ==
  /\ Sending /\ m = local_messages[i] /\ Parts[m] > 0
  /\ wire' = wire \cup {Append(open, m)}
  /\ open' = <<>>
  /\ flag' = [flag EXCEPT ![m] = "sent"]
  /\ i' = i + 1
  /\ UNCHANGED <<polls_in, pauseVars, roundVars, messages_to_send, local_messages,
                 returned, threw, userVars, closing>>

(* send returns false, for the first part: a later one does not fail when  *)
(* the first has been accepted.                                            *)
SendFails(m) ==
  /\ Sending /\ m = local_messages[i] /\ Parts[m] > 0
  /\ flag' = [flag EXCEPT ![m] = "error"]
  /\ i' = i + 1
  /\ UNCHANGED <<polls_in, pauseVars, roundVars, messages_to_send, local_messages,
                 returned, wire, open, threw, userVars, closing>>

(* Bug: the message that was being sent is not flagged.                    *)
FaultySendThrows(m, parts) ==
  /\ Sending /\ m = local_messages[i]
  /\ parts = 0 \/ parts < Parts[m]
  /\ open' = IF parts > 0 THEN Append(open, m) ELSE open
  /\ i' = Len(local_messages) + 1
  /\ threw' = TRUE
  /\ UNCHANGED <<polls_in, pauseVars, roundVars, messages_to_send, local_messages,
                 flag, returned, wire, userVars, closing>>

(* send throws, or the message has no part at all and at() does: of the    *)
(* batch only this message is flagged.                                     *)
SendThrows(m, parts) ==
  /\ Sending /\ m = local_messages[i]
  /\ parts = 0 \/ parts < Parts[m]
  /\ open' = IF parts > 0 THEN Append(open, m) ELSE open
  /\ flag' = [flag EXCEPT ![m] = "error"]
  /\ i' = Len(local_messages) + 1
  /\ threw' = TRUE
  /\ UNCHANGED <<polls_in, pauseVars, roundVars, messages_to_send, local_messages,
                 returned, wire, userVars, closing>>

(* Bug: the batch is not cleared after it has been handed back.            *)
FaultyReturnAll ==
  /\ at = "send" /\ i > Len(local_messages)
  /\ returned' = returned \cup Elements(local_messages)
  /\ at' = "loop"
  /\ threw' = FALSE
  /\ UNCHANGED <<polls_in, pauseVars, sock_mtx, inbox, pollVars, messages_to_send,
                 local_messages, i, flag, wire, open, userVars, closing>>

ReturnAll ==
  /\ at = "send" /\ i > Len(local_messages)
  /\ returned' = returned \cup Elements(local_messages)
  /\ local_messages' = <<>>
  /\ at' = "loop"
  /\ threw' = FALSE
  /\ UNCHANGED <<polls_in, pauseVars, sock_mtx, inbox, pollVars, messages_to_send, i,
                 flag, wire, open, userVars, closing>>

----------------------------------------------------------------------------
(* Update and ResetConnections.                                            *)

Call(u, what) ==
  /\ user[u] = "idle" /\ closing = "no" /\ calls < MaxCalls
  /\ calls' = calls + 1
  /\ paused' = TRUE
  /\ user' = [user EXCEPT ![u] = what]
  /\ UNCHANGED <<polls_in, aborted, roundVars, sendVars, services, next, connections,
                 connects, resets, closing>>

Update(u) == Call(u, "update")
ResetConnections(u) == Call(u, "reset")

(* The lock is taken, and ServiceDiscovery lists the services it knows.    *)
UpdateLocked(u, listed) ==
  /\ user[u] = "update" /\ sock_mtx = None
  /\ sock_mtx' = u
  /\ user' = [user EXCEPT ![u] = "connect"]
  /\ services' = [services EXCEPT ![u] = listed]
  /\ UNCHANGED <<polls_in, pauseVars, at, inbox, pollVars, sendVars, next, connections,
                 connects, resets, calls, closing>>

(* The table is looked up for the next endpoint ...                        *)
Look(u, e) ==
  /\ user[u] = "connect" /\ next[u] = None
  /\ e \in services[u]
  /\ services' = [services EXCEPT ![u] = @ \ {e}]
  /\ next' = [next EXCEPT ![u] = IF e \in connections THEN None ELSE e]
  /\ UNCHANGED <<polls_in, pauseVars, roundVars, sendVars, user, connections,
                 connects, resets, calls, closing>>

(* ... and if it is a new one, it is put there and connected to.           *)
Connect(u) ==
  /\ user[u] = "connect" /\ next[u] # None
  /\ connections' = connections \cup {next[u]}
  /\ connects' = [connects EXCEPT ![next[u]] = @ + 1]
  /\ next' = [next EXCEPT ![u] = None]
  /\ UNCHANGED <<polls_in, pauseVars, roundVars, sendVars, user, services,
                 resets, calls, closing>>

UpdateReturn(u) ==
  /\ user[u] = "connect" /\ next[u] = None /\ services[u] = {}
  /\ paused' = FALSE /\ aborted' = FALSE
  /\ sock_mtx' = None
  /\ user' = [user EXCEPT ![u] = "idle"]
  /\ UNCHANGED <<polls_in, at, inbox, pollVars, sendVars, services, next, connections,
                 connects, resets, calls, closing>>

(* The socket's connect throws, or a call to ServiceDiscovery does, and the *)
(* caller catches it.  The lock is given up, but the thread is still asked *)
(* to pause, and an endpoint that was put in the table remains there.      *)
UpdateThrows(u) ==
  /\ user[u] = "connect"
  /\ connections' = connections \cup ({next[u]} \ {None})
  /\ services' = [services EXCEPT ![u] = {}]
  /\ next' = [next EXCEPT ![u] = None]
  /\ aborted' = TRUE
  /\ sock_mtx' = None
  /\ user' = [user EXCEPT ![u] = "idle"]
  /\ UNCHANGED <<polls_in, paused, at, inbox, pollVars, sendVars, connects, resets,
                 calls, closing>>

(* The table is emptied; the socket remains connected.                     *)
Reset(u) ==
  /\ user[u] = "reset" /\ sock_mtx = None
  /\ connections' = {}
  /\ resets' = resets + 1
  /\ paused' = FALSE /\ aborted' = FALSE
  /\ user' = [user EXCEPT ![u] = "idle"]
  /\ UNCHANGED <<polls_in, roundVars, sendVars, services, next, connects, calls,
                 closing>>

----------------------------------------------------------------------------
(* Close, when no other call is being made: m_util is deleted by it.       *)
Close ==
  /\ closing = "no" /\ \A u \in Users : user[u] = "idle"
  /\ closing' = "paused"
  /\ paused' = TRUE
  /\ UNCHANGED <<polls_in, aborted, roundVars, sendVars, userVars>>

(* KillThread: kill is set, and pthread_join waits for the thread.         *)
Kill ==
  /\ closing = "paused"
  /\ closing' = "joining"
  /\ UNCHANGED <<polls_in, pauseVars, roundVars, sendVars, userVars>>

Joined ==
  /\ closing = "joining" /\ at = "ended"
  /\ closing' = "closed"
  /\ connections' = {}
  /\ UNCHANGED <<polls_in, pauseVars, roundVars, sendVars, user, services, next,
                 connects, resets, calls>>

----------------------------------------------------------------------------
Listing(u) == \E listed \in SUBSET Endpoints : UpdateLocked(u, listed)

SendStep(m) ==
  \/ Send(m)
  \/ SendFails(m)
  \/ \E parts \in 0..Parts[m] : SendThrows(m, parts)

Round ==
  \/ EndThread \/ StartRound \/ Swap \/ Lock
  \/ \E writable \in BOOLEAN : Poll(writable)
  \/ PollThrows
  \/ Receive \/ PollAgain \/ ReceiveThrows \/ ReceiveUnlocked \/ Received
  \/ \E m \in Replies : SendStep(m)
  \/ ReturnAll

UserStep(u) ==
  \/ Listing(u)
  \/ \E e \in Endpoints : Look(u, e)
  \/ Connect(u) \/ UpdateReturn(u) \/ Reset(u)

Next ==
  \/ Arrive
  \/ \E m \in Replies : Queue(m)
  \/ Round
  \/ \E u \in Users :
       Update(u) \/ ResetConnections(u) \/ UserStep(u) \/ UpdateThrows(u)
  \/ Close \/ Kill \/ Joined

Spec == Init /\ [][Next]_vars

(* Every thread goes on; the mutex is not fair to those who wait for it;   *)
(* the peers read, so that the socket can be written to again and again.   *)
FairSpec ==
  /\ Spec
  /\ WF_vars(Round)
  /\ WF_vars(Kill) /\ WF_vars(Joined)
  /\ SF_vars(local_messages # <<>> /\ Poll(TRUE))
  /\ \A u \in Users : WF_vars(UserStep(u))

----------------------------------------------------------------------------
(* Properties.                                                             *)

TypeOK ==
  /\ polls_in \in BOOLEAN
  /\ at \in {"loop", "pause", "lock", "poll", "receive", "stored", "send", "ended"}
  /\ paused \in BOOLEAN /\ aborted \in BOOLEAN
  /\ sock_mtx \in Users \cup {Thread, None}
  /\ inbox \in 0..MaxInbox
  /\ revents \in [in : BOOLEAN, out : BOOLEAN] /\ caught \in BOOLEAN
  /\ messages_to_send \in Seq(Replies) /\ local_messages \in Seq(Replies)
  /\ i \in Nat \ {0}
  /\ flag \in [Replies -> {"unset", "sent", "error"}]
  /\ returned \subseteq Replies
  /\ wire \subseteq Seq(Replies) /\ open \in Seq(Replies)
  /\ threw \in BOOLEAN
  /\ user \in [Users -> {"idle", "update", "connect", "reset"}]
  /\ services \in [Users -> SUBSET Endpoints]
  /\ next \in [Users -> Endpoints \cup {None}]
  /\ connections \subseteq Endpoints
  /\ connects \in [Endpoints -> Nat]
  /\ resets \in Nat /\ calls \in 0..MaxCalls
  /\ closing \in {"no", "paused", "joining", "closed"}

(* The thread uses the socket only with the lock, and never together with  *)
(* an Update that connects it, unless an exception was caught in the       *)
(* receiving loop it is in, which then goes on without the lock.           *)
SocketUsedAlone ==
  /\ at \in {"poll", "receive"} => sock_mtx = Thread \/ caught
  /\ caught => at = "receive"
  /\ sock_mtx = Thread => at \in {"poll", "receive"}
  /\ \A u \in Users : user[u] = "connect" <=> sock_mtx = u

(* Every message that was queued is in one place: in the buffer, in the    *)
(* round's batch, or back in the pool.                                     *)
HandedBackOnce ==
  /\ Elements(messages_to_send) \cap Elements(local_messages) = {}
  /\ returned \cap (Elements(messages_to_send) \cup Elements(local_messages)) = {}
  /\ \A j, k \in DOMAIN messages_to_send :
       messages_to_send[j] = messages_to_send[k] => j = k
  /\ \A j, k \in DOMAIN local_messages : local_messages[j] = local_messages[k] => j = k

(* The flags are true: the last part of a message is on the wire, once, if *)
(* and only if the message is flagged as sent; all the messages that are   *)
(* in front of it in what the peer gets are flagged as failed.             *)
FlagsTruthful ==
  /\ \A m \in Replies :
       flag[m] = "sent" <=> \E w \in wire : w # <<>> /\ w[Len(w)] = m
  /\ \A w \in wire : w # <<>> /\ \A k \in 1..(Len(w) - 1) : flag[w[k]] = "error"
  /\ \A k \in DOMAIN open : flag[open[k]] = "error"

(* The socket is connected to an endpoint again only if the table has been *)
(* reset in the meantime.                                                  *)
ConnectedOnce == \A e \in Endpoints : connects[e] <= resets + 1

(* The receiving loop, which has no bound and receives what arrives in the *)
(* meantime as well, comes to an end unless an exception is caught in it.  *)
NotFlooded == []<>(at \notin {"receive", "stored"} \/ caught)

(* Every message that is queued is flagged in the end, unless an exception *)
(* is caught in the sending part, or one in the receiving loop (which then *)
(* never ends), an Update has thrown and left the thread to pause, or the  *)
(* manager is closed.                                                      *)
QueuedIsFlagged ==
  NotFlooded =>
    \A m \in Replies :
      Queued(m) ~>
        flag[m] # "unset" \/ threw \/ caught \/ aborted \/ closing # "no"

(* A user who waits for the lock while the thread is asked to pause gets   *)
(* it, or another user has let the thread go on before; also when a loop   *)
(* that has caught an exception never ends, as it has given the lock up.   *)
UpdateGetsLock ==
  NotFlooded =>
    \A u \in Users :
      user[u] \in {"update", "reset"} ~> user[u] \in {"connect", "idle"} \/ ~paused

(* Close returns, unless the loop that caught an exception goes on or the  *)
(* thread had begun another round before it was killed: it then waits, for *)
(* ever, to be no longer paused.                                           *)
CloseReturns ==
  NotFlooded =>
    (closing = "joining" /\ at # "pause" ~> closing = "closed" \/ caught)

----------------------------------------------------------------------------
(* Refinement.                                                             *)

Place ==
  [m \in Replies |-> IF m \in returned THEN "pool"
                     ELSE IF Queued(m) THEN "held" ELSE "tool"]

(* The messages whose last part the peer has got.                          *)
Delivered == {m \in Replies : \E w \in wire : w # <<>> /\ w[Len(w)] = m}

Box == INSTANCE Outbox
         WITH Messages <- Replies, place <- Place, verdict <- flag,
              delivered <- Delivered, broken <- threw

(* The manager keeps the promise stated in Outbox: it judges each message  *)
(* once and truly, and hands it back once, with its batch.                 *)
ImplementsOutbox == Box!Spec
============================================================================
