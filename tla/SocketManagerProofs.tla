------------------------ MODULE SocketManagerProofs ------------------------
(***************************************************************************)
(* Proofs about SocketManager, for any messages, users and endpoints.      *)
(***************************************************************************)
EXTENDS SocketManager, SequenceTheorems, TLAPS

----------------------------------------------------------------------------
(* Type correctness.  A message is sent only if it is one of the batch.    *)

LEMMA NextUnfolds ==
  ASSUME Next
  PROVE  \/ Arrive
         \/ \E m \in Replies : Queue(m)
         \/ EndThread \/ StartRound \/ Swap \/ Lock
         \/ \E writable \in BOOLEAN : Poll(writable)
         \/ PollThrows \/ Receive \/ PollAgain \/ ReceiveThrows
         \/ ReceiveUnlocked \/ Received
         \/ \E m \in Replies : Send(m)
         \/ \E m \in Replies : SendFails(m)
         \/ \E m \in Replies : \E parts \in 0..Parts[m] : SendThrows(m, parts)
         \/ ReturnAll
         \/ \E u \in Users : Update(u)
         \/ \E u \in Users : ResetConnections(u)
         \/ \E u \in Users : \E listed \in SUBSET Endpoints : UpdateLocked(u, listed)
         \/ \E u \in Users : \E e \in Endpoints : Look(u, e)
         \/ \E u \in Users : Connect(u)
         \/ \E u \in Users : UpdateReturn(u)
         \/ \E u \in Users : Reset(u)
         \/ \E u \in Users : UpdateThrows(u)
         \/ Close \/ Kill \/ Joined
BY DEF Next, Round, SendStep, UserStep, Listing

(* What is received is counted, and something is received only when there  *)
(* is something.                                                           *)
ReceivableInv == at = "receive" /\ sock_mtx = Thread /\ revents.in => inbox > 0

TypeInv == TypeOK /\ ReceivableInv

LEMMA TypeInvInit == Init => TypeInv
<1> SUFFICES ASSUME Init PROVE TypeInv
  OBVIOUS
<1>1. inbox \in 0..MaxInbox /\ calls \in 0..MaxCalls
  BY BoundsOK DEF Init
<1>2. /\ messages_to_send \in Seq(Replies) /\ local_messages \in Seq(Replies)
      /\ open \in Seq(Replies)
  BY DEF Init
<1>3. polls_in \in BOOLEAN /\ paused \in BOOLEAN /\ threw \in BOOLEAN
      /\ aborted \in BOOLEAN /\ caught \in BOOLEAN
  BY DEF Init
<1> QED
  BY <1>1, <1>2, <1>3 DEF Init, TypeInv, TypeOK, ReceivableInv

LEMMA TypeInvStep == TypeInv /\ [Next]_vars => TypeInv'
<1> SUFFICES ASSUME TypeInv, [Next]_vars PROVE TypeInv'
  OBVIOUS
<1> USE DEF TypeInv, TypeOK, ReceivableInv,
    pauseVars, pollVars, roundVars, sendVars, userVars
<1> USE UsersOK, PartsOK, BoundsOK, EndpointsOK
<1>1. CASE Arrive
  BY <1>1 DEF Arrive
<1>2. ASSUME NEW m \in Replies, Queue(m) PROVE TypeInv'
  <2>1. messages_to_send' \in Seq(Replies)
    BY <1>2 DEF Queue
  <2> QED
    BY <1>2, <2>1 DEF Queue
<1>3. CASE EndThread
  BY <1>3 DEF EndThread
<1>4. CASE StartRound
  BY <1>4 DEF StartRound
<1>5. CASE Swap
  BY <1>5 DEF Swap
<1>6. CASE Lock
  BY <1>6 DEF Lock
<1>7. ASSUME NEW writable \in BOOLEAN, Poll(writable) PROVE TypeInv'
  <2>1. revents' \in [in : BOOLEAN, out : BOOLEAN]
    BY <1>7 DEF Poll
  <2> QED
    BY <1>7, <2>1 DEF Poll
<1>8. CASE PollThrows
  BY <1>8 DEF PollThrows
<1>9. CASE Receive
  BY <1>9 DEF Receive
<1>10. CASE PollAgain
  <2>1. revents' \in [in : BOOLEAN, out : BOOLEAN] /\ (revents'.in => inbox > 0)
    <3>1. CASE inbox > 0
      <4>1. (inbox > 0) = TRUE
        BY <3>1
      <4> QED
        BY <1>10, <3>1, <4>1 DEF PollAgain
    <3>2. CASE ~(inbox > 0)
      <4>1. (inbox > 0) = FALSE
        BY <3>2
      <4> QED
        BY <1>10, <3>2, <4>1 DEF PollAgain
    <3> QED
      BY <3>1, <3>2
  <2>2. ReceivableInv'
    BY <1>10, <2>1 DEF PollAgain
  <2>3. /\ sock_mtx' = Thread /\ at' = "receive"
        /\ UNCHANGED <<polls_in,
            pauseVars, inbox, caught, sendVars, userVars, closing>>
    BY <1>10 DEF PollAgain
  <2> QED
    BY <2>1, <2>2, <2>3
<1>11. CASE ReceiveThrows
  BY <1>11 DEF ReceiveThrows, Thread
<1>12. CASE ReceiveUnlocked
  BY <1>12 DEF ReceiveUnlocked, Unlocked
<1>13. CASE Received
  <2>1. caught' \in BOOLEAN
    BY <1>13 DEF Received
  <2>2. at' \in {"send", "loop"} /\ i' = 1 /\ sock_mtx' = None
    BY <1>13 DEF Received
  <2>3. UNCHANGED <<polls_in, pauseVars, inbox, revents, messages_to_send,
                    local_messages, flag, returned, wire, open, threw, userVars,
                    closing>>
    BY <1>13 DEF Received
  <2> HIDE DEF Received
  <2> QED
    BY <2>1, <2>2, <2>3
<1>14. ASSUME NEW m \in Replies, Send(m) PROVE TypeInv'
  <2>1. Append(open, m) \in Seq(Replies) /\ <<>> \in Seq(Replies)
    OBVIOUS
  <2>2. i' \in Nat \ {0}
    BY <1>14 DEF Send
  <2>3. wire' \subseteq Seq(Replies) /\ open' \in Seq(Replies)
    BY <1>14, <2>1 DEF Send
  <2>4. flag' \in [Replies -> {"unset", "sent", "error"}]
    BY <1>14 DEF Send
  <2> QED
    BY <1>14, <2>2, <2>3, <2>4 DEF Send
<1>15. ASSUME NEW m \in Replies, SendFails(m) PROVE TypeInv'
  BY <1>15 DEF SendFails
<1>16. ASSUME NEW m \in Replies, NEW parts \in 0..Parts[m], SendThrows(m, parts)
       PROVE  TypeInv'
  <2>1. open' \in Seq(Replies)
    BY <1>16 DEF SendThrows
  <2>2. i' \in Nat \ {0}
    BY <1>16 DEF SendThrows
  <2> QED
    BY <1>16, <2>1, <2>2 DEF SendThrows
<1>17. CASE ReturnAll
  <2>1. Elements(local_messages) \subseteq Replies
    BY DEF Elements
  <2>2. returned' \subseteq Replies
    BY <1>17, <2>1 DEF ReturnAll
  <2>3. /\ at' = "loop" /\ threw' = FALSE /\ local_messages' = <<>>
        /\ UNCHANGED <<polls_in, pauseVars, sock_mtx, inbox, pollVars,
                       messages_to_send, i, flag, wire, open, userVars, closing>>
    BY <1>17 DEF ReturnAll
  <2>4. threw' \in BOOLEAN
    BY <2>3
  <2>5. local_messages' \in Seq(Replies)
    BY <2>3
  <2> QED
    BY <2>2, <2>3, <2>4, <2>5
<1>18. ASSUME NEW u \in Users, Update(u) \/ ResetConnections(u) PROVE TypeInv'
  <2>1. user' \in [Users -> {"idle", "update", "connect", "reset"}]
    BY <1>18, ZenonT(40) DEF Update, ResetConnections, Call
  <2>2. calls' \in 0..MaxCalls
    BY <1>18 DEF Update, ResetConnections, Call
  <2> QED
    BY <1>18, <2>1, <2>2 DEF Update, ResetConnections, Call
<1>19. ASSUME NEW u \in Users, NEW listed \in SUBSET Endpoints, UpdateLocked(u, listed)
       PROVE  TypeInv'
  BY <1>19 DEF UpdateLocked
<1>20. ASSUME NEW u \in Users, NEW e \in Endpoints, Look(u, e) PROVE TypeInv'
  BY <1>20 DEF Look
<1>21. ASSUME NEW u \in Users, Connect(u) PROVE TypeInv'
  <2>1. next[u] \in Endpoints
    BY <1>21 DEF Connect
  <2> QED
    BY <1>21, <2>1 DEF Connect
<1>22. ASSUME NEW u \in Users, UpdateReturn(u) PROVE TypeInv'
  BY <1>22 DEF UpdateReturn, Thread
<1>23. ASSUME NEW u \in Users, Reset(u) PROVE TypeInv'
  <2>1. user' \in [Users -> {"idle", "update", "connect", "reset"}]
    BY <1>23 DEF Reset
  <2>2. resets' \in Nat
    BY <1>23 DEF Reset
  <2> QED
    BY <1>23, <2>1, <2>2, ZenonT(40) DEF Reset
<1>28. ASSUME NEW u \in Users, UpdateThrows(u) PROVE TypeInv'
  <2>1. connections' \subseteq Endpoints
    BY <1>28 DEF UpdateThrows
  <2>2. user' \in [Users -> {"idle", "update", "connect", "reset"}]
    BY <1>28 DEF UpdateThrows
  <2> QED
    BY <1>28, <2>1, <2>2 DEF UpdateThrows, Thread
<1>24. CASE Close
  BY <1>24 DEF Close
<1>25. CASE Kill
  BY <1>25 DEF Kill
<1>26. CASE Joined
  BY <1>26 DEF Joined
<1>27. CASE UNCHANGED vars
  BY <1>27 DEF vars
<1> QED
  BY <1>1, <1>2, <1>3, <1>4, <1>5, <1>6, <1>7, <1>8, <1>9, <1>10, <1>11, <1>12,
     <1>13, <1>14, <1>15, <1>16, <1>17, <1>18, <1>19, <1>20, <1>21, <1>22, <1>23,
     <1>24, <1>25, <1>26, <1>27, <1>28, NextUnfolds

(* Every variable has its type in every state: TypeOK of the runs, for any *)
(* messages and users (SocketManager).                                     *)
THEOREM TypeCorrect == Spec => []TypeOK
<1>1. TypeInv => TypeOK
  BY DEF TypeInv
<1> QED
  BY TypeInvInit, TypeInvStep, <1>1, PTL DEF Spec

----------------------------------------------------------------------------
(* The lock.  The loop that caught an exception has found something to     *)
(* receive, does not look again, and never takes the lock again.           *)

LockInv == SocketUsedAlone /\ (caught => revents.in /\ sock_mtx # Thread)

LEMMA LockInvInit == Init => LockInv
BY UsersOK DEF Init, LockInv, SocketUsedAlone, Thread

LEMMA LockInvRound == TypeInv /\ LockInv /\ Round => LockInv'
<1> SUFFICES ASSUME TypeInv, LockInv, Round PROVE LockInv'
  OBVIOUS
<1> USE UsersOK DEF TypeInv, TypeOK, LockInv, SocketUsedAlone,
    pauseVars, pollVars, roundVars, userVars
<1>1. CASE EndThread \/ StartRound \/ Swap \/ Lock
  BY <1>1 DEF EndThread, StartRound, Swap, Lock
<1>2. ASSUME NEW writable \in BOOLEAN, Poll(writable) PROVE LockInv'
  BY <1>2 DEF Poll
<1>3. CASE PollThrows \/ Receive \/ PollAgain
  BY <1>3 DEF PollThrows, Receive, PollAgain
<1>4. CASE ReceiveThrows
  BY <1>4 DEF ReceiveThrows
<1>5. CASE ReceiveUnlocked
  BY <1>5 DEF ReceiveUnlocked
<1>6. CASE Received
  BY <1>6 DEF Received
<1>7. ASSUME NEW m \in Replies, SendStep(m) PROVE LockInv'
  BY <1>7 DEF SendStep, Send, SendFails, SendThrows
<1>8. CASE ReturnAll
  BY <1>8 DEF ReturnAll
<1> QED
  BY <1>1, <1>2, <1>3, <1>4, <1>5, <1>6, <1>7, <1>8 DEF Round

LEMMA LockInvUsers ==
  ASSUME TypeInv, LockInv, NEW u \in Users,
         Update(u) \/ ResetConnections(u) \/ UserStep(u) \/ UpdateThrows(u)
  PROVE  LockInv'
<1> USE UsersOK DEF TypeInv, TypeOK, LockInv, SocketUsedAlone,
    pauseVars, pollVars, roundVars, userVars
<1>1. CASE Update(u) \/ ResetConnections(u)
  BY <1>1 DEF Update, ResetConnections, Call
<1>2. ASSUME NEW listed \in SUBSET Endpoints, UpdateLocked(u, listed)
      PROVE  LockInv'
  BY <1>2 DEF UpdateLocked
<1>3. ASSUME NEW e \in Endpoints, Look(u, e) PROVE LockInv'
  BY <1>3 DEF Look
<1>4. CASE Connect(u)
  BY <1>4 DEF Connect
<1>5. CASE UpdateReturn(u)
  BY <1>5 DEF UpdateReturn
<1>6. CASE Reset(u)
  BY <1>6 DEF Reset
<1>7. CASE UpdateThrows(u)
  BY <1>7 DEF UpdateThrows
<1> QED
  BY <1>1, <1>2, <1>3, <1>4, <1>5, <1>6, <1>7 DEF UserStep, Listing

LEMMA LockInvStep == TypeInv /\ LockInv /\ [Next]_vars => LockInv'
<1> SUFFICES ASSUME TypeInv, LockInv, [Next]_vars PROVE LockInv'
  OBVIOUS
<1> USE DEF LockInv, SocketUsedAlone, pauseVars, pollVars, roundVars, userVars
<1>1. CASE Arrive \/ Close \/ Kill \/ Joined
  BY <1>1 DEF Arrive, Close, Kill, Joined
<1>2. ASSUME NEW m \in Replies, Queue(m) PROVE LockInv'
  BY <1>2 DEF Queue
<1>3. CASE UNCHANGED vars
  BY <1>3 DEF vars
<1> QED
  BY <1>1, <1>2, <1>3, LockInvRound, LockInvUsers DEF Next

(* The thread and the users use the socket one at a time, but for a loop   *)
(* that has caught an exception: SocketUsedAlone of the runs, for any      *)
(* number of users (SocketManager).                                        *)
THEOREM SocketIsUsedAlone == Spec => []SocketUsedAlone
<1>1. LockInv => SocketUsedAlone
  BY DEF LockInv
<1> QED
  BY TypeInvInit, TypeInvStep, LockInvInit, LockInvStep, <1>1, PTL DEF Spec

----------------------------------------------------------------------------
(* The connections.  Only the user with the lock has an endpoint it is     *)
(* about to connect to, and that is not in the table; nobody resets the    *)
(* table meanwhile, and after Close nobody connects.                       *)

ConnInv ==
  /\ \A e \in Endpoints :
       /\ connects[e] <= resets + 1
       /\ closing # "closed" /\ e \notin connections => connects[e] <= resets
  /\ \A u \in Users :
       /\ next[u] # None => user[u] = "connect" /\ next[u] \notin connections
       /\ closing # "no" => user[u] = "idle"

LEMMA ConnInvInit == Init => ConnInv
BY DEF Init, ConnInv

LEMMA ConnectsUnchanged ==
  ASSUME Next
  PROVE  \/ UNCHANGED <<connects, resets, connections, next, user, closing>>
         \/ \E u \in Users :
              Update(u) \/ ResetConnections(u) \/ UserStep(u) \/ UpdateThrows(u)
         \/ Close \/ Kill \/ Joined
<1> USE DEF sendVars, userVars
<1>1. CASE Arrive
  BY <1>1 DEF Arrive
<1>2. ASSUME NEW m \in Replies, Queue(m)
      PROVE  UNCHANGED <<connects, resets, connections, next, user, closing>>
  BY <1>2 DEF Queue
<1>3. CASE Round
  BY <1>3 DEF Round, EndThread, StartRound, Swap, Lock, Poll, PollThrows, Receive,
              PollAgain, ReceiveThrows, ReceiveUnlocked, Received, SendStep, Send,
              SendFails, SendThrows, ReturnAll
<1> QED
  BY <1>1, <1>2, <1>3 DEF Next

LEMMA ConnInvUsers ==
  ASSUME TypeInv, LockInv, ConnInv, NEW u \in Users,
         Update(u) \/ ResetConnections(u) \/ UserStep(u) \/ UpdateThrows(u)
  PROVE  ConnInv'
<1> USE UsersOK, EndpointsOK
    DEF TypeInv, TypeOK, LockInv, SocketUsedAlone, ConnInv,
        pauseVars, pollVars, roundVars, userVars
<1>1. CASE Update(u) \/ ResetConnections(u)
  BY <1>1 DEF Update, ResetConnections, Call
<1>2. ASSUME NEW listed \in SUBSET Endpoints, UpdateLocked(u, listed)
      PROVE  ConnInv'
  BY <1>2 DEF UpdateLocked
<1>3. ASSUME NEW e \in Endpoints, Look(u, e) PROVE ConnInv'
  BY <1>3 DEF Look
<1>4. CASE Connect(u)
  <2>1. \A v \in Users \ {u} : next[v] = None
    BY <1>4 DEF Connect
  <2>2. next[u] \in Endpoints /\ next[u] \notin connections /\ closing = "no"
    BY <1>4 DEF Connect
  <2>3. connects[next[u]] <= resets
    BY <2>2
  <2> QED
    BY <1>4, <2>1, <2>2, <2>3 DEF Connect
<1>5. CASE UpdateReturn(u)
  BY <1>5 DEF UpdateReturn
<1>6. CASE Reset(u)
  <2>1. \A v \in Users : next[v] = None
    BY <1>6 DEF Reset
  <2>2. resets' = resets + 1 /\ connections' = {} /\ connects' = connects
    BY <1>6 DEF Reset
  <2>3. \A e \in Endpoints : connects[e] \in Nat /\ connects[e] <= resets + 1
    OBVIOUS
  <2> QED
    BY <1>6, <2>1, <2>2, <2>3 DEF Reset
<1>7. CASE UpdateThrows(u)
  <2>1. \A v \in Users \ {u} : next[v] = None
    BY <1>7 DEF UpdateThrows
  <2>2. closing = "no" /\ connections \subseteq connections'
    BY <1>7 DEF UpdateThrows
  <2> QED
    BY <1>7, <2>1, <2>2 DEF UpdateThrows
<1> QED
  BY <1>1, <1>2, <1>3, <1>4, <1>5, <1>6, <1>7 DEF UserStep, Listing

LEMMA ConnInvStep == TypeInv /\ LockInv /\ ConnInv /\ [Next]_vars => ConnInv'
<1> SUFFICES ASSUME TypeInv, LockInv, ConnInv, [Next]_vars PROVE ConnInv'
  OBVIOUS
<1>1. CASE UNCHANGED <<connects, resets, connections, next, user, closing>>
  BY <1>1 DEF ConnInv
<1>2. CASE Close \/ Kill \/ Joined
  BY <1>2 DEF Close, Kill, Joined, ConnInv, userVars
<1>3. CASE UNCHANGED vars
  BY <1>3 DEF vars, ConnInv, userVars
<1> QED
  BY <1>1, <1>2, <1>3, ConnInvUsers, ConnectsUnchanged

(* The socket is not connected twice to an endpoint without a reset of the *)
(* table: ConnectedOnce of the runs, for any users and endpoints           *)
(* (SocketManager).                                                        *)
THEOREM EndpointsConnectedOnce == Spec => []ConnectedOnce
<1>1. ConnInv => ConnectedOnce
  BY DEF ConnInv, ConnectedOnce
<1> QED
  BY TypeInvInit, TypeInvStep, LockInvInit, LockInvStep, ConnInvInit, ConnInvStep,
     <1>1, PTL DEF Spec

----------------------------------------------------------------------------
(* The messages.  Only three steps move them.                              *)

LEMMA MessagesUnmoved ==
  ASSUME [Next]_vars
  PROVE  \/ UNCHANGED <<messages_to_send, local_messages, returned>>
         \/ \E m \in Replies : Queue(m)
         \/ Swap
         \/ ReturnAll
<1> USE DEF sendVars
<1>1. CASE Arrive \/ Close \/ Kill \/ Joined \/ UNCHANGED vars
  BY <1>1 DEF Arrive, Close, Kill, Joined, vars
<1>2. CASE Round
  BY <1>2 DEF Round, EndThread, StartRound, Lock, Poll, PollThrows, Receive,
              PollAgain, ReceiveThrows, ReceiveUnlocked, Received, SendStep, Send,
              SendFails, SendThrows
<1>3. ASSUME NEW u \in Users,
             Update(u) \/ ResetConnections(u) \/ UserStep(u) \/ UpdateThrows(u)
      PROVE  UNCHANGED <<messages_to_send, local_messages, returned>>
  BY <1>3 DEF Update, ResetConnections, Call, UserStep, Listing, UpdateLocked, Look,
              Connect, UpdateReturn, Reset, UpdateThrows
<1> QED
  BY <1>1, <1>2, <1>3 DEF Next

(* A sequence with one more element has those it had and this one.         *)
LEMMA AppendElements ==
  ASSUME NEW S, NEW seq \in Seq(S), NEW m \in S
  PROVE  /\ Append(seq, m) \in Seq(S)
         /\ DOMAIN Append(seq, m) = DOMAIN seq \cup {Len(seq) + 1}
         /\ \A k \in DOMAIN seq : Append(seq, m)[k] = seq[k]
         /\ Append(seq, m)[Len(seq) + 1] = m
         /\ Elements(Append(seq, m)) = Elements(seq) \cup {m}
<1>1. /\ Append(seq, m) \in Seq(S)
      /\ DOMAIN Append(seq, m) = DOMAIN seq \cup {Len(seq) + 1}
      /\ \A k \in DOMAIN seq : Append(seq, m)[k] = seq[k]
      /\ Append(seq, m)[Len(seq) + 1] = m
  OBVIOUS
<1> QED
  BY <1>1 DEF Elements

LEMMA HandedBackInit == Init => HandedBackOnce
BY DEF Init, HandedBackOnce, Elements

LEMMA HandedBackStep == TypeInv /\ HandedBackOnce /\ [Next]_vars => HandedBackOnce'
<1> SUFFICES ASSUME TypeInv, HandedBackOnce, [Next]_vars PROVE HandedBackOnce'
  OBVIOUS
<1> USE DEF HandedBackOnce
<1>1. CASE UNCHANGED <<messages_to_send, local_messages, returned>>
  BY <1>1 DEF Elements
<1>2. ASSUME NEW m \in Replies, Queue(m) PROVE HandedBackOnce'
  <2>1. /\ messages_to_send' = Append(messages_to_send, m)
        /\ UNCHANGED <<local_messages, returned>>
        /\ m \notin Elements(messages_to_send)
        /\ m \notin Elements(local_messages)
        /\ m \notin returned
    BY <1>2 DEF Queue, Queued
  <2>2. Elements(messages_to_send') = Elements(messages_to_send) \cup {m}
    BY <2>1, AppendElements DEF TypeInv, TypeOK
  <2>3. Elements(local_messages') = Elements(local_messages)
    BY <2>1
  <2>4. \A k \in DOMAIN messages_to_send : messages_to_send[k] # m
    BY <2>1 DEF Elements
  <2>5. ASSUME NEW j \in DOMAIN messages_to_send', NEW k \in DOMAIN messages_to_send',
               messages_to_send'[j] = messages_to_send'[k]
        PROVE  j = k
    BY <2>1, <2>4, <2>5, AppendElements DEF TypeInv, TypeOK
  <2> QED
    BY <2>1, <2>2, <2>3, <2>5
<1>3. CASE Swap
  <2>1. messages_to_send' = local_messages /\ local_messages' = messages_to_send
        /\ returned' = returned
    BY <1>3 DEF Swap
  <2> QED
    BY <2>1
<1>4. CASE ReturnAll
  <2>1. /\ local_messages' = <<>> /\ messages_to_send' = messages_to_send
        /\ returned' = returned \cup Elements(local_messages)
    BY <1>4 DEF ReturnAll
  <2>2. Elements(local_messages') = {}
    BY <2>1 DEF Elements
  <2> QED
    BY <2>1, <2>2
<1> QED
  BY <1>1, <1>2, <1>3, <1>4, MessagesUnmoved

(* Every message is in one place: HandedBackOnce of the runs, for any      *)
(* number of messages (SocketManager).                                     *)
THEOREM MessagesHandedBackOnce == Spec => []HandedBackOnce
BY TypeInvInit, TypeInvStep, HandedBackInit, HandedBackStep, PTL DEF Spec

----------------------------------------------------------------------------
(* The flags.  A message that is flagged is back in the pool, or has been  *)
(* gone through in this round.                                             *)

GoneThrough(m) == at = "send" /\ \E k \in DOMAIN local_messages : k < i /\ local_messages[k] = m

FlaggedInv == \A m \in Replies : flag[m] # "unset" => m \in returned \/ GoneThrough(m)

FlagInv == FlaggedInv /\ FlagsTruthful

LEMMA FlagInvInit == Init => FlagInv
BY DEF Init, FlagInv, FlaggedInv, FlagsTruthful

(* The message that is sent next has not been flagged.                     *)
LEMMA NextIsUnflagged ==
  ASSUME TypeInv, HandedBackOnce, FlaggedInv, NEW m \in Replies, Sending,
         m = local_messages[i]
  PROVE  flag[m] = "unset" /\ m \notin returned
<1>1. i \in DOMAIN local_messages
  BY DEF TypeInv, TypeOK, Sending
<1>2. m \in Elements(local_messages)
  BY <1>1 DEF Elements
<1>3. m \notin returned
  BY <1>2 DEF HandedBackOnce
<1>4. ~GoneThrough(m)
  <2> SUFFICES ASSUME NEW k \in DOMAIN local_messages, k < i, local_messages[k] = m
               PROVE  FALSE
    BY DEF GoneThrough
  <2>1. k = i
    BY <1>1 DEF HandedBackOnce
  <2> QED
    BY <2>1 DEF TypeInv, TypeOK
<1> QED
  BY <1>3, <1>4 DEF FlaggedInv

LEMMA FlagsUnchanged ==
  ASSUME [Next]_vars
  PROVE  \/ UNCHANGED <<flag, wire, open>>
         \/ \E m \in Replies : SendStep(m)
<1> USE DEF sendVars
<1>1. CASE Arrive \/ Close \/ Kill \/ Joined \/ UNCHANGED vars
  BY <1>1 DEF Arrive, Close, Kill, Joined, vars
<1>2. CASE Round
  BY <1>2 DEF Round, EndThread, StartRound, Swap, Lock, Poll, PollThrows, Receive,
              PollAgain, ReceiveThrows, ReceiveUnlocked, Received, ReturnAll
<1>3. ASSUME NEW u \in Users,
             Update(u) \/ ResetConnections(u) \/ UserStep(u) \/ UpdateThrows(u)
      PROVE  UNCHANGED <<flag, wire, open>>
  BY <1>3 DEF Update, ResetConnections, Call, UserStep, Listing, UpdateLocked, Look,
              Connect, UpdateReturn, Reset, UpdateThrows
<1>4. ASSUME NEW m \in Replies, Queue(m) PROVE UNCHANGED <<flag, wire, open>>
  BY <1>4 DEF Queue
<1> QED
  BY <1>1, <1>2, <1>3, <1>4 DEF Next

LEMMA FlaggedStep ==
  TypeInv /\ HandedBackOnce /\ FlaggedInv /\ [Next]_vars => FlaggedInv'
<1> SUFFICES ASSUME TypeInv, HandedBackOnce, FlaggedInv, [Next]_vars,
                    NEW m \in Replies, flag'[m] # "unset"
             PROVE  m \in returned' \/ GoneThrough(m)'
  BY DEF FlaggedInv
<1>1. CASE \E n \in Replies : SendStep(n)
  <2> PICK n \in Replies : SendStep(n)
    BY <1>1
  <2>1. /\ at = "send" /\ at' = "send" /\ returned' = returned
        /\ local_messages' = local_messages
        /\ i <= Len(local_messages) /\ i' > i
        /\ n = local_messages[i]
        /\ flag'[m] # flag[m] => m = n
    BY DEF SendStep, Send, SendFails, SendThrows, Sending,
        pauseVars, pollVars, roundVars, TypeInv, TypeOK
  <2>2. i \in DOMAIN local_messages
    BY <2>1 DEF TypeInv, TypeOK
  <2>3. CASE m = n
    BY <2>1, <2>2, <2>3 DEF GoneThrough
  <2>4. CASE m # n
    <3>1. i \in Nat /\ i' \in Nat
      BY TypeInvStep DEF TypeInv, TypeOK
    <3> QED
      BY <2>1, <2>4, <3>1 DEF GoneThrough, FlaggedInv, TypeInv, TypeOK
  <2> QED
    BY <2>3, <2>4
<1>2. CASE UNCHANGED <<flag, wire, open>>
  <2>1. CASE m \in returned
    <3>1. returned \subseteq returned'
      BY MessagesUnmoved DEF Queue, Swap, ReturnAll
    <3> QED
      BY <2>1, <3>1
  <2>2. CASE GoneThrough(m) /\ ReturnAll
    BY <2>2 DEF GoneThrough, ReturnAll, Elements
  <2>3. CASE GoneThrough(m) /\ ~ReturnAll
    <3>1. UNCHANGED <<at, local_messages>> /\ (i' = i \/ \E n \in Replies : SendStep(n))
      <4> USE DEF pauseVars, pollVars, roundVars, sendVars
      <4>1. CASE Arrive \/ Close \/ Kill \/ Joined \/ UNCHANGED vars
        BY <4>1 DEF Arrive, Close, Kill, Joined, vars
      <4>2. CASE Round
        BY <2>3, <4>2
        DEF GoneThrough, Round, EndThread, StartRound, Swap, Lock, Poll, PollThrows,
            Receive, PollAgain, ReceiveThrows, ReceiveUnlocked, Unlocked, Received,
            SendStep, Send, SendFails, SendThrows
      <4>3. ASSUME NEW u \in Users,
                   Update(u) \/ ResetConnections(u) \/ UserStep(u) \/ UpdateThrows(u)
            PROVE  UNCHANGED <<at, local_messages, i>>
        BY <4>3 DEF Update, ResetConnections, Call, UserStep, Listing, UpdateLocked,
                    Look, Connect, UpdateReturn, Reset, UpdateThrows
      <4>4. ASSUME NEW n \in Replies, Queue(n) PROVE UNCHANGED <<at, local_messages, i>>
        BY <4>4 DEF Queue
      <4> QED
        BY <4>1, <4>2, <4>3, <4>4 DEF Next
    <3>2. CASE i' = i
      BY <2>3, <3>1, <3>2 DEF GoneThrough
    <3> QED
      BY <3>1, <3>2, <1>1
  <2>4. m \in returned \/ GoneThrough(m)
    BY <1>2 DEF FlaggedInv
  <2> QED
    BY <2>1, <2>2, <2>3, <2>4
<1> QED
  BY <1>1, <1>2, FlagsUnchanged

LEMMA TruthfulStep ==
  TypeInv /\ HandedBackOnce /\ FlagInv /\ [Next]_vars => FlagsTruthful'
<1> SUFFICES ASSUME TypeInv, HandedBackOnce, FlagInv, [Next]_vars
             PROVE  FlagsTruthful'
  OBVIOUS
<1> USE DEF FlagInv
<1>1. CASE UNCHANGED <<flag, wire, open>>
  BY <1>1 DEF FlagsTruthful
<1>2. ASSUME NEW m \in Replies, Send(m) PROVE FlagsTruthful'
  <2>1. flag[m] = "unset"
    BY <1>2, NextIsUnflagged DEF Send
  <2>2. /\ wire' = wire \cup {Append(open, m)} /\ open' = <<>>
        /\ flag' = [flag EXCEPT ![m] = "sent"]
    BY <1>2 DEF Send
  <2> DEFINE new == Append(open, m)
  <2>3. /\ Len(new) = Len(open) + 1 /\ new # <<>> /\ new[Len(new)] = m
        /\ \A k \in 1..Len(open) : new[k] = open[k] /\ k \in DOMAIN open
    <3>1. open \in Seq(Replies)
      BY DEF TypeInv, TypeOK
    <3>2. Len(new) = Len(open) + 1 /\ Len(open) \in Nat
      BY <3>1
    <3>3. new # <<>>
      BY <3>2
    <3>4. DOMAIN open = 1..Len(open)
      BY <3>1
    <3> QED
      BY <3>1, <3>2, <3>3, <3>4, AppendElements
  <2>4. /\ flag'[m] = "sent"
        /\ \A n \in Replies \ {m} : flag'[n] = flag[n]
    BY <2>2 DEF TypeInv, TypeOK
  <2>5. ASSUME NEW k \in DOMAIN open PROVE flag'[open[k]] = "error"
    <3>1. flag[open[k]] = "error"
      BY DEF FlagsTruthful
    <3>2. open[k] \in Replies
      BY DEF TypeInv, TypeOK
    <3> QED
      BY <3>1, <3>2, <2>1, <2>4
  <2>6. \A w \in wire : w # <<>> /\ w \in Seq(Replies)
    BY DEF FlagsTruthful, TypeInv, TypeOK
  <2>7. ASSUME NEW w \in wire', NEW k \in 1..(Len(w) - 1) PROVE flag'[w[k]] = "error"
    <3>1. CASE w \in wire
      <4>1. flag[w[k]] = "error" /\ w[k] \in Replies
        BY <3>1, <2>6 DEF FlagsTruthful
      <4> QED
        BY <4>1, <2>1, <2>4
    <3>2. CASE w = new
      <4> HIDE DEF new
      <4>1. k \in 1..Len(open)
        BY <3>2, <2>3 DEF TypeInv, TypeOK
      <4> QED
        BY <3>2, <4>1, <2>3, <2>5
    <3> QED
      BY <3>1, <3>2, <2>2
  <2>8. ASSUME NEW n \in Replies
        PROVE  flag'[n] = "sent" <=> \E w \in wire' : w # <<>> /\ w[Len(w)] = n
    <3> HIDE DEF new
    <3>1. CASE n = m
      BY <3>1, <2>2, <2>3, <2>4 DEF new
    <3>2. CASE n # m
      <4>1. wire' = wire \cup {new}
        BY <2>2 DEF new
      <4>2. flag[n] = "sent" <=> \E w \in wire : w # <<>> /\ w[Len(w)] = n
        BY DEF FlagsTruthful
      <4> QED
        BY <3>2, <4>1, <4>2, <2>3, <2>4
    <3> QED
      BY <3>1, <3>2
  <2>9. \A w \in wire' : w # <<>>
    BY <2>2, <2>3, <2>6
  <2>10. \A k \in DOMAIN open' : flag'[open'[k]] = "error"
    BY <2>2
  <2> QED
    BY <2>7, <2>8, <2>9, <2>10 DEF FlagsTruthful
<1>3. ASSUME NEW m \in Replies,
             SendFails(m) \/ \E parts \in 0..Parts[m] : SendThrows(m, parts)
      PROVE  FlagsTruthful'
  <2>1. flag[m] = "unset"
    BY <1>3, NextIsUnflagged DEF SendFails, SendThrows
  <2>2. /\ wire' = wire /\ flag' = [flag EXCEPT ![m] = "error"]
        /\ open' = open \/ open' = Append(open, m)
    BY <1>3 DEF SendFails, SendThrows
  <2>3. /\ flag'[m] = "error"
        /\ \A n \in Replies \ {m} : flag'[n] = flag[n]
    BY <2>2 DEF TypeInv, TypeOK
  <2>4. \A w \in wire : w # <<>> /\ w \in Seq(Replies)
    BY DEF FlagsTruthful, TypeInv, TypeOK
  <2>5. ASSUME NEW w \in wire', NEW k \in 1..(Len(w) - 1) PROVE flag'[w[k]] = "error"
    <3>1. flag[w[k]] = "error" /\ w[k] \in Replies
      BY <2>2, <2>4 DEF FlagsTruthful
    <3> QED
      BY <3>1, <2>1, <2>3
  <2>6. ASSUME NEW n \in Replies
        PROVE  flag'[n] = "sent" <=> \E w \in wire' : w # <<>> /\ w[Len(w)] = n
    <3>1. flag[n] = "sent" <=> \E w \in wire : w # <<>> /\ w[Len(w)] = n
      BY DEF FlagsTruthful
    <3> QED
      BY <3>1, <2>1, <2>2, <2>3
  <2>7. \A k \in DOMAIN open' : flag'[open'[k]] = "error"
    <3>1. ASSUME NEW k \in DOMAIN open PROVE flag'[open[k]] = "error"
      <4>1. flag[open[k]] = "error"
        BY DEF FlagsTruthful
      <4>2. open[k] \in Replies
        BY DEF TypeInv, TypeOK
      <4> QED
        BY <4>1, <4>2, <2>1, <2>3
    <3>2. /\ DOMAIN Append(open, m) = DOMAIN open \cup {Len(open) + 1}
          /\ \A k \in DOMAIN open : Append(open, m)[k] = open[k]
          /\ Append(open, m)[Len(open) + 1] = m
      BY AppendElements DEF TypeInv, TypeOK
    <3> QED
      BY <3>1, <3>2, <2>2, <2>3
  <2> QED
    BY <2>2, <2>4, <2>5, <2>6, <2>7 DEF FlagsTruthful
<1> QED
  BY <1>1, <1>2, <1>3, FlagsUnchanged DEF SendStep

(* A message is flagged as sent if and only if it is on the wire, after    *)
(* messages flagged as failed at most: FlagsTruthful of the runs, for any  *)
(* messages of any number of parts (SocketManager).                        *)
THEOREM FlagsAreTruthful == Spec => []FlagsTruthful
<1>1. TypeInv /\ HandedBackOnce /\ FlagInv /\ [Next]_vars => FlagInv'
  BY FlaggedStep, TruthfulStep DEF FlagInv
<1>2. FlagInv => FlagsTruthful
  BY DEF FlagInv
<1> QED
  BY TypeInvInit, TypeInvStep, HandedBackInit, HandedBackStep, FlagInvInit, <1>1, <1>2,
     PTL DEF Spec

----------------------------------------------------------------------------
(* The manager implements Outbox.  While a batch is sent, the messages     *)
(* that have been gone through have their flags, unless an exception has   *)
(* sent the thread past the rest of it.                                    *)

BatchInv ==
  /\ threw => at = "send" /\ i > Len(local_messages)
  /\ at = "send" /\ ~threw =>
       \A k \in DOMAIN local_messages :
         k < i => flag[local_messages[k]] # "unset"

LEMMA BatchInvStep ==
  TypeInv /\ HandedBackOnce /\ FlagInv /\ BatchInv /\ [Next]_vars => BatchInv'
<1> SUFFICES ASSUME TypeInv, HandedBackOnce, FlagInv, BatchInv, [Next]_vars
             PROVE  BatchInv'
  OBVIOUS
<1>1. ASSUME NEW m \in Replies, SendStep(m) PROVE BatchInv'
  <2>1. /\ at = "send" /\ at' = at /\ local_messages' = local_messages
        /\ Sending /\ m = local_messages[i]
    BY <1>1 DEF SendStep, Send, SendFails, SendThrows, Sending,
        pauseVars, pollVars, roundVars
  <2>2. ~threw
    BY <2>1 DEF BatchInv, Sending, TypeInv, TypeOK
  <2>3. CASE Send(m) \/ SendFails(m)
    <3>1. /\ i' = i + 1 /\ threw' = threw
          /\ flag'[m] # "unset"
          /\ \A n \in Replies \ {m} : flag'[n] = flag[n]
      BY <2>3 DEF Send, SendFails, TypeInv, TypeOK
    <3>2. ASSUME NEW k \in DOMAIN local_messages, k < i'
          PROVE  flag'[local_messages[k]] # "unset"
      <4>1. k < i \/ k = i
        BY <3>1, <3>2 DEF TypeInv, TypeOK
      <4>2. local_messages[k] \in Replies
        BY DEF TypeInv, TypeOK
      <4>3. k < i => flag[local_messages[k]] # "unset"
        BY <2>1, <2>2 DEF BatchInv
      <4> QED
        BY <2>1, <3>1, <4>1, <4>2, <4>3
    <3> QED
      BY <2>1, <2>2, <3>1, <3>2 DEF BatchInv
  <2>4. CASE \E parts \in 0..Parts[m] : SendThrows(m, parts)
    <3>1. i' = Len(local_messages) + 1 /\ threw' = TRUE
      BY <2>4 DEF SendThrows
    <3>2. Len(local_messages) \in Nat
      BY DEF TypeInv, TypeOK
    <3> QED
      BY <2>1, <3>1, <3>2 DEF BatchInv
  <2> QED
    BY <1>1, <2>3, <2>4 DEF SendStep
<1>2. CASE ReturnAll
  BY <1>2 DEF ReturnAll, BatchInv
<1>3. CASE Received
  <2>1. /\ at # "send" /\ i' = 1 /\ threw' = threw
        /\ local_messages' = local_messages
    BY <1>3 DEF Received
  <2>2. \A k \in DOMAIN local_messages : ~(k < 1)
    BY DEF TypeInv, TypeOK
  <2> QED
    BY <2>1, <2>2 DEF BatchInv
<1>4. CASE /\ UNCHANGED <<flag, threw, i>>
           /\ at # "send" /\ at' # "send"
  BY <1>4 DEF BatchInv
<1>5. CASE UNCHANGED <<flag, threw, i, at, local_messages>>
  BY <1>5 DEF BatchInv
<1>6. CASE Round
  BY <1>1, <1>2, <1>3, <1>4, <1>6
  DEF Round, EndThread, StartRound, Swap, Lock, Poll, PollThrows, Receive,
      PollAgain, ReceiveThrows, ReceiveUnlocked, Unlocked, sendVars
<1>7. CASE Arrive \/ Close \/ Kill \/ Joined \/ UNCHANGED vars
  BY <1>5, <1>7 DEF Arrive, Close, Kill, Joined, vars, sendVars,
      pauseVars, pollVars, roundVars
<1>8. ASSUME NEW m \in Replies, Queue(m) PROVE BatchInv'
  BY <1>5, <1>8 DEF Queue, pauseVars, pollVars, roundVars
<1>9. ASSUME NEW u \in Users,
             Update(u) \/ ResetConnections(u) \/ UserStep(u) \/ UpdateThrows(u)
      PROVE  BatchInv'
  BY <1>5, <1>9
  DEF Update, ResetConnections, Call, UserStep, Listing, UpdateLocked, Look,
      Connect, UpdateReturn, Reset, UpdateThrows, sendVars,
          pauseVars, pollVars, roundVars
<1> QED
  BY <1>6, <1>7, <1>8, <1>9 DEF Next

(* The exception is noted by one step and forgotten by one.                *)
LEMMA ThrewUnchanged ==
  ASSUME [Next]_vars
  PROVE  UNCHANGED threw \/ ReturnAll \/ \E m \in Replies : SendStep(m)
<1> USE DEF sendVars
<1>1. CASE Arrive \/ Close \/ Kill \/ Joined \/ UNCHANGED vars
  BY <1>1 DEF Arrive, Close, Kill, Joined, vars
<1>2. CASE Round
  BY <1>2 DEF Round, EndThread, StartRound, Swap, Lock, Poll, PollThrows, Receive,
              PollAgain, ReceiveThrows, ReceiveUnlocked, Received
<1>3. ASSUME NEW u \in Users,
             Update(u) \/ ResetConnections(u) \/ UserStep(u) \/ UpdateThrows(u)
      PROVE  UNCHANGED threw
  BY <1>3 DEF Update, ResetConnections, Call, UserStep, Listing, UpdateLocked, Look,
              Connect, UpdateReturn, Reset, UpdateThrows
<1>4. ASSUME NEW m \in Replies, Queue(m) PROVE UNCHANGED threw
  BY <1>4 DEF Queue
<1> QED
  BY <1>1, <1>2, <1>3, <1>4 DEF Next

(* What the peer has got is what is flagged as sent.                       *)
LEMMA DeliveredIsFlagged ==
  FlagsTruthful => Delivered = {m \in Replies : flag[m] = "sent"}
BY DEF FlagsTruthful, Delivered

LEMMA OutboxStep ==
  ASSUME TypeInv, HandedBackOnce, FlagInv, FlagInv', BatchInv, [Next]_vars
  PROVE  [Box!Next]_(Box!boxVars)
<1> USE DEF Box!Next, Box!boxVars
<1>1. /\ Delivered = {m \in Replies : flag[m] = "sent"}
      /\ Delivered' = {m \in Replies : flag'[m] = "sent"}
  <2>1. FlagsTruthful /\ FlagsTruthful'
    BY DEF FlagInv
  <2>2. Delivered' = {m \in Replies : flag'[m] = "sent"}
    BY <2>1 DEF FlagsTruthful, Delivered
  <2> QED
    BY <2>1, <2>2, DeliveredIsFlagged
<1>2. ASSUME NEW m \in Replies, Queue(m) PROVE Box!Accept(m)
  <2>1. /\ m \notin returned /\ ~Queued(m)
        /\ messages_to_send' = Append(messages_to_send, m)
        /\ UNCHANGED <<local_messages, returned, flag, threw>>
    BY <1>2 DEF Queue
  <2>2. Elements(messages_to_send') = Elements(messages_to_send) \cup {m}
    BY <2>1, AppendElements DEF TypeInv, TypeOK
  <2>3. \A n \in Replies : Queued(n)' <=> Queued(n) \/ n = m
    BY <2>1, <2>2 DEF Queued
  <2>4. Place[m] = "tool" /\ Place' = [Place EXCEPT ![m] = "held"]
    BY <2>1, <2>3 DEF Place
  <2>5. UNCHANGED Delivered
    BY <1>1, <2>1
  <2> QED
    BY <2>1, <2>4, <2>5 DEF Box!Accept
<1>3. CASE Swap
  <2>1. /\ messages_to_send' = local_messages
        /\ local_messages' = messages_to_send
        /\ UNCHANGED <<returned, flag, threw>>
    BY <1>3 DEF Swap
  <2>2. \A n \in Replies : Queued(n)' <=> Queued(n)
    BY <2>1 DEF Queued
  <2>3. UNCHANGED Place
    BY <2>1, <2>2 DEF Place
  <2> QED
    BY <1>1, <2>1, <2>3
<1>4. CASE ReturnAll
  <2> DEFINE batch == Elements(local_messages)
  <2>1. /\ at = "send" /\ i > Len(local_messages)
        /\ returned' = returned \cup batch /\ local_messages' = <<>>
        /\ threw' = FALSE
        /\ UNCHANGED <<messages_to_send, flag>>
    BY <1>4 DEF ReturnAll
  <2>2. batch \in SUBSET Replies
    BY DEF Elements, TypeInv, TypeOK
  <2>3. \A m \in batch : Place[m] = "held"
    <3>1. \A m \in batch : m \notin returned /\ Queued(m)
      BY DEF HandedBackOnce, Queued
    <3> QED
      BY <2>2, <3>1 DEF Place
  <2>4. threw \/ \A m \in batch : flag[m] # "unset"
    <3> SUFFICES ASSUME ~threw, NEW k \in DOMAIN local_messages
                 PROVE  flag[local_messages[k]] # "unset"
      BY DEF Elements
    <3>1. k < i
      BY <2>1 DEF TypeInv, TypeOK
    <3> QED
      BY <2>1, <3>1 DEF BatchInv
  <2>5. Place' = [m \in Replies |-> IF m \in batch THEN "pool" ELSE Place[m]]
    <3>1. Elements(local_messages') = {}
      BY <2>1 DEF Elements
    <3>2. \A m \in Replies \ batch : Queued(m)' <=> Queued(m)
      BY <2>1, <3>1 DEF Queued
    <3> HIDE DEF batch
    <3>3. \A m \in Replies :
            Place'[m] = IF m \in batch THEN "pool" ELSE Place[m]
      BY <2>1, <3>2 DEF Place
    <3>4. Place' = [m \in Replies |-> Place'[m]]
      BY DEF Place
    <3> QED
      BY <3>3, <3>4
  <2>6. UNCHANGED Delivered
    BY <1>1, <2>1
  <2>7. Box!HandBack(batch)
    BY <2>1, <2>3, <2>4, <2>5, <2>6 DEF Box!HandBack
  <2> QED
    BY <2>2, <2>7
<1>5. ASSUME NEW m \in Replies, SendStep(m)
      PROVE  Box!Deliver(m) \/ Box!Fail(m) \/ Box!BreakOff(m)
  <2>1. /\ Sending /\ m = local_messages[i]
        /\ UNCHANGED <<messages_to_send, local_messages, returned>>
    BY <1>5 DEF SendStep, Send, SendFails, SendThrows
  <2>2. flag[m] = "unset" /\ m \notin returned
    BY <2>1, NextIsUnflagged DEF FlagInv
  <2>3. Queued(m)
    BY <2>1 DEF Queued, Elements, Sending, TypeInv, TypeOK
  <2>4. Place[m] = "held" /\ UNCHANGED Place
    BY <2>1, <2>2, <2>3 DEF Place, Queued
  <2>5. flag = [n \in Replies |-> flag[n]]
    BY DEF TypeInv, TypeOK
  <2>6. CASE Send(m)
    <3>1. flag' = [flag EXCEPT ![m] = "sent"] /\ threw' = threw
      BY <2>6 DEF Send
    <3>2. Delivered' = Delivered \cup {m}
      BY <1>1, <2>5, <3>1
    <3> QED
      BY <2>2, <2>4, <3>1, <3>2 DEF Box!Deliver, Box!Judge
  <2>7. CASE SendFails(m) \/ \E parts \in 0..Parts[m] : SendThrows(m, parts)
    <3>1. /\ flag' = [flag EXCEPT ![m] = "error"]
          /\ threw' = threw \/ threw' = TRUE
      BY <2>7 DEF SendFails, SendThrows
    <3>2. Delivered' = Delivered
      BY <1>1, <2>2, <2>5, <3>1
    <3> QED
      BY <2>2, <2>4, <3>1, <3>2 DEF Box!Fail, Box!BreakOff, Box!Judge
  <2> QED
    BY <1>5, <2>6, <2>7 DEF SendStep
<1>6. CASE UNCHANGED <<messages_to_send, local_messages, returned, flag, threw>>
  BY <1>1, <1>6 DEF Place, Queued
<1> QED
  BY <1>2, <1>3, <1>4, <1>5, <1>6, MessagesUnmoved, FlagsUnchanged, ThrewUnchanged

LEMMA FlagInvariant ==
  Spec => [](TypeInv /\ HandedBackOnce /\ FlagInv /\ BatchInv)
<1>1. Init => BatchInv
  BY DEF Init, BatchInv
<1>2. TypeInv /\ HandedBackOnce /\ FlagInv /\ [Next]_vars => FlagInv'
  BY FlaggedStep, TruthfulStep DEF FlagInv
<1> QED
  BY <1>1, <1>2, TypeInvInit, TypeInvStep, HandedBackInit, HandedBackStep,
     FlagInvInit, BatchInvStep, PTL DEF Spec

(* The manager keeps the promise of Outbox, for any messages of any number *)
(* of parts: each is judged at most once and as the peer sees it, and is   *)
(* handed back once, with its flag unless an exception broke off its batch *)
(* (SocketManager::Thread).                                                *)
THEOREM OutboxImplemented == Spec => ImplementsOutbox
<1>1. Init => Box!Init
  BY DEF Init, Box!Init, Place, Delivered, Queued, Elements
<1>2. /\ TypeInv /\ HandedBackOnce /\ FlagInv /\ FlagInv' /\ BatchInv
      /\ [Next]_vars
      => [Box!Next]_(Box!boxVars)
  BY OutboxStep
<1> QED
  BY <1>1, <1>2, FlagInvariant, PTL DEF Spec, ImplementsOutbox, Box!Spec
============================================================================
