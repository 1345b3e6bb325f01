------------------------------- MODULE Outbox -------------------------------
(***************************************************************************)
(* What SocketManager promises a tool that gives it messages to send, with *)
(* the rounds, the buffers, the polls and the lock left out.               *)
(*                                                                         *)
(* A message goes from the tool to the manager and from there, once, to    *)
(* the pool.  The manager gives it at most one verdict: "sent" is given in *)
(* the moment its last part goes to the peer, and "error" excludes that it *)
(* ever does.  Messages go to the pool in batches, each with its verdict,  *)
(* unless an exception broke the batch off.                                *)
(***************************************************************************)
EXTENDS Naturals

CONSTANT Messages

VARIABLES
  place,       \* per message: with the tool, held by the manager, in the pool
  verdict,     \* per message: unset, sent or error
  delivered,   \* messages whose last part went to the peer
  broken       \* an exception broke off the batch that is handed back next

boxVars == <<place, verdict, delivered, broken>>

Init ==
  /\ place = [m \in Messages |-> "tool"]
  /\ verdict = [m \in Messages |-> "unset"]
  /\ delivered = {}
  /\ broken = FALSE

Accept(m) ==
  /\ place[m] = "tool"
  /\ place' = [place EXCEPT ![m] = "held"]
  /\ UNCHANGED <<verdict, delivered, broken>>

Judge(m, what) ==
  /\ place[m] = "held" /\ verdict[m] = "unset"
  /\ verdict' = [verdict EXCEPT ![m] = what]
  /\ UNCHANGED place

Deliver(m) ==
  /\ Judge(m, "sent")
  /\ delivered' = delivered \cup {m}
  /\ UNCHANGED broken

Fail(m) == Judge(m, "error") /\ UNCHANGED <<delivered, broken>>

BreakOff(m) ==
  /\ Judge(m, "error")
  /\ broken' = TRUE
  /\ UNCHANGED delivered

HandBack(batch) ==
  /\ \A m \in batch : place[m] = "held"
  /\ broken \/ \A m \in batch : verdict[m] # "unset"
  /\ place' = [m \in Messages |-> IF m \in batch THEN "pool" ELSE place[m]]
  /\ broken' = FALSE
  /\ UNCHANGED <<verdict, delivered>>

Next ==
  \/ \E m \in Messages : Accept(m) \/ Deliver(m) \/ Fail(m) \/ BreakOff(m)
  \/ \E batch \in SUBSET Messages : HandBack(batch)

Spec == Init /\ [][Next]_boxVars
=============================================================================
