--------------------------- MODULE CommandChannel ---------------------------
(***************************************************************************)
(* What SendCommand promises its callers, with the queue, the tickets, the *)
(* sockets and the background thread left out.                             *)
(*                                                                         *)
(* A call is open while its caller waits.  A middleman may perform the     *)
(* command at any time after the call began, even after the caller was     *)
(* told of an error: a timeout does not cancel the command.  Two answers   *)
(* commit the service:                                                     *)
(*   ok      the command has been performed;                               *)
(*   unsent  it has not been and never will be, so it is safe to retry.    *)
(***************************************************************************)
EXTENDS Naturals

CONSTANT Calls

VARIABLES
  status,     \* per call: idle, open, or what SendCommand returned
  performed   \* calls a middleman acted on

channelVars == <<status, performed>>

Init ==
  /\ status = [n \in Calls |-> "idle"]
  /\ performed = {}

Begin(n) ==
  /\ status[n] = "idle"
  /\ status' = [status EXCEPT ![n] = "open"]
  /\ UNCHANGED performed

Perform(n) ==
  /\ status[n] \notin {"idle", "unsent"}
  /\ performed' = performed \cup {n}
  /\ UNCHANGED status

End(n, answer) ==
  /\ status[n] = "open"
  /\ status' = [status EXCEPT ![n] = answer]
  /\ UNCHANGED performed

Confirm(n) == n \in performed /\ End(n, "ok")
Reject(n) == n \notin performed /\ End(n, "unsent")
GiveUp(n) == End(n, "error")

Next ==
  \E n \in Calls : \/ Begin(n) \/ Perform(n)
                   \/ Confirm(n) \/ Reject(n) \/ GiveUp(n)

Spec == Init /\ [][Next]_channelVars
=============================================================================
