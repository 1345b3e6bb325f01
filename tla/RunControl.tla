----------------------------- MODULE RunControl -----------------------------
(***************************************************************************)
(* What an operator at slow control, and the user's code, can rely on when *)
(* runs are configured, with the ids, the database, the attempts and the   *)
(* ways to ask left out.                                                   *)
(*                                                                         *)
(* One thing is done at a time.  Config is shown as LoadEnd or LoadFail    *)
(* only by a load that was shown to start, and as ChangeEnd or ChangeFail  *)
(* only by such a change; what is held changes during a load, with what    *)
(* the user's code runs with, or by the user's own hand; and NewConfig is  *)
(* raised by loads only and consumed by reported changes only.             *)
(***************************************************************************)
CONSTANT Texts   \* of configurations; "error" and "user" are two of them

VARIABLES
  shown,     \* what Config says
  doing,     \* what is being done
  held,      \* the configuration held
  running,   \* what the user's code runs with
  own,       \* the user put the one held there by hand
  pending    \* NewConfig: one was loaded that no change has consumed

controlVars == <<shown, doing, held, running, own, pending>>

Init ==
  /\ shown = "Unconfigured"
  /\ doing = "nothing"
  /\ held = "empty"
  /\ running = "none"
  /\ own = FALSE
  /\ pending = FALSE

(* Who asks too early, or for nothing, sees a start and no end.            *)
Start(what, starting) ==
  /\ doing = "nothing"
  /\ shown' = starting
  /\ doing' \in {what, "nothing"}
  /\ UNCHANGED <<held, running, own, pending>>

StartLoad == Start("load", "LoadStart")
StartChange == Start("change", "ChangeStart")

Fetch ==
  /\ doing = "load" /\ shown = "LoadStart"
  /\ held' \in Texts
  /\ own' = FALSE
  /\ pending' \in {pending, TRUE}
  /\ UNCHANGED <<shown, doing, running>>

EndLoad ==
  /\ doing = "load" /\ shown = "LoadStart"
  /\ doing' = "nothing"
  /\ \/ shown' = "LoadEnd"
     \/ shown' = "LoadFail" /\ held = "error"
  /\ UNCHANGED <<held, running, own, pending>>

(* What is given to the user's code is what is held, or is held from now   *)
(* on, unless the user replaces it meanwhile.                              *)
ChangeSucceeds ==
  /\ running' \in Texts
  /\ held' \in {held, running'}
  /\ own' \in {own, FALSE}
  /\ ~own' => held' = running'

ChangeFails == running' = "unknown" /\ UNCHANGED <<held, own>>

(* Some ways to ask are not answered, and neither are some exceptions.     *)
EndChange ==
  /\ doing = "change" /\ shown = "ChangeStart"
  /\ doing' = "nothing"
  /\ \/ shown' = "ChangeEnd" /\ ChangeSucceeds /\ pending' \in {pending, FALSE}
     \/ shown' = "ChangeFail" /\ ChangeFails /\ pending' \in {pending, FALSE}
     \/ (ChangeSucceeds \/ ChangeFails) /\ UNCHANGED <<shown, pending>>

StartStop ==
  /\ doing = "nothing"
  /\ doing' = "stop"
  /\ UNCHANGED <<shown, held, running, own, pending>>

EndStop ==
  /\ doing = "stop"
  /\ doing' = "nothing"
  /\ shown' \in {shown, "Unconfigured"}
  /\ UNCHANGED <<held, running, own, pending>>

Export ==
  /\ doing = "nothing"
  /\ running' \in Texts /\ held' = running'
  /\ own' \in {own, FALSE}
  /\ UNCHANGED <<shown, doing, pending>>

Replace ==
  /\ doing # "load"
  /\ held' = "user" /\ own' = TRUE
  /\ UNCHANGED <<shown, doing, running, pending>>

Next ==
  \/ StartLoad \/ Fetch \/ EndLoad
  \/ StartChange \/ EndChange
  \/ StartStop \/ EndStop
  \/ Export \/ Replace

Spec == Init /\ [][Next]_controlVars
=============================================================================
