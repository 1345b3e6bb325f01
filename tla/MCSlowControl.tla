--------------------------- MODULE MCSlowControl ---------------------------
(* A small instance of SlowControl: subscribers set a, whose change        *)
(* function sets b or subscribes to an alert, so that functions may get    *)
(* back to what they are called for.                                       *)
EXTENDS SlowControl

CONSTANTS a, b

MCTouches ==
  [l \in Locks |-> CASE l = Alerts -> {a}
                     [] l = a -> {b, Alerts}
                     [] OTHER -> {}]
MCChanges == {SetFlag("Active"), ClearFlags}
============================================================================
