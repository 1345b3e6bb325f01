----------------------------- MODULE SlowControl -----------------------------
(***************************************************************************)
(* Slow control: SlowControlCollection with its elements.  The receiver    *)
(* thread serves remote requests, which set elements, and alerts; the      *)
(* user's threads set elements, subscribe to alerts and raise or clear the *)
(* flags of the process's state.  An element holds its mutex while its     *)
(* change function runs, alert_functions_mutex is held while a subscriber  *)
(* runs, and these functions of the user may in turn set elements and      *)
(* flags.                                                                  *)
(*                                                                         *)
(* The state is kept three times: m_state, the value of the element State, *)
(* and the port State that service discovery announces.                    *)
(***************************************************************************)
EXTENDS Naturals, SequencesExt

CONSTANTS
  Users,       \* threads of the user's code
  Elements,    \* the elements that have a change function, or may have
  Touches,     \* what each function may set or subscribe to
  Changes,     \* the changes of m_state that are made: see ChangesOK
  MaxCalls,    \* bound: calls, requests and alerts
  None

Receiver == "receiver"
Threads == Users \cup {Receiver}
State == "State"                    \* the element, without a function
Alerts == "alert_functions"
Locks == Elements \cup {State, Alerts}
Flags == {"Active", "Warning", "Error"}
StateChanges == [on : SUBSET Flags, off : SUBSET Flags]

ASSUME NamesOK ==
  /\ Receiver \notin Users /\ None \notin Threads \cup Locks
  /\ State \notin Elements /\ Alerts \notin Elements
ASSUME ElementsOK == IsFiniteSet(Elements)
(* The user's functions touch what they like, what they are called for     *)
(* included; but they set State by SetActive and the like only.            *)
ASSUME TouchesOK ==
  /\ Touches \in [Locks -> SUBSET (Locks \ {State})]
  /\ Touches[State] = {}
ASSUME ChangesOK ==
  /\ Changes \subseteq StateChanges /\ None \notin StateChanges
  /\ MaxCalls \in Nat

SetFlag(f) == [on |-> {f}, off |-> {}]
ResetFlag(f) == [on |-> {}, off |-> {f}]
ClearFlags == [on |-> {}, off |-> {"Warning", "Error"}]
Apply(change, flags) == (flags \ change.off) \cup change.on

VARIABLES
  mtx,         \* for each lock the thread that holds it, or None
  outer,       \* the lock in whose function this one has been taken, or None
  inner,       \* for each thread the lock it has taken last
  want,        \* and the one it asks for, or None
  at,          \* where it is
  reg,         \* the m_state it has read
  change,      \* the change of the state it is making, or None
  m_state,
  value,       \* of the element State
  posts,       \* AddPort messages under way, the oldest first
  port,        \* the port that is announced
  started,     \* Services::Init has set State to 0
  calls,       \* calls, requests and alerts so far
  intended,    \* history: the state if every change were made at once
  overlapped,  \* history: a change was begun during another one
  overtaken    \* history: a message was taken before an older one

lockVars == <<mtx, outer, inner, want>>
stateVars == <<m_state, value, posts, port>>
historyVars == <<intended, overlapped, overtaken>>
vars == <<lockVars, at, reg, change, stateVars, started, calls, historyVars>>

Init ==
  /\ mtx = [l \in Locks |-> None]
  /\ outer = [l \in Locks |-> None]
  /\ inner = [t \in Threads |-> None]
  /\ want = [t \in Threads |-> None]
  /\ at = [t \in Threads |-> "idle"]
  /\ reg = [t \in Threads |-> {}]
  /\ change = [t \in Threads |-> None]
  /\ m_state = {} /\ value = {} /\ posts = <<>> /\ port = {}
  /\ started = FALSE
  /\ calls = 0
  /\ intended = {} /\ overlapped = FALSE /\ overtaken = FALSE

----------------------------------------------------------------------------
(* Calls of the user, requests and alerts.                                 *)

Begin(t) ==
  /\ at[t] = "idle"
  /\ calls < MaxCalls
  /\ calls' = calls + 1

(* A lock is asked for, to set the element or to look the alert up.        *)
Ask(t, l) ==
  /\ Begin(t)
  /\ at' = [at EXCEPT ![t] = "lock"]
  /\ want' = [want EXCEPT ![t] = l]
  /\ UNCHANGED <<mtx, outer, inner, reg, change, stateVars, started, historyVars>>

SetValue(u, e) == Ask(u, e)
AlertSubscribe(u) == Ask(u, Alerts)
(* A request that sets the element or, if it gives no value, reads it.     *)
Request(e) == Ask(Receiver, e)
Alert == Ask(Receiver, Alerts)

ChangeBegins(t, c) ==
  /\ change' = [change EXCEPT ![t] = c]
  /\ intended' = Apply(c, intended)
  /\ overlapped' = (overlapped \/ \E s \in Threads : change[s] # None)

(* SetActive, SetWarning, SetError and ClearState.                         *)
SetState(u, c) ==
  /\ Begin(u)
  /\ at' = [at EXCEPT ![u] = "read"]
  /\ ChangeBegins(u, c)
  /\ UNCHANGED <<lockVars, reg, stateVars, started, overtaken>>

(* A request for an unknown element sets Warning, an alert that cannot be  *)
(* received Error.                                                         *)
RequestFails == SetState(Receiver, SetFlag("Warning"))
AlertNotReceived == SetState(Receiver, SetFlag("Error"))

(* Services::Init has the receiver running when it sets State to 0.        *)
StartUp(u) ==
  /\ ~started /\ started' = TRUE
  /\ Begin(u)
  /\ at' = [at EXCEPT ![u] = "lock"]
  /\ want' = [want EXCEPT ![u] = State]
  /\ reg' = [reg EXCEPT ![u] = {}]
  /\ change' = [change EXCEPT ![u] = [on |-> {}, off |-> {}]]
  /\ overlapped' = (overlapped \/ m_state # {} \/ \E s \in Threads : change[s] # None)
  /\ UNCHANGED <<mtx, outer, inner, stateVars, intended, overtaken>>

----------------------------------------------------------------------------
(* Locks and functions.                                                    *)

(* Definitions marked Faulty are plausible mistakes, for the properties to *)
(* find.  Bug: the lock is taken although another thread holds it.         *)
FaultyLock(t) ==
  /\ at[t] = "lock"
  /\ mtx' = [mtx EXCEPT ![want[t]] = t]
  /\ outer' = [outer EXCEPT ![want[t]] = inner[t]]
  /\ inner' = [inner EXCEPT ![t] = want[t]]
  /\ want' = [want EXCEPT ![t] = None]
  /\ at' = [at EXCEPT ![t] = "function"]
  /\ UNCHANGED <<reg, change, stateVars, started, calls, historyVars>>

Lock(t) ==
  /\ at[t] = "lock" /\ mtx[want[t]] = None
  /\ mtx' = [mtx EXCEPT ![want[t]] = t]
  /\ outer' = [outer EXCEPT ![want[t]] = inner[t]]
  /\ inner' = [inner EXCEPT ![t] = want[t]]
  /\ want' = [want EXCEPT ![t] = None]
  /\ at' = [at EXCEPT ![t] = "function"]
  /\ UNCHANGED <<reg, change, stateVars, started, calls, historyVars>>

(* The thread runs a function: subscribing to alerts calls none.           *)
InFunction(t) ==
  /\ at[t] = "function" /\ inner[t] # State
  /\ inner[t] = Alerts => t = Receiver /\ outer[Alerts] = None

Touch(t, l) ==
  /\ InFunction(t) /\ l \in Touches[inner[t]]
  /\ at' = [at EXCEPT ![t] = "lock"]
  /\ want' = [want EXCEPT ![t] = l]
  /\ UNCHANGED <<mtx, outer, inner, reg, change, stateVars, started, calls, historyVars>>

ChangeWithin(t, c) ==
  /\ InFunction(t)
  /\ at' = [at EXCEPT ![t] = "read"]
  /\ ChangeBegins(t, c)
  /\ UNCHANGED <<lockVars, reg, stateVars, started, calls, overtaken>>

Unlock(t) ==
  /\ mtx' = [mtx EXCEPT ![inner[t]] = None]
  /\ outer' = [outer EXCEPT ![inner[t]] = None]
  /\ inner' = [inner EXCEPT ![t] = outer[inner[t]]]

Outside(t) == IF outer[inner[t]] = None THEN "idle" ELSE "returned"

(* Bug: the value is read back through GetValue before the mutex of the    *)
(* element is released.                                                    *)
FaultyReturn(t) ==
  /\ at[t] \in {"function", "returned"} /\ inner[t] # State
  /\ at' = [at EXCEPT ![t] = "lock"]
  /\ want' = [want EXCEPT ![t] = inner[t]]
  /\ UNCHANGED <<mtx, outer, inner, reg, change, stateVars, started, calls, historyVars>>

(* The function has returned: the value is stored and the lock released.   *)
Return(t) ==
  /\ at[t] \in {"function", "returned"} /\ inner[t] # State
  /\ at' = [at EXCEPT ![t] = Outside(t)]
  /\ Unlock(t)
  /\ UNCHANGED <<want, reg, change, stateVars, started, calls, historyVars>>

(* Bug: the mutex is not released.                                         *)
FaultyThrow(t) ==
  /\ at[t] \in {"function", "returned"} /\ inner[t] \in Elements
  /\ at' = [at EXCEPT ![t] = Outside(t)]
  /\ inner' = [inner EXCEPT ![t] = outer[inner[t]]]
  /\ UNCHANGED <<mtx, outer, want, reg, change, stateVars, started, calls, historyVars>>

(* The change function of an element throws, or SetValue or GetValue fails *)
(* otherwise, and returns false.  If a request called it, the receiver     *)
(* sets Warning.                                                           *)
Throw(t) ==
  /\ at[t] \in {"function", "returned"} /\ inner[t] \in Elements
  /\ Unlock(t)
  /\ IF Outside(t) = "idle" /\ t = Receiver
     THEN /\ at' = [at EXCEPT ![t] = "read"]
          /\ ChangeBegins(t, SetFlag("Warning"))
     ELSE /\ at' = [at EXCEPT ![t] = Outside(t)]
          /\ UNCHANGED <<change, intended, overlapped>>
  /\ UNCHANGED <<want, reg, stateVars, started, calls, overtaken>>

(* The subscriber of an alert throws or returns false: Error is set, with  *)
(* the lock still held.                                                    *)
AlertFails ==
  /\ InFunction(Receiver) /\ inner[Receiver] = Alerts
  /\ at' = [at EXCEPT ![Receiver] = "read"]
  /\ ChangeBegins(Receiver, SetFlag("Error"))
  /\ UNCHANGED <<lockVars, reg, stateVars, started, calls, overtaken>>

----------------------------------------------------------------------------
(* SetActive and the like: m_state is read and written, its value read     *)
(* again to announce it and once more to store it in the element.          *)

ReadState(t) ==
  /\ at[t] = "read"
  /\ reg' = [reg EXCEPT ![t] = m_state]
  /\ at' = [at EXCEPT ![t] = "write"]
  /\ UNCHANGED <<lockVars, change, stateVars, started, calls, historyVars>>

(* Bug: the other flags are forgotten.                                     *)
FaultyWriteState(t) ==
  /\ at[t] = "write"
  /\ m_state' = change[t].on
  /\ at' = [at EXCEPT ![t] = "port"]
  /\ UNCHANGED <<lockVars, reg, change, value, posts, port, started, calls, historyVars>>

WriteState(t) ==
  /\ at[t] = "write"
  /\ m_state' = Apply(change[t], reg[t])
  /\ at' = [at EXCEPT ![t] = "port"]
  /\ UNCHANGED <<lockVars, reg, change, value, posts, port, started, calls, historyVars>>

(* AddPort: the messages go through a socket each and may overtake another. *)
AddPort(t) ==
  /\ at[t] = "port"
  /\ posts' = Append(posts, m_state)
  /\ at' = [at EXCEPT ![t] = "value"]
  /\ UNCHANGED <<lockVars, reg, change, m_state, value, port, started, calls, historyVars>>

AskValue(t) ==
  /\ at[t] = "value"
  /\ reg' = [reg EXCEPT ![t] = m_state]
  /\ want' = [want EXCEPT ![t] = State]
  /\ at' = [at EXCEPT ![t] = "lock"]
  /\ UNCHANGED <<mtx, outer, inner, change, stateVars, started, calls, historyVars>>

StoreValue(t) ==
  /\ at[t] = "function" /\ inner[t] = State
  /\ value' = reg[t]
  /\ change' = [change EXCEPT ![t] = None]
  /\ at' = [at EXCEPT ![t] = Outside(t)]
  /\ Unlock(t)
  /\ UNCHANGED <<want, reg, m_state, posts, port, started, calls, historyVars>>

(* The publish thread of service discovery.                                *)
TakePort(i) ==
  /\ posts' = RemoveAt(posts, i)
  /\ port' = posts[i]
  /\ overtaken' = (overtaken \/ i > 1)
  /\ UNCHANGED <<lockVars, at, reg, change, m_state, value, started, calls,
                 intended, overlapped>>

----------------------------------------------------------------------------
Call(u) ==
  \/ \E e \in Elements : SetValue(u, e)
  \/ AlertSubscribe(u)
  \/ \E c \in Changes : SetState(u, c)
  \/ StartUp(u)

Step(t) ==
  \/ Lock(t) \/ Return(t) \/ Throw(t)
  \/ \E l \in Locks : Touch(t, l)
  \/ \E c \in Changes : ChangeWithin(t, c)
  \/ ReadState(t) \/ WriteState(t) \/ AddPort(t) \/ AskValue(t) \/ StoreValue(t)
  \/ t = Receiver /\ AlertFails

Next ==
  \/ \E u \in Users : Call(u)
  \/ \E e \in Elements : Request(e)
  \/ Alert
  \/ RequestFails \/ AlertNotReceived
  \/ \E t \in Threads : Step(t)
  \/ \E i \in DOMAIN posts : TakePort(i)

Spec == Init /\ [][Next]_vars

(* Every thread goes on, which the functions of the user that return or    *)
(* throw let it do.                                                        *)
FairSpec ==
  /\ Spec
  /\ \A t \in Threads : WF_vars(Step(t))
  /\ WF_vars(\E i \in DOMAIN posts : TakePort(i))

----------------------------------------------------------------------------
(* Properties.                                                             *)

Places == {"idle", "lock", "function", "returned", "read", "write", "port", "value"}

(* Every variable has its type, a thread holds the lock in whose function  *)
(* it is, and only those who wait for a lock ask for one.                  *)
TypeOK ==
  /\ mtx \in [Locks -> Threads \cup {None}]
  /\ outer \in [Locks -> Locks \cup {None}]
  /\ inner \in [Threads -> Locks \cup {None}]
  /\ want \in [Threads -> Locks \cup {None}]
  /\ at \in [Threads -> Places]
  /\ \A t \in Threads :
       /\ at[t] = "lock" <=> want[t] # None
       /\ inner[t] # None => mtx[inner[t]] = t
  /\ reg \in [Threads -> SUBSET Flags]
  /\ change \in [Threads -> StateChanges \cup {None}]
  /\ m_state \subseteq Flags /\ value \subseteq Flags /\ port \subseteq Flags
  /\ posts \in Seq(SUBSET Flags)
  /\ started \in BOOLEAN
  /\ calls \in 0..MaxCalls
  /\ intended \subseteq Flags /\ overlapped \in BOOLEAN /\ overtaken \in BOOLEAN

Waits(t) == at[t] = "lock" /\ mtx[want[t]] # None

(* Threads that wait for each other, or for themselves, and for no other.  *)
Stuck(S) == S # {} /\ \A t \in S : Waits(t) /\ mtx[want[t]] \in S

(* The function of each lock they hold has asked for what its thread waits *)
(* for or, if it got it, holds, so that following the functions one comes  *)
(* back to where one began.                                                *)
ByFunctions(S) ==
  \A l \in Locks : mtx[l] \in S =>
    IF l = inner[mtx[l]]
    THEN want[mtx[l]] \in Touches[l]
    ELSE \E k \in Touches[l] : mtx[k] = mtx[l] /\ outer[k] = l

(* Threads get stuck in user functions only, which get back to what one of *)
(* them is called for; slow control makes no circle of its own, whatever   *)
(* these functions touch and whichever of them fail.                       *)
OnlyFunctionsDeadlock == \A S \in SUBSET Threads : Stuck(S) => ByFunctions(S)

(* When nobody changes the state, and no two changes overlapped, m_state   *)
(* is what the changes make it one after the other, the element has that   *)
(* value too, and so has the port when all messages are taken, unless one  *)
(* of them was overtaken.                                                  *)
StateAgrees ==
  (\A t \in Threads : change[t] = None) /\ ~overlapped =>
    /\ m_state = intended
    /\ value = m_state
    /\ posts = <<>> /\ ~overtaken => port = m_state

(* Every call returns, and the receiver gets to its next message, unless  *)
(* the thread is stuck in a circle of user functions.                      *)
CallsReturn ==
  \A t \in Threads :
    at[t] # "idle" ~>
      at[t] = "idle" \/ \E S \in SUBSET Threads : t \in S /\ Stuck(S) /\ ByFunctions(S)
=============================================================================
