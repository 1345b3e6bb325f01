-------------------------- MODULE SlowControlProofs --------------------------
(***************************************************************************)
(* Proofs about SlowControl, for any users, any finite set of elements and *)
(* any functions of the user, which may touch what they are called for.    *)
(***************************************************************************)
EXTENDS SlowControl, SequenceTheorems, FiniteSetTheorems, TLAPS

----------------------------------------------------------------------------
(* Type correctness, and the locks: those of a thread are a chain, from    *)
(* the one it has taken first to inner[t], each taken in the function of   *)
(* the one before, which a depth of each lock tells.                       *)

Types ==
  /\ mtx \in [Locks -> Threads \cup {None}]
  /\ outer \in [Locks -> Locks \cup {None}]
  /\ inner \in [Threads -> Locks \cup {None}]
  /\ want \in [Threads -> Locks \cup {None}]
  /\ at \in [Threads -> Places]
  /\ reg \in [Threads -> SUBSET Flags]
  /\ change \in [Threads -> StateChanges \cup {None}]
  /\ m_state \subseteq Flags /\ value \subseteq Flags /\ port \subseteq Flags
  /\ posts \in Seq(SUBSET Flags)
  /\ started \in BOOLEAN
  /\ calls \in 0..MaxCalls
  /\ intended \subseteq Flags /\ overlapped \in BOOLEAN /\ overtaken \in BOOLEAN

ThreadOK(t) ==
  /\ at[t] = "lock" <=> want[t] # None
  /\ at[t] = "idle" => inner[t] = None
  /\ at[t] \in {"function", "returned"} => inner[t] # None
  /\ inner[t] = State => at[t] = "function"
  /\ inner[t] # None => mtx[inner[t]] = t
  /\ inner[t] # None /\ want[t] # None => want[t] = State \/ want[t] \in Touches[inner[t]]
  /\ \A l \in Locks : mtx[l] = t => inner[t] # None

NestOK(l) ==
  mtx[l] # None =>
    /\ outer[l] # None =>
         /\ mtx[outer[l]] = mtx[l] /\ outer[l] # State
         /\ l = State \/ l \in Touches[outer[l]]
    /\ l = inner[mtx[l]] \/ \E k \in Locks : mtx[k] = mtx[l] /\ outer[k] = l

ChainOK(l, depth) ==
  mtx[l] # None =>
    /\ l = inner[mtx[l]] \/ depth[l] < depth[inner[mtx[l]]]
    /\ outer[l] = None =>
         \A k \in Locks : mtx[k] = mtx[l] => k = l \/ depth[l] < depth[k]
    /\ outer[l] # None =>
         /\ depth[outer[l]] < depth[l]
         /\ \A k \in Locks : mtx[k] = mtx[l] /\ depth[k] < depth[l] =>
              k = outer[l] \/ depth[k] < depth[outer[l]]

HoldInv ==
  /\ \A t \in Threads : ThreadOK(t)
  /\ \A l \in Locks : NestOK(l)
  /\ \E depth \in [Locks -> Nat] : \A l \in Locks : ChainOK(l, depth)

(* A thread changes the state from SetActive or the like to the end of the *)
(* SetValue of the element State, which is taken for nothing else.         *)
Changing == {"read", "write", "port", "value"}
ChangeInv ==
  \A t \in Threads :
    change[t] # None <=>
      \/ at[t] \in Changing
      \/ at[t] = "lock" /\ want[t] = State
      \/ at[t] = "function" /\ inner[t] = State

Latest == IF posts = <<>> THEN port ELSE posts[Len(posts)]
Announced == overtaken \/ Latest = m_state

Agrees(t) ==
  /\ at[t] \in {"read", "write"} => intended = Apply(change[t], m_state)
  /\ at[t] \notin {"read", "write"} => intended = m_state
  /\ at[t] \notin {"read", "port", "value"} => reg[t] = m_state
  /\ at[t] # "port" => Announced

AgreeInv ==
  ~overlapped =>
    /\ \A s, t \in Threads : change[s] # None /\ change[t] # None => s = t
    /\ \A t \in Threads : change[t] # None => Agrees(t)
    /\ (\A t \in Threads : change[t] = None) =>
         m_state = intended /\ value = m_state /\ Announced

LEMMA InitHolds == Init => Types /\ HoldInv
<1> SUFFICES ASSUME Init PROVE Types /\ HoldInv
  OBVIOUS
<1> USE NamesOK
<1>1. posts \in Seq(SUBSET Flags)
  BY DEF Init
<1>2. Types
  <2>1. started \in BOOLEAN /\ overlapped \in BOOLEAN /\ overtaken \in BOOLEAN
    BY DEF Init
  <2>2. calls \in 0..MaxCalls
    BY ChangesOK DEF Init
  <2> QED
    BY <1>1, <2>1, <2>2 DEF Init, Types, Places
<1>3. ASSUME NEW t \in Threads PROVE ThreadOK(t)
  <2>1. at[t] = "idle" /\ want[t] = None /\ inner[t] = None /\ None # State
    BY DEF Init, Locks
  <2>2. \A l \in Locks : mtx[l] # t
    BY DEF Init
  <2> QED
    BY <2>1, <2>2 DEF ThreadOK
<1> DEFINE depth == [l \in Locks |-> 0]
<1>4. ASSUME NEW l \in Locks PROVE NestOK(l) /\ ChainOK(l, depth)
  BY DEF Init, NestOK, ChainOK
<1>5. depth \in [Locks -> Nat]
  OBVIOUS
<1> QED
  BY <1>2, <1>3, <1>4, <1>5 DEF HoldInv

(* The kinds of steps.                                                     *)
LEMMA NextCases ==
  ASSUME [Next]_vars
  PROVE  \/ \E u \in Users : Call(u)
         \/ \E e \in Elements : Request(e)
         \/ Alert
         \/ RequestFails \/ AlertNotReceived
         \/ \E t \in Threads : Step(t)
         \/ \E i \in DOMAIN posts : TakePort(i)
         \/ UNCHANGED vars
BY DEF Next

LEMMA LockNames ==
  /\ State \in Locks /\ Alerts \in Locks /\ Elements \subseteq Locks
  /\ State # Alerts /\ State \notin Elements
  /\ Users \subseteq Threads /\ Receiver \in Threads
  /\ \A l \in Locks : l # None
  /\ \A t \in Threads : t # None
BY NamesOK DEF Locks, State, Alerts, Threads

LEMMA Touched ==
  /\ \A l \in Locks : Touches[l] \subseteq Locks \ {State}
  /\ Touches[State] = {}
BY TouchesOK DEF Locks

----------------------------------------------------------------------------
(* A thread that goes from place to place, and may ask for a lock.         *)
LEMMA HoldWhenMoved ==
  ASSUME Types, HoldInv, NEW t \in Threads, NEW where, NEW l \in Locks \cup {None},
         UNCHANGED <<mtx, outer, inner>>,
         at' = [at EXCEPT ![t] = where], want' = [want EXCEPT ![t] = l],
         where = "lock" <=> l # None,
         where \notin {"idle", "function", "returned"}, inner[t] # State,
         inner[t] # None /\ l # None => l = State \/ l \in Touches[inner[t]]
  PROVE  HoldInv'
<1>1. /\ at'[t] = where /\ want'[t] = l
      /\ \A u \in Threads \ {t} : at'[u] = at[u] /\ want'[u] = want[u]
  BY DEF Types
<1>2. ThreadOK(t)'
  <2>1. ThreadOK(t)
    BY DEF HoldInv
  <2> QED
    BY <1>1, <2>1 DEF ThreadOK
<1>3. ASSUME NEW u \in Threads \ {t} PROVE ThreadOK(u)'
  <2>1. ThreadOK(u)
    BY DEF HoldInv
  <2> QED
    BY <1>1, <2>1 DEF ThreadOK
<1>4. ASSUME NEW k \in Locks PROVE NestOK(k)'
  <2>1. NestOK(k)
    BY DEF HoldInv
  <2> QED
    BY <2>1 DEF NestOK
<1>5. PICK depth \in [Locks -> Nat] : \A k \in Locks : ChainOK(k, depth)
  BY DEF HoldInv
<1>6. ASSUME NEW k \in Locks PROVE ChainOK(k, depth)'
  BY <1>5 DEF ChainOK
<1> QED
  BY <1>2, <1>3, <1>4, <1>5, <1>6 DEF HoldInv

LEMMA HoldWhenLocked ==
  ASSUME Types, HoldInv, NEW t \in Threads, Lock(t)
  PROVE  HoldInv'
<1>0. PICK w, i : w = want[t] /\ i = inner[t]
  OBVIOUS
<1>1. w \in Locks /\ mtx[w] = None /\ t # None /\ w # None
  BY <1>0, LockNames DEF Lock, Types, HoldInv, ThreadOK
<1>2. /\ mtx'[w] = t /\ outer'[w] = i
      /\ \A l \in Locks \ {w} : mtx'[l] = mtx[l] /\ outer'[l] = outer[l]
      /\ inner'[t] = w /\ want'[t] = None /\ at'[t] = "function"
      /\ \A u \in Threads \ {t} :
           inner'[u] = inner[u] /\ want'[u] = want[u] /\ at'[u] = at[u]
  BY <1>0, <1>1 DEF Lock, Types
<1>3. /\ i # None => /\ i \in Locks /\ mtx[i] = t /\ i # State /\ i # w
                     /\ w = State \/ w \in Touches[i]
      /\ \A l \in Locks : mtx[l] = t => i # None
  BY <1>0, <1>1 DEF HoldInv, ThreadOK, Types, Lock
<1>4. ThreadOK(t)'
  BY <1>1, <1>2 DEF ThreadOK
<1>5. ASSUME NEW u \in Threads \ {t} PROVE ThreadOK(u)'
  <2>1. ThreadOK(u) /\ u # None
    BY LockNames DEF HoldInv
  <2>2. inner[u] # None => inner[u] # w /\ inner[u] \in Locks
    BY <1>1, <2>1 DEF ThreadOK, Types
  <2>3. \A l \in Locks : mtx'[l] = u <=> mtx[l] = u
    BY <1>1, <1>2, <2>1
  <2> QED
    BY <1>2, <2>1, <2>2, <2>3 DEF ThreadOK
<1>6. NestOK(w)'
  BY <1>1, <1>2, <1>3 DEF NestOK
<1>7. ASSUME NEW l \in Locks \ {w} PROVE NestOK(l)'
  <2> SUFFICES ASSUME mtx[l] # None PROVE NestOK(l)'
    BY <1>2 DEF NestOK
  <2>1. NestOK(l) /\ mtx[l] \in Threads /\ outer[l] \in Locks \cup {None}
    BY DEF HoldInv, Types
  <2>2. outer[l] # None => outer[l] # w
    BY <1>1, <2>1 DEF NestOK
  <2>3. CASE l = inner[mtx[l]]
    <3>1. l = inner'[mtx'[l]] \/ (mtx'[w] = mtx'[l] /\ outer'[w] = l)
      BY <1>0, <1>2, <2>1, <2>3
    <3> QED
      BY <1>1, <1>2, <2>1, <2>2, <3>1 DEF NestOK
  <2>4. CASE l # inner[mtx[l]]
    <3>1. PICK k \in Locks : mtx[k] = mtx[l] /\ outer[k] = l
      BY <2>1, <2>4 DEF NestOK
    <3>2. mtx'[k] = mtx'[l] /\ outer'[k] = l
      BY <1>1, <1>2, <3>1
    <3> QED
      BY <1>1, <1>2, <2>1, <2>2, <3>2 DEF NestOK
  <2> QED
    BY <2>3, <2>4
<1>8. PICK depth \in [Locks -> Nat] : \A k \in Locks : ChainOK(k, depth)
  BY DEF HoldInv
<1>9. PICK n \in Nat : n = IF i = None THEN 0 ELSE depth[i] + 1
  BY <1>3, <1>8
<1> DEFINE deeper == [depth EXCEPT ![w] = n]
<1>10. /\ deeper \in [Locks -> Nat] /\ deeper[w] = n
       /\ \A l \in Locks \ {w} : deeper[l] = depth[l] /\ depth[l] \in Nat
  BY <1>1, <1>8, <1>9
<1> HIDE DEF deeper
<1>11. ASSUME NEW l \in Locks, mtx[l] = t
       PROVE  l # w /\ i # None /\ depth[l] < n /\ (l = i \/ depth[l] < depth[i])
  <2>1. l # w /\ i # None /\ (l = i \/ depth[l] < depth[i])
    BY <1>0, <1>1, <1>3, <1>8, <1>11 DEF ChainOK
  <2> QED
    BY <1>3, <1>9, <1>10, <2>1
<1>12. ChainOK(w, deeper)'
  <2>1. CASE i = None
    <3>1. \A k \in Locks : mtx'[k] = t => k = w
      BY <1>2, <1>3, <2>1
    <3> QED
      BY <1>1, <1>2, <2>1, <3>1 DEF ChainOK
  <2>2. CASE i # None
    <3>1. deeper[i] < deeper[w]
      BY <1>3, <1>9, <1>10, <2>2
    <3>2. \A k \in Locks : mtx'[k] = t => k = w \/ k = i \/ deeper[k] < deeper[i]
      BY <1>2, <1>3, <1>10, <1>11, <2>2
    <3>3. ~(deeper[w] < deeper[w])
      BY <1>9, <1>10
    <3> QED
      BY <1>1, <1>2, <2>2, <3>1, <3>2, <3>3 DEF ChainOK
  <2> QED
    BY <2>1, <2>2
<1>13. ASSUME NEW l \in Locks \ {w} PROVE ChainOK(l, deeper)'
  <2> SUFFICES ASSUME mtx[l] # None PROVE ChainOK(l, deeper)'
    BY <1>2 DEF ChainOK
  <2>1. /\ ChainOK(l, depth) /\ NestOK(l)
        /\ mtx[l] \in Threads /\ outer[l] \in Locks \cup {None}
    BY <1>8 DEF HoldInv, Types
  <2>2. outer[l] # None => outer[l] # w /\ deeper[outer[l]] = depth[outer[l]]
    BY <1>1, <1>10, <2>1 DEF NestOK
  <2>3. CASE mtx[l] # t
    <3>1. \A k \in Locks : mtx'[k] = mtx'[l] <=> mtx[k] = mtx[l] /\ k # w
      BY <1>1, <1>2, <2>3
    <3>2. inner'[mtx'[l]] = inner[mtx[l]]
      BY <1>2, <2>1, <2>3
    <3>3. inner[mtx[l]] \in Locks \ {w}
      BY <1>1, <2>1 DEF HoldInv, ThreadOK, Types
    <3> QED
      BY <1>2, <1>10, <2>1, <2>2, <3>1, <3>2, <3>3 DEF ChainOK
  <2>4. CASE mtx[l] = t
    <3>1. deeper[l] < deeper[w] /\ ~(deeper[w] < deeper[l])
      BY <1>9, <1>10, <1>11, <2>4
    <3>2. \A k \in Locks : mtx'[k] = mtx'[l] <=> mtx[k] = mtx[l] \/ k = w
      BY <1>1, <1>2, <2>4
    <3>3. inner'[mtx'[l]] = w
      BY <1>2, <2>4
    <3>4. ASSUME outer[l] = None, NEW k \in Locks, mtx'[k] = mtx'[l]
          PROVE  k = l \/ deeper[l] < deeper[k]
      BY <1>10, <2>1, <3>1, <3>2, <3>4 DEF ChainOK
    <3>5. ASSUME outer[l] # None
          PROVE  /\ deeper[outer[l]] < deeper[l]
                 /\ \A k \in Locks : mtx'[k] = mtx'[l] /\ deeper[k] < deeper[l] =>
                      k = outer[l] \/ deeper[k] < deeper[outer[l]]
      BY <1>10, <2>1, <2>2, <3>1, <3>2, <3>5 DEF ChainOK
    <3> QED
      BY <1>2, <3>1, <3>3, <3>4, <3>5 DEF ChainOK
  <2> QED
    BY <2>3, <2>4
<1>14. \A l \in Locks : ChainOK(l, deeper)'
  BY <1>12, <1>13
<1> QED
  BY <1>4, <1>5, <1>6, <1>7, <1>10, <1>14 DEF HoldInv

LEMMA HoldWhenReleased ==
  ASSUME Types, HoldInv, NEW t \in Threads, NEW where, Unlock(t),
         at[t] \in {"function", "returned"},
         at' = [at EXCEPT ![t] = where], UNCHANGED want,
         where \notin {"lock", "function"},
         where = "idle" => outer[inner[t]] = None,
         where = "returned" => outer[inner[t]] # None
  PROVE  HoldInv'
<1>0. PICK i, o : i = inner[t] /\ o = outer[i]
  OBVIOUS
<1>1. /\ i \in Locks /\ mtx[i] = t /\ want[t] = None /\ t # None
      /\ o \in Locks \cup {None} /\ None \notin Locks /\ i # None
  BY <1>0, LockNames DEF HoldInv, ThreadOK, Types
<1>2. /\ mtx'[i] = None /\ outer'[i] = None
      /\ \A l \in Locks \ {i} : mtx'[l] = mtx[l] /\ outer'[l] = outer[l]
      /\ inner'[t] = o /\ at'[t] = where
      /\ \A u \in Threads \ {t} : inner'[u] = inner[u] /\ at'[u] = at[u]
  BY <1>0, <1>1 DEF Unlock, Types
<1>3. PICK depth \in [Locks -> Nat] : \A k \in Locks : ChainOK(k, depth)
  BY DEF HoldInv
<1>4. /\ o = None => \A k \in Locks : mtx[k] = t => k = i
      /\ o # None =>
           /\ mtx[o] = t /\ o # i /\ o # State
           /\ \A k \in Locks : mtx[k] = t => k = i \/ k = o \/ depth[k] < depth[o]
  <2>1. \A k \in Locks : mtx[k] = t => k = i \/ depth[k] < depth[i]
    BY <1>0, <1>1, <1>3 DEF ChainOK
  <2>2. \A k \in Locks : depth[k] \in Nat
    BY <1>3
  <2>3. ChainOK(i, depth) /\ NestOK(i)
    BY <1>1, <1>3 DEF HoldInv
  <2>4. CASE o = None
    BY <1>0, <1>1, <2>1, <2>2, <2>3, <2>4 DEF ChainOK
  <2>5. CASE o # None
    <3>1. mtx[o] = t /\ o # State /\ depth[o] < depth[i]
      BY <1>0, <1>1, <2>3, <2>5 DEF ChainOK, NestOK
    <3>2. o # i
      BY <1>1, <2>2, <3>1
    <3>3. \A k \in Locks : mtx[k] = t => k = i \/ k = o \/ depth[k] < depth[o]
      BY <1>0, <1>1, <2>1, <2>3, <2>5 DEF ChainOK
    <3> QED
      BY <2>5, <3>1, <3>2, <3>3
  <2> QED
    BY <2>4, <2>5
<1>5. ThreadOK(t)'
  <2>1. \A l \in Locks : mtx'[l] = t => mtx[l] = t /\ l # i
    BY <1>1, <1>2
  <2>2. want'[t] = None
    BY <1>1
  <2>3. at'[t] = "idle" => o = None
    BY <1>0, <1>2
  <2>4. at'[t] \in {"function", "returned"} => o # None
    BY <1>0, <1>2
  <2>5. at'[t] # "lock"
    BY <1>2
  <2>6. State # None
    BY LockNames
  <2> QED
    BY <1>1, <1>2, <1>4, <2>1, <2>2, <2>3, <2>4, <2>5, <2>6 DEF ThreadOK
<1>6. ASSUME NEW u \in Threads \ {t} PROVE ThreadOK(u)'
  <2>1. ThreadOK(u) /\ u # None
    BY LockNames DEF HoldInv
  <2>2. inner[u] # None => inner[u] # i /\ inner[u] \in Locks
    BY <1>1, <2>1 DEF ThreadOK, Types
  <2>3. \A l \in Locks : mtx'[l] = u <=> mtx[l] = u
    BY <1>1, <1>2, <2>1
  <2> QED
    BY <1>2, <2>1, <2>2, <2>3 DEF ThreadOK
<1>7. ASSUME NEW l \in Locks \ {i}, mtx[l] # None PROVE NestOK(l)' /\ ChainOK(l, depth)'
  <2>1. /\ ChainOK(l, depth) /\ NestOK(l)
        /\ mtx[l] \in Threads /\ outer[l] \in Locks \cup {None}
    BY <1>3, <1>7 DEF HoldInv, Types
  <2>2. mtx[l] = t => depth[l] < depth[i]
    BY <1>0, <1>7, <2>1 DEF ChainOK
  <2>3. outer[l] # i
    <3> SUFFICES ASSUME outer[l] = i PROVE FALSE
      OBVIOUS
    <3>1. mtx[l] = t /\ depth[i] < depth[l]
      BY <1>1, <1>7, <2>1 DEF ChainOK, NestOK
    <3> QED
      BY <1>1, <1>3, <2>2, <3>1
  <2>4. \A k \in Locks \ {i} : mtx'[k] = mtx'[l] <=> mtx[k] = mtx[l]
    BY <1>2
  <2>5. mtx'[i] # mtx'[l]
    BY <1>2, <1>7
  <2>6. l = inner'[mtx'[l]] \/ \E k \in Locks : mtx'[k] = mtx'[l] /\ outer'[k] = l
    <3>1. CASE l = inner[mtx[l]]
      <4>1. mtx[l] # t
        BY <1>0, <1>7, <3>1
      <4> QED
        BY <1>2, <2>1, <3>1, <4>1
    <3>2. CASE l # inner[mtx[l]]
      <4>1. PICK k \in Locks : mtx[k] = mtx[l] /\ outer[k] = l
        BY <1>7, <2>1, <3>2 DEF NestOK
      <4>2. CASE k = i
        BY <1>0, <1>1, <1>2, <4>1, <4>2
      <4>3. CASE k # i
        BY <1>2, <4>1, <4>3
      <4> QED
        BY <4>2, <4>3
    <3> QED
      BY <3>1, <3>2
  <2>7. l = inner'[mtx'[l]] \/ depth[l] < depth[inner'[mtx'[l]]]
    <3>1. CASE mtx[l] = t
      BY <1>2, <1>4, <1>7, <3>1
    <3>2. CASE mtx[l] # t
      BY <1>2, <1>7, <2>1, <3>2 DEF ChainOK
    <3> QED
      BY <3>1, <3>2
  <2>8. NestOK(l)'
    BY <1>2, <1>7, <2>1, <2>3, <2>6 DEF NestOK
  <2>9. ChainOK(l, depth)'
    BY <1>2, <1>7, <2>1, <2>4, <2>5, <2>7 DEF ChainOK
  <2> QED
    BY <2>8, <2>9
<1>8. ASSUME NEW l \in Locks, l = i \/ mtx[l] = None PROVE NestOK(l)' /\ ChainOK(l, depth)'
  <2>1. mtx'[l] = None
    BY <1>2, <1>8
  <2> QED
    BY <2>1 DEF NestOK, ChainOK
<1>9. \A l \in Locks : NestOK(l)' /\ ChainOK(l, depth)'
  BY <1>7, <1>8
<1> QED
  BY <1>3, <1>5, <1>6, <1>9 DEF HoldInv

LEMMA HoldWhenUnchanged ==
  ASSUME HoldInv, UNCHANGED <<mtx, outer, inner, want, at>>
  PROVE  HoldInv'
<1>1. ASSUME NEW t \in Threads PROVE ThreadOK(t)'
  BY DEF HoldInv, ThreadOK
<1>2. ASSUME NEW l \in Locks PROVE NestOK(l)'
  BY DEF HoldInv, NestOK
<1>3. PICK depth \in [Locks -> Nat] : \A k \in Locks : ChainOK(k, depth)
  BY DEF HoldInv
<1>4. ASSUME NEW l \in Locks PROVE ChainOK(l, depth)'
  BY <1>3 DEF ChainOK
<1> QED
  BY <1>1, <1>2, <1>3, <1>4 DEF HoldInv

(* A thread at work on the state, or a change of it that begins.           *)
LEMMA HoldWhenChanging ==
  ASSUME Types, HoldInv, NEW t \in Threads, NEW where \in Changing, UNCHANGED lockVars,
         at' = [at EXCEPT ![t] = where], at[t] # "lock", inner[t] # State
  PROVE  HoldInv'
<1>1. want[t] = None /\ want' = [want EXCEPT ![t] = None]
  BY DEF HoldInv, ThreadOK, Types, lockVars
<1>2. where \notin {"lock", "idle", "function", "returned"}
  BY DEF Changing
<1> QED
  BY <1>1, <1>2, HoldWhenMoved DEF lockVars

LEMMA HoldWhenAsked ==
  ASSUME Types, HoldInv, NEW t \in Threads, NEW l \in Locks, Ask(t, l)
  PROVE  HoldInv'
<1>1. inner[t] = None /\ inner[t] # State /\ l # None
  BY LockNames DEF Ask, Begin, HoldInv, ThreadOK
<1>2. /\ at' = [at EXCEPT ![t] = "lock"] /\ want' = [want EXCEPT ![t] = l]
      /\ UNCHANGED <<mtx, outer, inner>>
  BY DEF Ask
<1> QED
  BY <1>1, <1>2, HoldWhenMoved

LEMMA HoldWhenSet ==
  ASSUME Types, HoldInv, NEW t \in Threads, NEW c, SetState(t, c)
  PROVE  HoldInv'
<1>1. inner[t] = None /\ None # State /\ at[t] # "lock"
  BY LockNames DEF SetState, Begin, HoldInv, ThreadOK
<1>2. at' = [at EXCEPT ![t] = "read"] /\ UNCHANGED lockVars
  BY DEF SetState
<1> QED
  BY <1>1, <1>2, HoldWhenChanging DEF Changing

LEMMA HoldCall ==
  ASSUME Types, HoldInv, NEW u \in Users, Call(u)
  PROVE  HoldInv'
<1>1. u \in Threads
  BY LockNames
<1>2. ASSUME NEW e \in Elements, SetValue(u, e) PROVE HoldInv'
  BY <1>1, <1>2, HoldWhenAsked, LockNames DEF SetValue
<1>3. CASE AlertSubscribe(u)
  BY <1>1, <1>3, HoldWhenAsked, LockNames DEF AlertSubscribe
<1>4. ASSUME at[u] = "idle" PROVE inner[u] = None /\ None # State
  BY <1>1, <1>4, LockNames DEF HoldInv, ThreadOK
<1>5. ASSUME NEW c \in Changes, SetState(u, c) PROVE HoldInv'
  BY <1>1, <1>5, HoldWhenSet
<1>6. CASE StartUp(u)
  <2>1. /\ at[u] = "idle" /\ at' = [at EXCEPT ![u] = "lock"]
        /\ want' = [want EXCEPT ![u] = State] /\ UNCHANGED <<mtx, outer, inner>>
    BY <1>6 DEF StartUp, Begin
  <2> QED
    BY <1>1, <1>4, <2>1, HoldWhenMoved, LockNames
<1> QED
  BY <1>2, <1>3, <1>5, <1>6 DEF Call

LEMMA HoldStep ==
  ASSUME Types, HoldInv, NEW t \in Threads, Step(t)
  PROVE  HoldInv'
<1>1. ThreadOK(t)
  BY DEF HoldInv
<1>2. CASE Lock(t)
  BY <1>2, HoldWhenLocked
<1>3. ASSUME NEW l \in Locks, Touch(t, l) PROVE HoldInv'
  <2>1. /\ inner[t] # State /\ l \in Touches[inner[t]] /\ l # None
        /\ at' = [at EXCEPT ![t] = "lock"] /\ want' = [want EXCEPT ![t] = l]
        /\ UNCHANGED <<mtx, outer, inner>>
    BY <1>3, LockNames DEF Touch, InFunction
  <2> QED
    BY <2>1, HoldWhenMoved
<1>4. CASE Return(t)
  <2>1. /\ at[t] \in {"function", "returned"} /\ Unlock(t) /\ want' = want
        /\ at' = [at EXCEPT ![t] = Outside(t)]
    BY <1>4 DEF Return
  <2>2. /\ Outside(t) \in {"idle", "returned"}
        /\ Outside(t) = "idle" <=> outer[inner[t]] = None
    BY DEF Outside
  <2> QED
    BY <2>1, <2>2, HoldWhenReleased
<1>5. CASE Throw(t)
  <2>1. PICK where : /\ where \in {"idle", "returned", "read"}
                     /\ where = "idle" => outer[inner[t]] = None
                     /\ where = "returned" => outer[inner[t]] # None
                     /\ at' = [at EXCEPT ![t] = where]
    BY <1>5 DEF Throw, Outside
  <2> QED
    BY <1>5, <2>1, HoldWhenReleased DEF Throw
<1>6. ASSUME NEW c \in Changes, ChangeWithin(t, c) PROVE HoldInv'
  BY <1>6, HoldWhenChanging DEF ChangeWithin, InFunction, Changing
<1>7. CASE ReadState(t)
  BY <1>1, <1>7, HoldWhenChanging DEF ReadState, Changing, ThreadOK
<1>8. CASE WriteState(t)
  BY <1>1, <1>8, HoldWhenChanging DEF WriteState, Changing, ThreadOK
<1>9. CASE AddPort(t)
  BY <1>1, <1>9, HoldWhenChanging DEF AddPort, Changing, ThreadOK
<1>10. CASE AskValue(t)
  <2>1. /\ at[t] = "value" /\ at' = [at EXCEPT ![t] = "lock"]
        /\ want' = [want EXCEPT ![t] = State] /\ UNCHANGED <<mtx, outer, inner>>
    BY <1>10 DEF AskValue
  <2>2. inner[t] # State /\ inner[t] \in Locks \cup {None}
    BY <1>1, <2>1 DEF ThreadOK, Types
  <2> QED
    BY <2>1, <2>2, HoldWhenMoved, LockNames
<1>11. CASE StoreValue(t)
  <2>1. /\ at[t] \in {"function", "returned"} /\ Unlock(t) /\ want' = want
        /\ at' = [at EXCEPT ![t] = Outside(t)]
    BY <1>11 DEF StoreValue
  <2>2. /\ Outside(t) \in {"idle", "returned"}
        /\ Outside(t) = "idle" <=> outer[inner[t]] = None
    BY DEF Outside
  <2> QED
    BY <2>1, <2>2, HoldWhenReleased
<1>12. CASE t = Receiver /\ AlertFails
  <2>1. /\ at' = [at EXCEPT ![t] = "read"] /\ UNCHANGED lockVars
        /\ at[t] = "function" /\ inner[t] = Alerts
    BY <1>12 DEF AlertFails, InFunction
  <2> QED
    BY <2>1, HoldWhenChanging, LockNames DEF Changing
<1> QED
  BY <1>2, <1>3, <1>4, <1>5, <1>6, <1>7, <1>8, <1>9, <1>10, <1>11, <1>12 DEF Step

LEMMA HoldInvStep == Types /\ HoldInv /\ [Next]_vars => HoldInv'
<1> SUFFICES ASSUME Types, HoldInv, [Next]_vars PROVE HoldInv'
  OBVIOUS
<1>1. ASSUME NEW e \in Elements, Request(e) PROVE HoldInv'
  BY <1>1, HoldWhenAsked, LockNames DEF Request
<1>2. CASE Alert
  BY <1>2, HoldWhenAsked, LockNames DEF Alert
<1>3. CASE RequestFails \/ AlertNotReceived
  BY <1>3, HoldWhenSet, LockNames DEF RequestFails, AlertNotReceived
<1>4. ASSUME UNCHANGED vars \/ \E i \in DOMAIN posts : TakePort(i) PROVE HoldInv'
  BY <1>4, HoldWhenUnchanged DEF vars, TakePort, lockVars
<1> QED
  BY <1>1, <1>2, <1>3, <1>4, HoldCall, HoldStep, NextCases

----------------------------------------------------------------------------
(* Threads that wait for each other: nobody waits for State, whose holder  *)
(* asks for no lock, so that all of them wait in a user function.          *)

LEMMA StateIsInner ==
  ASSUME Types, HoldInv, mtx[State] # None
  PROVE  mtx[State] \in Threads /\ at[mtx[State]] = "function"
<1>1. mtx[State] \in Threads /\ State \in Locks
  BY LockNames DEF Types
<1>2. inner[mtx[State]] = State
  <2>1. \A k \in Locks : mtx[k] = mtx[State] => outer[k] # State
    BY <1>1, LockNames DEF HoldInv, NestOK
  <2> QED
    BY <1>1, <2>1 DEF HoldInv, NestOK
<1> QED
  BY <1>1, <1>2 DEF HoldInv, ThreadOK

LEMMA CirclesAreOfFunctions ==
  ASSUME Types, HoldInv
  PROVE  OnlyFunctionsDeadlock
<1> SUFFICES ASSUME NEW S \in SUBSET Threads, Stuck(S), NEW l \in Locks, mtx[l] \in S
             PROVE  IF l = inner[mtx[l]]
                    THEN want[mtx[l]] \in Touches[l]
                    ELSE \E k \in Touches[l] : mtx[k] = mtx[l] /\ outer[k] = l
  BY DEF OnlyFunctionsDeadlock, ByFunctions
<1>1. PICK t \in S : t = mtx[l]
  OBVIOUS
<1>2. ASSUME NEW s \in S
      PROVE  s \in Threads /\ at[s] = "lock" /\ want[s] # None /\ mtx[want[s]] \in S
  BY <1>2 DEF Stuck, Waits, HoldInv, ThreadOK
<1>3. mtx[State] \notin S
  <2> SUFFICES ASSUME mtx[State] \in S PROVE FALSE
    OBVIOUS
  <2>1. mtx[State] # None
    BY <1>2, LockNames
  <2> QED
    BY <1>2, <2>1, StateIsInner
<1>4. CASE l = inner[t]
  <2>1. want[t] # State /\ inner[t] # None
    BY <1>2, <1>3, <1>4, LockNames
  <2>2. want[t] \in Touches[inner[t]]
    BY <1>2, <2>1 DEF HoldInv, ThreadOK
  <2> QED
    BY <1>1, <1>4, <2>2
<1>5. CASE l # inner[t]
  <2>1. NestOK(l) /\ mtx[l] # None
    BY <1>1, <1>2, LockNames DEF HoldInv
  <2>2. PICK k \in Locks : mtx[k] = t /\ outer[k] = l
    BY <1>1, <1>5, <2>1 DEF NestOK
  <2>3. NestOK(k) /\ k # State /\ l # None
    BY <1>1, <1>3, <2>2, LockNames DEF HoldInv
  <2>4. k \in Touches[l]
    BY <1>1, <2>1, <2>2, <2>3 DEF NestOK
  <2> QED
    BY <1>1, <1>5, <2>2, <2>4
<1> QED
  BY <1>1, <1>4, <1>5

----------------------------------------------------------------------------
(* The types.                                                              *)

LEMMA TypesMoved ==
  ASSUME Types, NEW t \in Threads, NEW where \in Places, at' = [at EXCEPT ![t] = where]
  PROVE  at' \in [Threads -> Places]
BY DEF Types

LEMMA TypesChangeBegins ==
  ASSUME Types, NEW t \in Threads, NEW c \in StateChanges, ChangeBegins(t, c)
  PROVE  /\ change' \in [Threads -> StateChanges \cup {None}]
         /\ intended' \subseteq Flags /\ overlapped' \in BOOLEAN
<1>1. c.on \subseteq Flags /\ c.off \subseteq Flags
  BY DEF StateChanges
<1>2. change' \in [Threads -> StateChanges \cup {None}]
  BY DEF ChangeBegins, Types
<1>3. intended' \subseteq Flags
  BY <1>1 DEF ChangeBegins, Apply, Types
<1>4. overlapped' \in BOOLEAN
  BY DEF ChangeBegins
<1> QED
  BY <1>2, <1>3, <1>4

LEMMA StateChangeNames ==
  /\ Changes \subseteq StateChanges
  /\ SetFlag("Warning") \in StateChanges /\ SetFlag("Error") \in StateChanges
  /\ [on |-> {}, off |-> {}] \in StateChanges
  /\ None \notin StateChanges
BY ChangesOK DEF StateChanges, SetFlag, Flags

LEMMA TypesUnlock ==
  ASSUME Types, HoldInv, NEW t \in Threads, Unlock(t), at[t] \in {"function", "returned"}
  PROVE  /\ mtx' \in [Locks -> Threads \cup {None}]
         /\ outer' \in [Locks -> Locks \cup {None}]
         /\ inner' \in [Threads -> Locks \cup {None}]
         /\ inner[t] \in Locks /\ outer[inner[t]] \in Locks \cup {None}
<1>1. inner[t] \in Locks /\ outer[inner[t]] \in Locks \cup {None}
  BY DEF HoldInv, ThreadOK, Types
<1> QED
  BY <1>1 DEF Unlock, Types

LEMMA TypesCall ==
  ASSUME Types, NEW t \in Threads, Begin(t),
         \/ \E l \in Locks : Ask(t, l)
         \/ StartUp(t)
         \/ \E c \in StateChanges : SetState(t, c)
  PROVE  Types'
<1> USE DEF stateVars, historyVars, lockVars
<1>1. calls' \in 0..MaxCalls
  BY ChangesOK DEF Begin, Types
<1>2. ASSUME NEW l \in Locks, Ask(t, l) PROVE Types'
  <2>1. at' \in [Threads -> Places]
    BY <1>2, TypesMoved DEF Ask, Places
  <2>2. want' \in [Threads -> Locks \cup {None}]
    BY <1>2 DEF Ask, Types
  <2> QED
    BY <1>1, <1>2, <2>1, <2>2 DEF Ask, Types
<1>3. ASSUME StartUp(t) PROVE Types'
  <2>1. at' \in [Threads -> Places]
    BY <1>3, TypesMoved DEF StartUp, Places
  <2>2. want' \in [Threads -> Locks \cup {None}] /\ reg' \in [Threads -> SUBSET Flags]
    BY <1>3, LockNames DEF StartUp, Types
  <2>3. change' \in [Threads -> StateChanges \cup {None}]
    BY <1>3, StateChangeNames DEF StartUp, Types
  <2>4. started' \in BOOLEAN /\ overlapped' \in BOOLEAN
    BY <1>3 DEF StartUp
  <2> QED
    BY <1>1, <1>3, <2>1, <2>2, <2>3, <2>4 DEF StartUp, Types
<1>4. ASSUME NEW c \in StateChanges, SetState(t, c) PROVE Types'
  <2>1. at' \in [Threads -> Places]
    BY <1>4, TypesMoved DEF SetState, Places
  <2>2. /\ change' \in [Threads -> StateChanges \cup {None}]
        /\ intended' \subseteq Flags /\ overlapped' \in BOOLEAN
    BY <1>4, TypesChangeBegins DEF SetState
  <2> QED
    BY <1>1, <1>4, <2>1, <2>2 DEF SetState, Types
<1> QED
  BY <1>2, <1>3, <1>4

LEMMA TypesStep ==
  ASSUME Types, HoldInv, ChangeInv, NEW t \in Threads, Step(t)
  PROVE  Types'
<1> USE DEF stateVars, historyVars, lockVars
<1>1. CASE Lock(t)
  <2>1. at' \in [Threads -> Places]
    BY <1>1, TypesMoved DEF Lock, Places
  <2>2. want[t] \in Locks
    BY <1>1 DEF Lock, HoldInv, ThreadOK, Types
  <2>3. /\ mtx' \in [Locks -> Threads \cup {None}]
        /\ outer' \in [Locks -> Locks \cup {None}]
        /\ inner' \in [Threads -> Locks \cup {None}]
        /\ want' \in [Threads -> Locks \cup {None}]
    BY <1>1, <2>2 DEF Lock, Types
  <2> QED
    BY <1>1, <2>1, <2>3 DEF Lock, Types
<1>2. ASSUME NEW l \in Locks, Touch(t, l) PROVE Types'
  <2>1. at' \in [Threads -> Places]
    BY <1>2, TypesMoved DEF Touch, Places
  <2>2. want' \in [Threads -> Locks \cup {None}]
    BY <1>2 DEF Touch, Types
  <2> QED
    BY <1>2, <2>1, <2>2 DEF Touch, Types
<1>3. Outside(t) \in Places
  BY DEF Outside, Places
<1>4. CASE Return(t)
  <2>1. at' \in [Threads -> Places]
    BY <1>3, <1>4, TypesMoved DEF Return
  <2> QED
    BY <1>4, <2>1, TypesUnlock DEF Return, Types
<1>5. CASE Throw(t)
  <2>1. at' \in [Threads -> Places]
    BY <1>3, <1>5, TypesMoved DEF Throw, Places
  <2>2. /\ change' \in [Threads -> StateChanges \cup {None}]
        /\ intended' \subseteq Flags /\ overlapped' \in BOOLEAN
    BY <1>5, TypesChangeBegins, StateChangeNames DEF Throw, Types
  <2> QED
    BY <1>5, <2>1, <2>2, TypesUnlock DEF Throw, Types
<1>6. ASSUME NEW c \in StateChanges, ChangeBegins(t, c), at' = [at EXCEPT ![t] = "read"],
             UNCHANGED <<lockVars, reg, stateVars, started, calls, overtaken>>
      PROVE  Types'
  <2>1. at' \in [Threads -> Places]
    BY <1>6, TypesMoved DEF Places
  <2>2. /\ change' \in [Threads -> StateChanges \cup {None}]
        /\ intended' \subseteq Flags /\ overlapped' \in BOOLEAN
    BY <1>6, TypesChangeBegins
  <2> QED
    BY <1>6, <2>1, <2>2 DEF Types
<1>7. ASSUME NEW c \in Changes, ChangeWithin(t, c) PROVE Types'
  BY <1>6, <1>7, StateChangeNames DEF ChangeWithin
<1>8. CASE t = Receiver /\ AlertFails
  BY <1>6, <1>8, StateChangeNames DEF AlertFails
<1>9. CASE ReadState(t)
  <2>1. at' \in [Threads -> Places]
    BY <1>9, TypesMoved DEF ReadState, Places
  <2>2. reg' \in [Threads -> SUBSET Flags]
    BY <1>9 DEF ReadState, Types
  <2> QED
    BY <1>9, <2>1, <2>2 DEF ReadState, Types
<1>10. CASE WriteState(t)
  <2>1. at' \in [Threads -> Places]
    BY <1>10, TypesMoved DEF WriteState, Places
  <2>2. change[t] \in StateChanges
    BY <1>10 DEF WriteState, ChangeInv, Changing, Types
  <2>3. m_state' \subseteq Flags
    BY <1>10, <2>2 DEF WriteState, Apply, StateChanges, Types
  <2> QED
    BY <1>10, <2>1, <2>3 DEF WriteState, Types
<1>11. CASE AddPort(t)
  <2>1. at' \in [Threads -> Places]
    BY <1>11, TypesMoved DEF AddPort, Places
  <2>2. posts' \in Seq(SUBSET Flags)
    BY <1>11, AppendProperties DEF AddPort, Types
  <2> QED
    BY <1>11, <2>1, <2>2 DEF AddPort, Types
<1>12. CASE AskValue(t)
  <2>1. at' \in [Threads -> Places]
    BY <1>12, TypesMoved DEF AskValue, Places
  <2>2. want' \in [Threads -> Locks \cup {None}] /\ reg' \in [Threads -> SUBSET Flags]
    BY <1>12, LockNames DEF AskValue, Types
  <2> QED
    BY <1>12, <2>1, <2>2 DEF AskValue, Types
<1>13. CASE StoreValue(t)
  <2>1. at' \in [Threads -> Places]
    BY <1>3, <1>13, TypesMoved DEF StoreValue
  <2>2. change' \in [Threads -> StateChanges \cup {None}] /\ value' \subseteq Flags
    BY <1>13 DEF StoreValue, Types
  <2> QED
    BY <1>13, <2>1, <2>2, TypesUnlock DEF StoreValue, Types
<1> QED
  BY <1>1, <1>2, <1>4, <1>5, <1>7, <1>8, <1>9, <1>10, <1>11, <1>12, <1>13 DEF Step

(* TakePort takes a message out; the latest stays, unless it is the one.   *)
LEMMA Removed ==
  ASSUME NEW S, NEW s \in Seq(S), NEW i \in DOMAIN s
  PROVE  /\ RemoveAt(s, i) \in Seq(S)
         /\ s[i] \in S
         /\ Len(s) \in Nat /\ Len(s) > 0
         /\ i = 1 /\ Len(s) = 1 => RemoveAt(s, i) = <<>>
         /\ i = 1 /\ Len(s) > 1 =>
              /\ RemoveAt(s, i) # <<>>
              /\ RemoveAt(s, i)[Len(RemoveAt(s, i))] = s[Len(s)]
<1>1. Len(s) \in Nat /\ i \in 1..Len(s) /\ s[i] \in S
  OBVIOUS
<1>2. RemoveAt(s, i) \in Seq(S)
  <2>1. SubSeq(s, 1, i - 1) \in Seq(S) /\ SubSeq(s, i + 1, Len(s)) \in Seq(S)
    BY <1>1, SubSeqProperties
  <2> QED
    BY <2>1, ConcatProperties DEF RemoveAt
<1>3. ASSUME i = 1 PROVE RemoveAt(s, i) = SubSeq(s, 2, Len(s))
  <2>1. SubSeq(s, 1, 0) = <<>>
    BY <1>1
  <2>2. SubSeq(s, 2, Len(s)) \in Seq(S)
    BY <1>1, SubSeqProperties
  <2>3. <<>> \o SubSeq(s, 2, Len(s)) = SubSeq(s, 2, Len(s))
    BY <2>2, ConcatEmptySeq
  <2> QED
    BY <1>3, <2>1, <2>3 DEF RemoveAt
<1>4. ASSUME i = 1, Len(s) = 1 PROVE RemoveAt(s, i) = <<>>
  BY <1>1, <1>3, <1>4
<1>5. ASSUME i = 1, Len(s) > 1
      PROVE  /\ RemoveAt(s, i) # <<>>
             /\ RemoveAt(s, i)[Len(RemoveAt(s, i))] = s[Len(s)]
  <2> DEFINE r == SubSeq(s, 2, Len(s))
  <2>1. r \in Seq(S) /\ Len(r) = Len(s) - 1
    BY <1>1, <1>5, SubSeqProperties
  <2>2. r[Len(r)] = s[Len(s)]
    BY <1>1, <1>5, <2>1
  <2>3. r # <<>>
    BY <1>1, <1>5, <2>1, SMTT(30)
  <2> HIDE DEF r
  <2>4. RemoveAt(s, i) = r
    BY <1>3, <1>5 DEF r
  <2> QED
    BY <2>2, <2>3, <2>4
<1> QED
  BY <1>1, <1>2, <1>4, <1>5

LEMMA TypesInvStep == Types /\ HoldInv /\ ChangeInv /\ [Next]_vars => Types'
<1> SUFFICES ASSUME Types, HoldInv, ChangeInv, [Next]_vars PROVE Types'
  OBVIOUS
<1>1. ASSUME NEW u \in Users, Call(u) PROVE Types'
  <2>1. u \in Threads
    BY LockNames
  <2>2. Begin(u)
    BY <1>1 DEF Call, SetValue, AlertSubscribe, Ask, SetState, StartUp
  <2>3. (\E l \in Locks : Ask(u, l)) \/ StartUp(u) \/ \E c \in StateChanges : SetState(u, c)
    BY <1>1, LockNames, StateChangeNames DEF Call, SetValue, AlertSubscribe
  <2> QED
    BY <2>1, <2>2, <2>3, TypesCall
<1>2. ASSUME Alert \/ \E e \in Elements : Request(e) PROVE Types'
  <2>1. PICK l \in Locks : Ask(Receiver, l)
    BY <1>2, LockNames DEF Alert, Request
  <2>2. Begin(Receiver) /\ Receiver \in Threads
    BY <2>1, LockNames DEF Ask
  <2> QED
    BY <2>1, <2>2, TypesCall
<1>3. CASE RequestFails \/ AlertNotReceived
  <2>1. PICK c \in StateChanges : SetState(Receiver, c)
    BY <1>3, StateChangeNames DEF RequestFails, AlertNotReceived
  <2>2. Begin(Receiver) /\ Receiver \in Threads
    BY <2>1, LockNames DEF SetState
  <2> QED
    BY <2>1, <2>2, TypesCall
<1>4. ASSUME NEW i \in DOMAIN posts, TakePort(i) PROVE Types'
  <2>1. posts' \in Seq(SUBSET Flags) /\ port' \subseteq Flags
    <3>1. posts \in Seq(SUBSET Flags)
      BY DEF Types
    <3>2. RemoveAt(posts, i) \in Seq(SUBSET Flags) /\ posts[i] \in SUBSET Flags
      BY <3>1, Removed
    <3> QED
      BY <1>4, <3>2 DEF TakePort
  <2>2. overtaken' \in BOOLEAN
    BY <1>4 DEF TakePort
  <2> QED
    BY <1>4, <2>1, <2>2 DEF TakePort, Types, lockVars
<1>5. CASE UNCHANGED vars
  BY <1>5 DEF vars, lockVars, stateVars, historyVars, Types
<1> QED
  BY <1>1, <1>2, <1>3, <1>4, <1>5, TypesStep, NextCases

----------------------------------------------------------------------------
(* Who changes the state.                                                  *)

LEMMA ChangeInvInit == Init => ChangeInv
<1> SUFFICES ASSUME Init, NEW t \in Threads
             PROVE  /\ change[t] = None
                    /\ at[t] \notin Changing \cup {"lock", "function"}
  BY DEF ChangeInv
<1> QED
  BY DEF Init, Changing

(* A thread that makes no change goes on, or takes the lock for one.       *)
LEMMA ChangeKept ==
  ASSUME ChangeInv, NEW t \in Threads, UNCHANGED change,
         \A u \in Threads \ {t} :
           at'[u] = at[u] /\ want'[u] = want[u] /\ inner'[u] = inner[u],
         change[t] # None <=>
           \/ at'[t] \in Changing
           \/ at'[t] = "lock" /\ want'[t] = State
           \/ at'[t] = "function" /\ inner'[t] = State
  PROVE  ChangeInv'
BY DEF ChangeInv

LEMMA ChangeBegun ==
  ASSUME Types, HoldInv, ChangeInv, NEW t \in Threads, NEW c \in StateChanges,
         ChangeBegins(t, c), at' = [at EXCEPT ![t] = "read"], UNCHANGED want,
         \A u \in Threads \ {t} : inner'[u] = inner[u]
  PROVE  ChangeInv'
<1>1. /\ change'[t] # None /\ at'[t] = "read"
      /\ \A u \in Threads \ {t} : change'[u] = change[u] /\ at'[u] = at[u]
  BY StateChangeNames DEF ChangeBegins, Types
<1> QED
  BY <1>1 DEF ChangeInv, Changing

LEMMA ChangeAsked ==
  ASSUME Types, HoldInv, ChangeInv, NEW t \in Threads, NEW l \in Locks \ {State}, Ask(t, l)
  PROVE  ChangeInv'
<1>1. at[t] = "idle" /\ change' = change /\ inner' = inner
  BY DEF Ask, Begin
<1>2. change[t] = None
  BY <1>1 DEF ChangeInv, Changing
<1>3. /\ at'[t] = "lock" /\ want'[t] = l
      /\ \A u \in Threads \ {t} : at'[u] = at[u] /\ want'[u] = want[u]
  BY DEF Ask, Types
<1> QED
  BY <1>1, <1>2, <1>3, ChangeKept DEF Changing

LEMMA ChangeInvCall ==
  ASSUME Types, HoldInv, ChangeInv, NEW u \in Users, Call(u)
  PROVE  ChangeInv'
<1>1. u \in Threads
  BY LockNames
<1>2. ASSUME NEW e \in Elements, SetValue(u, e) PROVE ChangeInv'
  BY <1>1, <1>2, ChangeAsked, LockNames DEF SetValue
<1>3. CASE AlertSubscribe(u)
  BY <1>1, <1>3, ChangeAsked, LockNames DEF AlertSubscribe
<1>4. ASSUME NEW c \in Changes, SetState(u, c) PROVE ChangeInv'
  BY <1>1, <1>4, ChangeBegun, StateChangeNames DEF SetState, lockVars
<1>5. CASE StartUp(u)
  <2>1. /\ change'[u] = [on |-> {}, off |-> {}] /\ at'[u] = "lock" /\ want'[u] = State
        /\ inner' = inner
        /\ \A s \in Threads \ {u} :
             change'[s] = change[s] /\ at'[s] = at[s] /\ want'[s] = want[s]
    BY <1>1, <1>5 DEF StartUp, Types
  <2> QED
    BY <1>1, <2>1, StateChangeNames DEF ChangeInv
<1> QED
  BY <1>2, <1>3, <1>4, <1>5 DEF Call

LEMMA ChangeInvStep1 ==
  ASSUME Types, HoldInv, ChangeInv, NEW t \in Threads, Step(t)
  PROVE  ChangeInv'
<1> USE DEF lockVars
<1>1. ThreadOK(t) /\ (change[t] # None <=> \/ at[t] \in Changing
                                           \/ at[t] = "lock" /\ want[t] = State
                                           \/ at[t] = "function" /\ inner[t] = State)
  BY DEF HoldInv, ChangeInv
<1>2. ASSUME NEW where, at' = [at EXCEPT ![t] = where]
      PROVE  at'[t] = where /\ \A u \in Threads \ {t} : at'[u] = at[u]
  BY <1>2 DEF Types
<1>3. ASSUME NEW l, want' = [want EXCEPT ![t] = l]
      PROVE  want'[t] = l /\ \A u \in Threads \ {t} : want'[u] = want[u]
  BY <1>3 DEF Types
<1>4. ASSUME NEW l, inner' = [inner EXCEPT ![t] = l]
      PROVE  inner'[t] = l /\ \A u \in Threads \ {t} : inner'[u] = inner[u]
  BY <1>4 DEF Types
<1>5. CASE Lock(t)
  <2>1. /\ at'[t] = "function" /\ inner'[t] = want[t] /\ at[t] = "lock" /\ change' = change
        /\ \A u \in Threads \ {t} :
             at'[u] = at[u] /\ want'[u] = want[u] /\ inner'[u] = inner[u]
    BY <1>2, <1>3, <1>4, <1>5 DEF Lock
  <2> QED
    BY <1>1, <2>1, ChangeKept DEF Changing
<1>6. ASSUME NEW l \in Locks, Touch(t, l) PROVE ChangeInv'
  <2>1. /\ at'[t] = "lock" /\ want'[t] = l /\ change' = change
        /\ \A u \in Threads \ {t} :
             at'[u] = at[u] /\ want'[u] = want[u] /\ inner'[u] = inner[u]
    BY <1>2, <1>3, <1>6 DEF Touch
  <2>2. at[t] = "function" /\ inner[t] # State /\ l \in Touches[inner[t]]
    BY <1>6 DEF Touch, InFunction
  <2>3. inner[t] \in Locks
    BY <1>1, <2>2 DEF ThreadOK, Types
  <2>4. l # State
    BY <2>2, <2>3, Touched
  <2> QED
    BY <1>1, <2>1, <2>2, <2>4, ChangeKept DEF Changing
<1>7. ASSUME at[t] \in {"function", "returned"}, inner[t] # State, Unlock(t),
             NEW where \in {"idle", "returned"}, at' = [at EXCEPT ![t] = where],
             UNCHANGED <<want, change>>
      PROVE  ChangeInv'
  <2>1. /\ at'[t] = where
        /\ \A u \in Threads \ {t} :
             at'[u] = at[u] /\ want'[u] = want[u] /\ inner'[u] = inner[u]
    BY <1>2, <1>4, <1>7 DEF Unlock
  <2>2. change[t] = None
    BY <1>1, <1>7 DEF Changing
  <2> QED
    BY <1>7, <2>1, <2>2, ChangeKept DEF Changing
<1>8. Outside(t) \in {"idle", "returned"}
  BY DEF Outside
<1>9. CASE Return(t)
  BY <1>7, <1>8, <1>9 DEF Return
<1>10. CASE Throw(t)
  <2>1. inner[t] # State /\ at[t] \in {"function", "returned"} /\ Unlock(t) /\ want' = want
    BY <1>10, LockNames DEF Throw
  <2>2. \A u \in Threads \ {t} : inner'[u] = inner[u]
    BY <1>4, <2>1 DEF Unlock
  <2>3. CASE Outside(t) = "idle" /\ t = Receiver
    <3>1. at' = [at EXCEPT ![t] = "read"] /\ ChangeBegins(t, SetFlag("Warning"))
      BY <1>10, <2>3 DEF Throw
    <3> QED
      BY <2>1, <2>2, <3>1, ChangeBegun, StateChangeNames
  <2>4. CASE ~(Outside(t) = "idle" /\ t = Receiver)
    <3>1. at' = [at EXCEPT ![t] = Outside(t)] /\ change' = change
      BY <1>10, <2>4 DEF Throw
    <3> QED
      BY <1>7, <1>8, <2>1, <3>1
  <2> QED
    BY <2>3, <2>4
<1>11. ASSUME NEW c \in Changes, ChangeWithin(t, c) PROVE ChangeInv'
  BY <1>11, ChangeBegun, StateChangeNames DEF ChangeWithin
<1>12. CASE t = Receiver /\ AlertFails
  BY <1>12, ChangeBegun, StateChangeNames DEF AlertFails
<1>13. CASE ReadState(t) \/ WriteState(t) \/ AddPort(t)
  <2>1. PICK where \in Changing : at' = [at EXCEPT ![t] = where]
    BY <1>13 DEF ReadState, WriteState, AddPort, Changing
  <2>2. at[t] \in Changing /\ UNCHANGED <<want, inner, change>>
    BY <1>13 DEF ReadState, WriteState, AddPort, Changing
  <2> QED
    BY <1>1, <1>2, <2>1, <2>2, ChangeKept
<1>14. CASE AskValue(t)
  <2>1. /\ at[t] = "value" /\ at'[t] = "lock" /\ want'[t] = State /\ change' = change
        /\ \A u \in Threads \ {t} :
             at'[u] = at[u] /\ want'[u] = want[u] /\ inner'[u] = inner[u]
    BY <1>2, <1>3, <1>14 DEF AskValue
  <2> QED
    BY <1>1, <2>1, ChangeKept DEF Changing
<1>15. CASE StoreValue(t)
  <2>1. /\ at'[t] = Outside(t) /\ change'[t] = None /\ want' = want
        /\ \A u \in Threads \ {t} :
             at'[u] = at[u] /\ change'[u] = change[u] /\ inner'[u] = inner[u]
    BY <1>2, <1>4, <1>15 DEF StoreValue, Unlock, Types
  <2> QED
    BY <1>8, <2>1 DEF ChangeInv, Changing
<1> QED
  BY <1>5, <1>6, <1>9, <1>10, <1>11, <1>12, <1>13, <1>14, <1>15 DEF Step

LEMMA ChangeInvStep == Types /\ HoldInv /\ ChangeInv /\ [Next]_vars => ChangeInv'
<1> SUFFICES ASSUME Types, HoldInv, ChangeInv, [Next]_vars PROVE ChangeInv'
  OBVIOUS
<1>1. ASSUME Alert \/ \E e \in Elements : Request(e) PROVE ChangeInv'
  <2>1. PICK l \in Locks \ {State} : Ask(Receiver, l)
    BY <1>1, LockNames DEF Alert, Request
  <2> QED
    BY <2>1, ChangeAsked, LockNames
<1>2. CASE RequestFails \/ AlertNotReceived
  BY <1>2, ChangeBegun, StateChangeNames, LockNames
     DEF RequestFails, AlertNotReceived, SetState, lockVars
<1>3. ASSUME UNCHANGED vars \/ \E i \in DOMAIN posts : TakePort(i) PROVE ChangeInv'
  BY <1>3 DEF vars, lockVars, TakePort, ChangeInv
<1> QED
  BY <1>1, <1>2, <1>3, ChangeInvCall, ChangeInvStep1, NextCases

(* Every variable has its type, and a thread the lock in whose function it *)
(* is: TypeOK of the runs, for any users and elements (SlowControl).       *)
THEOREM TypeCorrect == Spec => []TypeOK
<1>1. Types /\ HoldInv => TypeOK
  BY DEF Types, HoldInv, ThreadOK, TypeOK
<1> QED
  BY InitHolds, ChangeInvInit, HoldInvStep, TypesInvStep, ChangeInvStep, <1>1, PTL DEF Spec

(* Threads only wait for each other, or for themselves, in functions of    *)
(* the user that get back to what one of them is called for, for any       *)
(* number of threads and elements and whatever the functions touch:        *)
(* OnlyFunctionsDeadlock of the run (SlowControl).                         *)
THEOREM OnlyFunctionsCanDeadlock == Spec => []OnlyFunctionsDeadlock
BY InitHolds, ChangeInvInit, HoldInvStep, TypesInvStep, ChangeInvStep,
   CirclesAreOfFunctions, PTL DEF Spec

----------------------------------------------------------------------------
(* The copies of the state, while one thread changes it and when none does. *)

LEMMA AgreeInit == Init => AgreeInv
<1> SUFFICES ASSUME Init PROVE AgreeInv
  OBVIOUS
<1>1. \A t \in Threads : change[t] = None
  BY DEF Init
<1>2. m_state = intended /\ value = m_state /\ Latest = m_state
  BY DEF Init, Latest
<1> QED
  BY <1>1, <1>2 DEF AgreeInv, Announced

copies == <<change, m_state, value, posts, port, intended, overlapped, overtaken>>

(* A step that leaves the state alone, whoever it is of.                   *)
LEMMA AgreeKept ==
  ASSUME AgreeInv, UNCHANGED <<copies, reg>>,
         \A t \in Threads : change[t] # None =>
           at'[t] = at[t] \/ (at[t] = "lock" /\ at'[t] = "function")
  PROVE  AgreeInv'
<1>1. Latest' = Latest
  BY DEF Latest, copies
<1>2. ASSUME NEW t \in Threads, change[t] # None, Agrees(t) PROVE Agrees(t)'
  BY <1>1, <1>2 DEF Agrees, Announced, Apply, copies
<1> QED
  BY <1>1, <1>2 DEF AgreeInv, Announced, copies

(* A change that begins while there is none finds the copies equal.        *)
LEMMA AgreeBegun ==
  ASSUME Types, ChangeInv, AgreeInv, NEW t \in Threads, NEW c \in StateChanges,
         ChangeBegins(t, c), at' = [at EXCEPT ![t] = "read"],
         UNCHANGED <<reg, stateVars, overtaken>>
  PROVE  AgreeInv'
<1> SUFFICES ASSUME ~overlapped' PROVE AgreeInv'
  BY DEF AgreeInv
<1>1. ~overlapped /\ \A s \in Threads : change[s] = None
  BY DEF ChangeBegins
<1>2. m_state = intended /\ Announced
  BY <1>1 DEF AgreeInv
<1>3. /\ change'[t] = c /\ c # None /\ at'[t] = "read"
      /\ \A s \in Threads \ {t} : change'[s] = None
  BY <1>1, StateChangeNames DEF ChangeBegins, Types
<1>4. intended' = Apply(c, m_state') /\ Announced'
  BY <1>2 DEF ChangeBegins, Announced, Latest, stateVars, Apply
<1>5. Agrees(t)'
  BY <1>3, <1>4 DEF Agrees, Apply
<1> QED
  BY <1>3, <1>5 DEF AgreeInv

LEMMA AgreeCall ==
  ASSUME Types, ChangeInv, AgreeInv, NEW u \in Users, Call(u)
  PROVE  AgreeInv'
<1> USE DEF stateVars, historyVars, copies
<1>1. u \in Threads
  BY LockNames
<1>2. ASSUME NEW t \in Threads, NEW l, Ask(t, l) PROVE AgreeInv'
  <2>1. at[t] = "idle" /\ change[t] = None
    BY <1>2 DEF Ask, Begin, ChangeInv, Changing
  <2>2. \A s \in Threads \ {t} : at'[s] = at[s]
    BY <1>2 DEF Ask, Types
  <2> QED
    BY <1>2, <2>1, <2>2, AgreeKept DEF Ask
<1>3. ASSUME NEW c \in Changes, SetState(u, c) PROVE AgreeInv'
  BY <1>1, <1>3, AgreeBegun, StateChangeNames DEF SetState
<1>4. CASE StartUp(u)
  <2> SUFFICES ASSUME ~overlapped' PROVE AgreeInv'
    BY DEF AgreeInv
  <2>1. ~overlapped /\ m_state = {} /\ \A s \in Threads : change[s] = None
    BY <1>4 DEF StartUp
  <2>2. m_state = intended /\ Announced
    BY <2>1 DEF AgreeInv
  <2>3. /\ change'[u] = [on |-> {}, off |-> {}] /\ at'[u] = "lock" /\ reg'[u] = {}
        /\ \A s \in Threads \ {u} : change'[s] = None
        /\ UNCHANGED <<m_state, posts, port, intended, overtaken>>
    BY <1>1, <1>4, <2>1 DEF StartUp, Types
  <2>4. Announced' /\ m_state' = intended' /\ m_state' = {}
    BY <2>1, <2>2, <2>3 DEF Announced, Latest
  <2>5. Agrees(u)'
    BY <2>3, <2>4 DEF Agrees
  <2>6. change'[u] # None
    BY <2>3, StateChangeNames
  <2> QED
    BY <1>1, <2>3, <2>5, <2>6 DEF AgreeInv
<1> QED
  BY <1>1, <1>2, <1>3, <1>4 DEF Call, SetValue, AlertSubscribe

(* The steps of the thread that makes the change.                          *)
LEMMA AgreeChanging ==
  ASSUME Types, HoldInv, ChangeInv, AgreeInv, NEW t \in Threads,
         ReadState(t) \/ WriteState(t) \/ AddPort(t) \/ AskValue(t) \/ StoreValue(t)
  PROVE  AgreeInv'
<1> USE DEF stateVars, historyVars
<1> SUFFICES ASSUME ~overlapped' PROVE AgreeInv'
  BY DEF AgreeInv
<1>1. overlapped' = overlapped /\ intended' = intended /\ overtaken' = overtaken
  BY DEF ReadState, WriteState, AddPort, AskValue, StoreValue
<1>2. change[t] # None
  BY DEF ChangeInv, Changing, ReadState, WriteState, AddPort, AskValue, StoreValue
<1>3. Agrees(t) /\ \A s \in Threads \ {t} : change[s] = None
  BY <1>1, <1>2 DEF AgreeInv
<1>4. \A s \in Threads \ {t} : change'[s] = None
  BY <1>3 DEF ReadState, WriteState, AddPort, AskValue, StoreValue, Types
<1>5. ASSUME change'[t] = change[t], Agrees(t)' PROVE AgreeInv'
  BY <1>2, <1>4, <1>5 DEF AgreeInv
<1>6. ASSUME NEW where, at' = [at EXCEPT ![t] = where] PROVE at'[t] = where
  BY <1>6 DEF Types
<1>7. CASE ReadState(t)
  <2>1. /\ at[t] = "read" /\ at'[t] = "write" /\ reg'[t] = m_state
        /\ UNCHANGED <<change, m_state, posts, port>>
    BY <1>6, <1>7 DEF ReadState, Types
  <2>2. Agrees(t)'
    BY <1>1, <1>3, <2>1 DEF Agrees, Announced, Latest, Apply
  <2> QED
    BY <1>5, <2>1, <2>2
<1>8. CASE WriteState(t)
  <2>1. /\ at[t] = "write" /\ at'[t] = "port" /\ m_state' = Apply(change[t], reg[t])
        /\ change' = change
    BY <1>6, <1>8 DEF WriteState
  <2>2. Agrees(t)'
    BY <1>1, <1>3, <2>1 DEF Agrees
  <2> QED
    BY <1>5, <2>1, <2>2
<1>9. CASE AddPort(t)
  <2>1. /\ at[t] = "port" /\ at'[t] = "value" /\ posts' = Append(posts, m_state)
        /\ UNCHANGED <<change, m_state>>
    BY <1>6, <1>9 DEF AddPort
  <2>2. Latest' = m_state
    <3>1. posts \in Seq(SUBSET Flags) /\ m_state \in SUBSET Flags
      BY DEF Types
    <3>2. /\ posts' # <<>> /\ Len(posts') = Len(posts) + 1
          /\ posts'[Len(posts) + 1] = m_state
      BY <2>1, <3>1, AppendProperties
    <3> QED
      BY <3>2 DEF Latest
  <2>3. Agrees(t)'
    BY <1>1, <1>3, <2>1, <2>2 DEF Agrees, Announced
  <2> QED
    BY <1>5, <2>1, <2>3
<1>10. CASE AskValue(t)
  <2>1. /\ at[t] = "value" /\ at'[t] = "lock" /\ reg'[t] = m_state
        /\ UNCHANGED <<change, m_state, posts, port>>
    BY <1>6, <1>10 DEF AskValue, Types
  <2>2. Agrees(t)'
    BY <1>1, <1>3, <2>1 DEF Agrees, Announced, Latest
  <2> QED
    BY <1>5, <2>1, <2>2
<1>11. CASE StoreValue(t)
  <2>1. /\ at[t] = "function" /\ value' = reg[t] /\ change'[t] = None
        /\ UNCHANGED <<m_state, posts, port>>
    BY <1>11 DEF StoreValue, Types
  <2>2. m_state = intended /\ reg[t] = m_state /\ Announced
    BY <1>3, <2>1 DEF Agrees
  <2>3. m_state' = intended' /\ value' = m_state' /\ Announced'
    BY <1>1, <2>1, <2>2 DEF Announced, Latest
  <2>4. \A s \in Threads : change'[s] = None
    BY <1>4, <2>1
  <2> QED
    BY <2>3, <2>4 DEF AgreeInv
<1> QED
  BY <1>7, <1>8, <1>9, <1>10, <1>11

LEMMA AgreeStep ==
  ASSUME Types, HoldInv, ChangeInv, AgreeInv, NEW t \in Threads, Step(t)
  PROVE  AgreeInv'
<1> USE DEF stateVars, historyVars, copies
<1>1. \A where : at' = [at EXCEPT ![t] = where] =>
        \A s \in Threads \ {t} : at'[s] = at[s]
  BY DEF Types
<1>2. CASE Lock(t)
  <2>1. at[t] = "lock" /\ at'[t] = "function"
    BY <1>2 DEF Lock, Types
  <2> QED
    BY <1>1, <1>2, <2>1, AgreeKept DEF Lock
<1>3. ASSUME at[t] \in {"function", "returned"}, inner[t] # State PROVE change[t] = None
  BY <1>3 DEF ChangeInv, Changing
<1>4. ASSUME NEW l \in Locks, Touch(t, l) PROVE AgreeInv'
  BY <1>1, <1>3, <1>4, AgreeKept DEF Touch, InFunction
<1>5. CASE Return(t)
  BY <1>1, <1>3, <1>5, AgreeKept DEF Return
<1>6. CASE Throw(t)
  <2>1. inner[t] # State /\ at[t] \in {"function", "returned"}
    BY <1>6, LockNames DEF Throw
  <2>2. CASE Outside(t) = "idle" /\ t = Receiver
    <3>1. /\ at' = [at EXCEPT ![t] = "read"] /\ ChangeBegins(t, SetFlag("Warning"))
          /\ UNCHANGED <<reg, stateVars, overtaken>>
      BY <1>6, <2>2 DEF Throw
    <3> QED
      BY <3>1, AgreeBegun, StateChangeNames
  <2>3. CASE ~(Outside(t) = "idle" /\ t = Receiver)
    <3>1. /\ at' = [at EXCEPT ![t] = Outside(t)] /\ UNCHANGED <<copies, reg>>
      BY <1>6, <2>3 DEF Throw
    <3> QED
      BY <1>1, <1>3, <2>1, <3>1, AgreeKept
  <2> QED
    BY <2>2, <2>3
<1>7. ASSUME NEW c \in Changes, ChangeWithin(t, c) PROVE AgreeInv'
  BY <1>7, AgreeBegun, StateChangeNames DEF ChangeWithin
<1>8. CASE t = Receiver /\ AlertFails
  BY <1>8, AgreeBegun, StateChangeNames DEF AlertFails
<1> QED
  BY <1>2, <1>4, <1>5, <1>6, <1>7, <1>8, AgreeChanging DEF Step

(* The latest message stays the latest, unless an older one is left.       *)
LEMMA AgreeTaken ==
  ASSUME Types, AgreeInv, NEW i \in DOMAIN posts, TakePort(i)
  PROVE  AgreeInv'
<1>1. /\ posts' = RemoveAt(posts, i) /\ port' = posts[i]
      /\ overtaken' = (overtaken \/ i > 1)
      /\ UNCHANGED <<at, reg, change, m_state, value, intended, overlapped>>
  BY DEF TakePort
<1>2. posts \in Seq(SUBSET Flags) /\ i \in Nat /\ i >= 1
  BY DEF Types
<1>3. Announced => Announced'
  <2> SUFFICES ASSUME Latest = m_state, i = 1 PROVE Latest' = m_state
    <3>1. ~(i > 1) => i = 1
      BY <1>2
    <3> QED
      BY <1>1, <3>1 DEF Announced
  <2>1. Len(posts) \in Nat /\ Len(posts) > 0 /\ posts # <<>>
    BY <1>2, Removed
  <2>2. posts[Len(posts)] = m_state
    BY <2>1 DEF Latest
  <2>3. CASE Len(posts) = 1
    BY <1>1, <1>2, <2>2, <2>3, Removed DEF Latest
  <2>4. CASE Len(posts) > 1
    BY <1>1, <1>2, <2>2, <2>4, Removed DEF Latest
  <2>5. Len(posts) = 1 \/ Len(posts) > 1
    <3>1. \A n \in Nat : n > 0 => n = 1 \/ n > 1
      OBVIOUS
    <3> QED
      BY <2>1, <3>1
  <2> QED
    BY <2>3, <2>4, <2>5
<1>4. ASSUME NEW t \in Threads, Agrees(t) PROVE Agrees(t)'
  BY <1>1, <1>3, <1>4 DEF Agrees, Apply
<1> QED
  BY <1>1, <1>3, <1>4 DEF AgreeInv

LEMMA AgreeInvStep == Types /\ HoldInv /\ ChangeInv /\ AgreeInv /\ [Next]_vars => AgreeInv'
<1> SUFFICES ASSUME Types, HoldInv, ChangeInv, AgreeInv, [Next]_vars PROVE AgreeInv'
  OBVIOUS
<1>1. ASSUME Alert \/ \E e \in Elements : Request(e) PROVE AgreeInv'
  <2>1. PICK l : Ask(Receiver, l)
    BY <1>1 DEF Alert, Request
  <2>2. at[Receiver] = "idle" /\ change[Receiver] = None
    BY <2>1, LockNames DEF Ask, Begin, ChangeInv, Changing
  <2>3. \A s \in Threads \ {Receiver} : at'[s] = at[s]
    BY <2>1 DEF Ask, Types
  <2> QED
    BY <2>1, <2>2, <2>3, AgreeKept DEF Ask, stateVars, historyVars, copies
<1>2. CASE UNCHANGED vars
  BY <1>2, AgreeKept DEF vars, stateVars, historyVars, copies
<1>3. CASE RequestFails \/ AlertNotReceived
  BY <1>3, AgreeBegun, StateChangeNames, LockNames DEF RequestFails, AlertNotReceived, SetState
<1> QED
  BY <1>1, <1>2, <1>3, AgreeCall, AgreeStep, AgreeTaken, NextCases

(* After changes made one at a time the three copies of the state are what *)
(* these make it one after the other, but for a message that was overtaken *)
(* on its way: StateAgrees of the runs (SlowControl).                      *)
THEOREM CopiesAgree == Spec => []StateAgrees
<1>1. AgreeInv => StateAgrees
  BY DEF AgreeInv, StateAgrees, Announced, Latest
<1> QED
  BY InitHolds, ChangeInvInit, HoldInvStep, TypesInvStep, ChangeInvStep, AgreeInit,
     AgreeInvStep, <1>1, PTL DEF Spec

----------------------------------------------------------------------------
(* Calls come to an end.  What a thread still has to do: release the locks *)
(* it has, take at most those it has not, and, if it is the receiver in a  *)
(* request, set Warning after the request failed.                          *)

HeldBy(t) == {l \in Locks : mtx[l] = t}
LocksHeld(t) == Cardinality(HeldBy(t))
LocksLeft(t) == Cardinality(Locks \ HeldBy(t))
AllLocks == Cardinality(Locks)

LocksToTake(t) ==
  IF at[t] \in {"lock", "function"} \cup Changing THEN LocksLeft(t) ELSE 0

MayWarn(t) ==
  /\ t = Receiver /\ at[t] # "idle"
  /\ change[t] = None \/ \E l \in HeldBy(t) : l # State

StepsHere(t) ==
  IF at[t] = "function" THEN 6
  ELSE IF at[t] = "read" THEN 5
  ELSE IF at[t] = "write" THEN 4
  ELSE IF at[t] = "port" THEN 3
  ELSE IF at[t] = "value" THEN 2
  ELSE IF at[t] = "lock" THEN 1
  ELSE 0

ToWarn(t) == IF MayWarn(t) THEN 7 * AllLocks + 12 ELSE 0

CallRank(t) ==
  LocksHeld(t) + 7 * LocksToTake(t) + StepsHere(t) + ToWarn(t)

CallGoesOn(t) ==
  at[t] # "idle" =>
    /\ CallRank(t) \in Nat \ {0}
    /\ IF Step(t)
       THEN CallRank(t)' < CallRank(t) /\ (CallRank(t)' = 0 <=> at'[t] = "idle")
       ELSE UNCHANGED CallRank(t)

RankInv == \A t \in Threads : CallRank(t) \in Nat /\ (CallRank(t) = 0 <=> at[t] = "idle")

LEMMA HeldUnchanged ==
  ASSUME UNCHANGED mtx, NEW t
  PROVE  HeldBy(t)' = HeldBy(t)
BY DEF HeldBy

LEMMA HeldWhenLocked ==
  ASSUME Types, HoldInv, NEW t \in Threads, Lock(t)
  PROVE  /\ want[t] \in Locks /\ want[t] \notin HeldBy(t)
         /\ HeldBy(t)' = HeldBy(t) \cup {want[t]}
         /\ \A u \in Threads \ {t} : HeldBy(u)' = HeldBy(u)
<1>1. want[t] \in Locks /\ mtx[want[t]] = None
  BY DEF Lock, HoldInv, ThreadOK, Types
<1>2. /\ mtx'[want[t]] = t
      /\ \A l \in Locks \ {want[t]} : mtx'[l] = mtx[l]
  BY <1>1 DEF Lock, Types
<1> QED
  BY <1>1, <1>2, LockNames DEF HeldBy

LEMMA HeldWhenReleased ==
  ASSUME Types, HoldInv, NEW t \in Threads, Unlock(t), at[t] \in {"function", "returned"}
  PROVE  /\ inner[t] \in HeldBy(t)
         /\ HeldBy(t)' = HeldBy(t) \ {inner[t]}
         /\ \A u \in Threads \ {t} : HeldBy(u)' = HeldBy(u)
<1>1. inner[t] \in Locks /\ mtx[inner[t]] = t
  BY DEF HoldInv, ThreadOK, Types
<1>2. /\ mtx'[inner[t]] = None
      /\ \A l \in Locks \ {inner[t]} : mtx'[l] = mtx[l]
  BY <1>1 DEF Unlock, Types
<1> QED
  BY <1>1, <1>2, LockNames DEF HeldBy

LEMMA StepsByKind ==
  ASSUME NEW t \in Threads, Step(t)
  PROVE  \/ Lock(t)
         \/ /\ Unlock(t) /\ at[t] \in {"function", "returned"}
            /\ Return(t) \/ Throw(t) \/ StoreValue(t)
         \/ /\ UNCHANGED mtx
            /\ \/ \E l \in Locks : Touch(t, l)
               \/ ReadState(t) \/ WriteState(t) \/ AddPort(t) \/ AskValue(t)
               \/ \E c \in Changes : ChangeWithin(t, c)
               \/ t = Receiver /\ AlertFails
BY DEF Step, Return, Throw, StoreValue, Touch, ChangeWithin, ReadState, WriteState,
       AddPort, AskValue, AlertFails, lockVars

(* What a thread does leaves the locks and the place of the others.        *)
LEMMA OthersUndisturbed ==
  ASSUME Types, HoldInv, NEW t \in Threads, Step(t), NEW u \in Threads \ {t}
  PROVE  /\ HeldBy(u)' = HeldBy(u)
         /\ at'[u] = at[u] /\ want'[u] = want[u] /\ inner'[u] = inner[u]
         /\ change'[u] = change[u]
<1>1. HeldBy(u)' = HeldBy(u)
  BY StepsByKind, HeldWhenLocked, HeldWhenReleased, HeldUnchanged
<1>2. at'[u] = at[u] /\ want'[u] = want[u] /\ inner'[u] = inner[u]
  BY DEF Step, Lock, Unlock, Return, Throw, StoreValue, Touch, ChangeWithin, ReadState,
         WriteState, AddPort, AskValue, AlertFails, lockVars, Types
<1>3. change'[u] = change[u]
  BY DEF Step, Lock, Return, Throw, StoreValue, Touch, ChangeWithin, ReadState,
         WriteState, AddPort, AskValue, AlertFails, ChangeBegins, Types
<1> QED
  BY <1>1, <1>2, <1>3

LEMMA RankUnchanged ==
  ASSUME NEW t \in Threads, HeldBy(t)' = HeldBy(t),
         at'[t] = at[t], want'[t] = want[t], inner'[t] = inner[t], change'[t] = change[t]
  PROVE  UNCHANGED CallRank(t)
<1>1. LocksToTake(t)' = LocksToTake(t) /\ StepsHere(t)' = StepsHere(t)
  BY DEF LocksToTake, LocksLeft, StepsHere
<1>2. MayWarn(t)' <=> MayWarn(t)
  BY DEF MayWarn
<1> QED
  BY <1>1, <1>2 DEF CallRank, ToWarn, LocksHeld

LEMMA SetsOfLocks ==
  ASSUME NEW H \in SUBSET Locks
  PROVE  /\ IsFiniteSet(H) /\ IsFiniteSet(Locks \ H)
         /\ Cardinality(Locks) \in Nat /\ Cardinality(H) \in Nat
         /\ Cardinality(Locks \ H) \in Nat
<1>1. IsFiniteSet(Locks)
  <2>1. Locks = (Elements \cup {State}) \cup {Alerts}
    BY DEF Locks
  <2> QED
    BY <2>1, ElementsOK, FS_AddElement
<1>2. IsFiniteSet(H) /\ IsFiniteSet(Locks \ H)
  BY <1>1, FS_Subset
<1> QED
  BY <1>1, <1>2, FS_CardinalityType

LEMMA RankParts ==
  ASSUME NEW t \in Threads
  PROVE  /\ AllLocks \in Nat /\ LocksHeld(t) \in Nat /\ LocksLeft(t) \in Nat
         /\ LocksToTake(t) \in Nat /\ StepsHere(t) \in 0..6
<1>1. HeldBy(t) \in SUBSET Locks
  BY DEF HeldBy
<1>2. AllLocks \in Nat /\ LocksHeld(t) \in Nat /\ LocksLeft(t) \in Nat
  BY <1>1, SetsOfLocks DEF AllLocks, LocksHeld, LocksLeft
<1>3. LocksToTake(t) \in Nat /\ StepsHere(t) \in 0..6
  BY <1>2 DEF LocksToTake, StepsHere
<1> QED
  BY <1>2, <1>3

LEMMA RankIsPositive ==
  ASSUME Types, HoldInv, NEW t \in Threads
  PROVE  /\ CallRank(t) \in Nat
         /\ CallRank(t) = 0 <=> at[t] = "idle"
<1>1. ToWarn(t) \in Nat
  BY RankParts DEF ToWarn
<1>2. CallRank(t) \in Nat
  BY <1>1, RankParts DEF CallRank
<1>3. CASE at[t] = "idle"
  <2>1. HeldBy(t) = {}
    BY <1>3 DEF HeldBy, HoldInv, ThreadOK
  <2>2. LocksToTake(t) = 0 /\ StepsHere(t) = 0 /\ ToWarn(t) = 0
    BY <1>3 DEF LocksToTake, StepsHere, ToWarn, MayWarn, Changing
  <2>3. LocksHeld(t) = 0
    BY <2>1, FS_EmptySet DEF LocksHeld
  <2> QED
    BY <1>2, <1>3, <2>2, <2>3 DEF CallRank
<1>4. CASE at[t] = "returned"
  <2>1. inner[t] \in HeldBy(t)
    BY <1>4 DEF HeldBy, HoldInv, ThreadOK, Types
  <2>2. LocksHeld(t) # 0
    <3>1. HeldBy(t) \in SUBSET Locks
      BY DEF HeldBy
    <3> QED
      BY <2>1, <3>1, SetsOfLocks, FS_EmptySet DEF LocksHeld
  <2> QED
    BY <1>1, <1>2, <1>4, <2>2, RankParts DEF CallRank
<1>5. CASE at[t] \notin {"idle", "returned"}
  <2>1. StepsHere(t) # 0
    BY <1>5 DEF StepsHere, Types, Places
  <2> QED
    BY <1>1, <1>2, <1>5, <2>1, RankParts DEF CallRank
<1> QED
  BY <1>3, <1>4, <1>5

(* The part of the rank for the warning is gone when it is given.          *)
LEMMA RankWhenReleased ==
  ASSUME Types, HoldInv, ChangeInv, NEW t \in Threads,
         Return(t) \/ Throw(t) \/ StoreValue(t), Unlock(t),
         at[t] \in {"function", "returned"},
         LocksHeld(t) \in Nat,
         LocksHeld(t)' = LocksHeld(t) - 1
  PROVE  CallRank(t)' < CallRank(t)
<1> USE DEF Changing
<1>1. ThreadOK(t) /\ inner[t] \in Locks /\ NestOK(inner[t]) /\ Outside(t) \in {"idle", "returned"}
  BY DEF HoldInv, ThreadOK, Types, Outside
<1>2. inner[t] # State => change[t] = None
  BY DEF ChangeInv
<1>3. CASE at'[t] = Outside(t)
  <2>1. LocksToTake(t)' = 0 /\ StepsHere(t)' = 0
    BY <1>1, <1>3 DEF LocksToTake, StepsHere
  <2>2. MayWarn(t)' => MayWarn(t)
    <3>1. CASE inner[t] # State
      BY <1>2, <3>1 DEF MayWarn
    <3>2. CASE inner[t] = State
      <4>1. SUFFICES ASSUME at'[t] # "idle", t = Receiver PROVE MayWarn(t)
        BY DEF MayWarn
      <4>2. outer[State] # None
        BY <1>3, <3>2, <4>1 DEF Outside
      <4>3. mtx[outer[State]] = t /\ outer[State] # State /\ outer[State] \in Locks
        BY <1>1, <3>2, <4>2, LockNames DEF NestOK, ThreadOK, Types
      <4> QED
        BY <4>1, <4>3 DEF MayWarn, HeldBy
    <3> QED
      BY <3>1, <3>2
  <2>3. ToWarn(t)' \in Nat /\ ToWarn(t) \in Nat /\ ToWarn(t)' <= ToWarn(t)
    BY <2>2, RankParts DEF ToWarn
  <2> QED
    BY <2>1, <2>3, RankParts DEF CallRank
<1>4. CASE at'[t] # Outside(t)
  <2>1. /\ t = Receiver /\ Outside(t) = "idle" /\ inner[t] # State
        /\ at' = [at EXCEPT ![t] = "read"]
        /\ ChangeBegins(t, SetFlag("Warning"))
    BY <1>1, <1>4, LockNames DEF Return, Throw, StoreValue, Types
  <2>2. at'[t] = "read" /\ change'[t] # None
    BY <2>1, StateChangeNames DEF ChangeBegins, Types
  <2>3. PICK depth \in [Locks -> Nat] : \A k \in Locks : ChainOK(k, depth)
    BY DEF HoldInv
  <2>4. ASSUME NEW l \in HeldBy(t)' PROVE FALSE
    <3>1. l \in HeldBy(t) /\ l # inner[t]
      BY <2>4, HeldWhenReleased
    <3>2. mtx[l] = t /\ l \in Locks /\ t # None
      BY <3>1, LockNames DEF HeldBy
    <3>3. depth[l] < depth[inner[t]]
      BY <2>3, <3>1, <3>2 DEF ChainOK
    <3>4. outer[inner[t]] = None /\ mtx[inner[t]] = t
      BY <1>1, <2>1, LockNames DEF Outside, ThreadOK
    <3>5. depth[inner[t]] < depth[l]
      BY <1>1, <2>3, <3>1, <3>2, <3>4 DEF ChainOK
    <3> QED
      BY <1>1, <2>3, <3>2, <3>3, <3>5
  <2>5. ToWarn(t)' = 0
    BY <2>2, <2>4 DEF ToWarn, MayWarn
  <2>6. ToWarn(t) = 7 * AllLocks + 12
    BY <1>2, <2>1 DEF ToWarn, MayWarn
  <2>7. HeldBy(t)' = {} /\ Locks \ {} = Locks
    BY <2>4
  <2>8. LocksToTake(t)' = AllLocks /\ StepsHere(t)' = 5
    BY <2>2, <2>7 DEF LocksToTake, StepsHere, LocksLeft, AllLocks
  <2>9. LocksHeld(t)' = 0
    BY <2>7, FS_EmptySet DEF LocksHeld
  <2> QED
    BY <2>5, <2>6, <2>8, <2>9, RankParts DEF CallRank
<1> QED
  BY <1>3, <1>4

LEMMA RankFalls ==
  ASSUME Types, HoldInv, ChangeInv, NEW t \in Threads, Step(t)
  PROVE  CallRank(t)' < CallRank(t)
<1> USE DEF Changing
<1>1. ThreadOK(t) /\ IsFiniteSet(HeldBy(t)) /\ IsFiniteSet(Locks \ HeldBy(t))
  <2>1. HeldBy(t) \in SUBSET Locks
    BY DEF HeldBy
  <2> QED
    BY <2>1, SetsOfLocks DEF HoldInv
<1>2. ASSUME UNCHANGED mtx, at'[t] # "idle", NEW b \in Nat,
             LocksToTake(t)' = LocksToTake(t),
             StepsHere(t)' = b, b < StepsHere(t),
             MayWarn(t)' => MayWarn(t)
      PROVE  CallRank(t)' < CallRank(t)
  <2>1. LocksHeld(t)' = LocksHeld(t)
    BY <1>2, HeldUnchanged DEF LocksHeld
  <2>2. ToWarn(t)' \in Nat /\ ToWarn(t) \in Nat /\ ToWarn(t)' <= ToWarn(t)
    BY <1>2, RankParts DEF ToWarn
  <2> QED
    BY <1>2, <2>1, <2>2, RankParts DEF CallRank
<1>3. UNCHANGED <<mtx, change>> /\ at[t] # "idle" => (MayWarn(t)' => MayWarn(t))
  BY HeldUnchanged DEF MayWarn
<1>4. CASE Lock(t)
  <2>1. /\ at[t] = "lock" /\ at'[t] = "function" /\ inner'[t] = want[t] /\ change' = change
    BY <1>4 DEF Lock, Types
  <2>2. LocksHeld(t)' = LocksHeld(t) + 1
    BY <1>1, <1>4, HeldWhenLocked, FS_AddElement DEF LocksHeld
  <2>3. LocksLeft(t)' = LocksLeft(t) - 1
    <3>1. want[t] \in Locks \ HeldBy(t)
      BY <1>4, HeldWhenLocked
    <3>2. Locks \ HeldBy(t)' = (Locks \ HeldBy(t)) \ {want[t]}
      BY <1>4, HeldWhenLocked
    <3> QED
      BY <1>1, <3>1, <3>2, FS_RemoveElement DEF LocksLeft
  <2>4. /\ LocksToTake(t)' = LocksToTake(t) - 1
        /\ StepsHere(t) = 1 /\ StepsHere(t)' = 6
    BY <2>1, <2>3 DEF LocksToTake, StepsHere
  <2>5. MayWarn(t)' => MayWarn(t)
    <3>1. change[t] # None => want[t] = State
      BY <2>1 DEF ChangeInv
    <3> QED
      BY <1>4, <2>1, <3>1, HeldWhenLocked DEF MayWarn
  <2>6. ToWarn(t)' \in Nat /\ ToWarn(t) \in Nat /\ ToWarn(t)' <= ToWarn(t)
    BY <2>5, RankParts DEF ToWarn
  <2> QED
    BY <2>2, <2>4, <2>6, RankParts DEF CallRank
<1>5. CASE /\ Unlock(t) /\ at[t] \in {"function", "returned"}
           /\ Return(t) \/ Throw(t) \/ StoreValue(t)
  <2>1. LocksHeld(t)' = LocksHeld(t) - 1
    BY <1>1, <1>5, HeldWhenReleased, FS_RemoveElement DEF LocksHeld
  <2> QED
    BY <1>5, <2>1, RankParts, RankWhenReleased
<1>6. ASSUME NEW l \in Locks, Touch(t, l) PROVE CallRank(t)' < CallRank(t)
  <2>1. at[t] = "function" /\ at'[t] = "lock" /\ UNCHANGED <<mtx, change>>
    BY <1>6 DEF Touch, InFunction, Types
  <2>2. /\ LocksToTake(t)' = LocksToTake(t)
        /\ StepsHere(t) = 6 /\ StepsHere(t)' = 1
    BY <2>1, HeldUnchanged DEF LocksToTake, LocksLeft, StepsHere
  <2> QED
    BY <1>2, <1>3, <2>1, <2>2
<1>7. ASSUME UNCHANGED mtx, InFunction(t), at' = [at EXCEPT ![t] = "read"]
      PROVE  CallRank(t)' < CallRank(t)
  <2>1. at[t] = "function" /\ at'[t] = "read" /\ inner[t] # State
    BY <1>7 DEF InFunction, Types
  <2>2. /\ LocksToTake(t)' = LocksToTake(t)
        /\ StepsHere(t) = 6 /\ StepsHere(t)' = 5
    BY <1>7, <2>1, HeldUnchanged DEF LocksToTake, LocksLeft, StepsHere
  <2>3. change[t] = None
    BY <2>1 DEF ChangeInv
  <2>4. MayWarn(t)' => MayWarn(t)
    BY <2>1, <2>3 DEF MayWarn
  <2> QED
    BY <1>2, <1>7, <2>1, <2>2, <2>4
<1>8. CASE (\E c \in Changes : ChangeWithin(t, c)) \/ (t = Receiver /\ AlertFails)
  BY <1>7, <1>8 DEF ChangeWithin, AlertFails, lockVars
<1>9. CASE ReadState(t) \/ WriteState(t) \/ AddPort(t) \/ AskValue(t)
  <2>1. /\ UNCHANGED <<mtx, change>>
        /\ \/ at[t] = "read" /\ at'[t] = "write"
           \/ at[t] = "write" /\ at'[t] = "port"
           \/ at[t] = "port" /\ at'[t] = "value"
           \/ at[t] = "value" /\ at'[t] = "lock" /\ want'[t] = State
    BY <1>9 DEF ReadState, WriteState, AddPort, AskValue, lockVars, Types
  <2>2. /\ LocksToTake(t)' = LocksToTake(t)
        /\ StepsHere(t)' \in Nat /\ StepsHere(t)' < StepsHere(t)
    BY <2>1, HeldUnchanged DEF LocksToTake, LocksLeft, StepsHere
  <2> QED
    BY <1>2, <1>3, <2>1, <2>2, RankParts
<1> QED
  BY <1>4, <1>5, <1>6, <1>8, <1>9, StepsByKind

LEMMA CallGoesOnStep ==
  ASSUME Types, HoldInv, ChangeInv, [Next]_vars,
         RankInv, RankInv', NEW t \in Threads
  PROVE  CallGoesOn(t)
<1> SUFFICES ASSUME at[t] # "idle"
             PROVE  /\ CallRank(t) \in Nat \ {0}
                    /\ Step(t) => /\ CallRank(t)' < CallRank(t)
                                  /\ (CallRank(t)' = 0 <=> at'[t] = "idle")
                    /\ ~Step(t) => UNCHANGED CallRank(t)
  BY Zenon DEF CallGoesOn
<1>1. CallRank(t) \in Nat \ {0}
  BY DEF RankInv
<1>2. CallRank(t)' = 0 <=> at'[t] = "idle"
  BY DEF RankInv
<1>3. ASSUME ~Step(t) PROVE UNCHANGED CallRank(t)
  <2>1. ASSUME NEW u \in Threads, Step(u) PROVE UNCHANGED CallRank(t)
    BY <1>3, <2>1, OthersUndisturbed, RankUnchanged
  <2>2. ASSUME NEW u \in Threads, u # t, UNCHANGED <<mtx, inner>>,
               NEW f, NEW g, NEW h, at' = [at EXCEPT ![u] = f],
               want' = want \/ want' = [want EXCEPT ![u] = g],
               change' = change \/ change' = [change EXCEPT ![u] = h]
        PROVE  UNCHANGED CallRank(t)
    <3>1. at'[t] = at[t] /\ want'[t] = want[t] /\ change'[t] = change[t]
      BY <2>2 DEF Types
    <3> QED
      BY <2>2, <3>1, HeldUnchanged, RankUnchanged
  <2>3. ASSUME NEW u \in Users, Call(u) PROVE UNCHANGED CallRank(t)
    <3>1. u \in Threads /\ at[u] = "idle"
      BY <2>3, LockNames DEF Call, SetValue, AlertSubscribe, Ask, SetState, StartUp, Begin
    <3>2. ASSUME NEW l, Ask(u, l) PROVE UNCHANGED CallRank(t)
      BY <2>2, <3>1, <3>2 DEF Ask
    <3>3. ASSUME NEW c, SetState(u, c) PROVE UNCHANGED CallRank(t)
      BY <2>2, <3>1, <3>3 DEF SetState, ChangeBegins, lockVars
    <3>4. CASE StartUp(u)
      BY <2>2, <3>1, <3>4 DEF StartUp
    <3> QED
      BY <2>3, <3>2, <3>3, <3>4 DEF Call, SetValue, AlertSubscribe
  <2>4. ASSUME NEW l, Ask(Receiver, l) PROVE UNCHANGED CallRank(t)
    <3>1. at[Receiver] = "idle" /\ Receiver \in Threads
      BY <2>4, LockNames DEF Ask, Begin
    <3> QED
      BY <2>2, <2>4, <3>1 DEF Ask
  <2>5. ASSUME NEW c, SetState(Receiver, c) PROVE UNCHANGED CallRank(t)
    <3>1. at[Receiver] = "idle" /\ Receiver \in Threads
      BY <2>5, LockNames DEF SetState, Begin
    <3> QED
      BY <2>2, <2>5, <3>1 DEF SetState, ChangeBegins, lockVars
  <2>6. CASE UNCHANGED vars \/ \E i \in DOMAIN posts : TakePort(i)
    <3>1. UNCHANGED <<mtx, at, want, inner, change>>
      BY <2>6 DEF vars, lockVars, TakePort
    <3> QED
      BY <3>1, HeldUnchanged, RankUnchanged
  <2> QED
    BY <2>1, <2>3, <2>4, <2>5, <2>6, NextCases DEF Request, Alert, RequestFails, AlertNotReceived
<1> QED
  BY <1>1, <1>2, <1>3, RankFalls

(* A call takes a bounded number of its thread's own steps, whatever the   *)
(* user's functions touch and whichever of them fail, and no step of       *)
(* another thread adds to them: with OnlyFunctionsDeadlock, the safety     *)
(* half of CallsReturn (SlowControl).                                      *)
THEOREM CallsRunDown == Spec => [][\A t \in Threads : CallGoesOn(t)]_vars
<1> DEFINE Inv == Types /\ HoldInv /\ ChangeInv
<1>1. Init => Inv
  BY InitHolds, ChangeInvInit
<1>2. Inv /\ [Next]_vars => Inv'
  BY HoldInvStep, TypesInvStep, ChangeInvStep
<1>3. Inv => RankInv
  BY RankIsPositive DEF RankInv
<1>4. Inv /\ RankInv /\ RankInv' /\ [Next]_vars =>
        [\A t \in Threads : CallGoesOn(t)]_vars
  BY CallGoesOnStep
<1> HIDE DEF Inv
<1> QED
  BY <1>1, <1>2, <1>3, <1>4, PTL DEF Spec
============================================================================
