-------------------------- MODULE NodeDaemonProofs --------------------------
(***************************************************************************)
(* Proofs about NodeDaemon, for any process ids and any number of starts.  *)
(***************************************************************************)
EXTENDS NodeDaemon, SequenceTheorems, TLAPS

LEMMA NextUnfolds ==
  ASSUME Next
  PROVE  \/ \E p \in Ids, kind \in {"program", "stray"} : StartLine(p, kind)
         \/ \E p \in Ids, kind \in {"program", "stray"} : StartRequest(p, kind)
         \/ \E p \in Ids, kind \in {"program", "stray"} : Restart(p, kind)
         \/ FileRead
         \/ ForkFails
         \/ \E for \in {"stop", "restart", "kill"} : BeginFStop(for)
         \/ Term \/ Kill \/ Erase \/ Reap \/ StopReturns \/ KillReturns
         \/ \E p \in Ids : ProcessEnds(p)
         \/ \E p \in Ids : AlienStarts(p)
         \/ \E p, s \in Ids, kind \in {"program", "stray"} : StrayStarts(s, p, kind)
BY DEF Next, Starting, FStop, Node

LEMMA Removed ==
  ASSUME NEW S, NEW s \in Seq(S), NEW n \in DOMAIN s
  PROVE  /\ RemoveAt(s, n) \in Seq(S)
         /\ Len(RemoveAt(s, n)) = Len(s) - 1
         /\ \A j \in 1..(Len(s) - 1) :
              RemoveAt(s, n)[j] = IF j < n THEN s[j] ELSE s[j + 1]
<1> DEFINE a == SubSeq(s, 1, n - 1)
           b == SubSeq(s, n + 1, Len(s))
<1>1. Len(s) \in Nat /\ n \in 1..Len(s)
  OBVIOUS
<1>2. /\ a \in Seq(S) /\ Len(a) = n - 1
      /\ \A j \in 1..(n - 1) : a[j] = s[j]
  BY <1>1, SubSeqProperties
<1>3. /\ b \in Seq(S) /\ Len(b) = Len(s) - n
      /\ \A j \in 1..(Len(s) - n) : b[j] = s[n + j]
  <2>1. CASE n = Len(s)
    <3>1. b = <<>>
      BY <1>1, <2>1
    <3> QED
      BY <1>1, <2>1, <3>1
  <2>2. CASE n < Len(s)
    BY <1>1, <2>2, SubSeqProperties
  <2> QED
    BY <1>1, <2>1, <2>2
<1> HIDE DEF a, b
<1>4. RemoveAt(s, n) = a \o b
  BY DEF RemoveAt, a, b
<1>5. /\ a \o b \in Seq(S) /\ Len(a \o b) = Len(a) + Len(b)
      /\ \A j \in 1..(Len(a) + Len(b)) :
           (a \o b)[j] = IF j <= Len(a) THEN a[j] ELSE b[j - Len(a)]
  BY <1>2, <1>3, ConcatProperties
<1>6. ASSUME NEW j \in 1..(Len(s) - 1)
      PROVE  (a \o b)[j] = IF j < n THEN s[j] ELSE s[j + 1]
  <2>0. j \in 1..(Len(a) + Len(b)) /\ Len(a) = n - 1
    BY <1>1, <1>2, <1>3
  <2>1. CASE j < n
    <3>1. j <= Len(a) /\ j \in 1..(n - 1)
      BY <1>1, <2>0, <2>1
    <3>2. (a \o b)[j] = a[j]
      BY <1>5, <2>0, <3>1
    <3> QED
      BY <1>2, <2>1, <3>1, <3>2
  <2>2. CASE j >= n
    <3>1. j - (n - 1) \in 1..(Len(s) - n) /\ ~(j <= Len(a))
      BY <1>1, <2>0, <2>2, SMTT(30)
    <3>2. (a \o b)[j] = b[j - (n - 1)]
      BY <1>5, <2>0, <3>1
    <3>3. b[j - (n - 1)] = s[j + 1]
      <4>1. n + (j - (n - 1)) = j + 1
        BY <1>1
      <4> QED
        BY <1>3, <3>1, <4>1, Zenon
    <3>4. ~(j < n)
      BY <1>1, <2>2
    <3> QED
      BY <3>2, <3>3, <3>4, Zenon
  <2>3. j < n \/ j >= n
    BY <1>1
  <2> QED
    BY <2>1, <2>2, <2>3
<1>7. Len(a) + Len(b) = Len(s) - 1
  BY <1>1, <1>2, <1>3
<1> QED
  BY <1>4, <1>5, <1>6, <1>7, SMTT(30)

----------------------------------------------------------------------------
(* Type correctness.                                                       *)

LEMMA TypeOKInit == Init => TypeOK
<1> SUFFICES ASSUME Init PROVE TypeOK
  OBVIOUS
<1>1. proc \in [Ids -> Kinds] /\ parent \in [Ids -> Ids \cup {Daemon, InitPid}]
  BY DEF Init, Kinds
<1>2. lines \in [Ids \cup {Daemon} -> 0..Lines] /\ starts \in 0..MaxStarts
  BY BoundsOK DEF Init
<1> QED
  BY <1>1, <1>2 DEF Init, TypeOK, Places

LEMMA ForkTypes ==
  ASSUME TypeOK, NEW p \in Ids, NEW by \in Ids \cup {Daemon}, NEW left \in 0..Lines,
         NEW kind, Fork(p, by, left, kind)
  PROVE  /\ proc' \in [Ids -> Kinds]
         /\ parent' \in [Ids -> Ids \cup {Daemon, InitPid}]
         /\ lines' \in [Ids \cup {Daemon} -> 0..Lines]
<1>1. proc' \in [Ids -> Kinds] /\ parent' \in [Ids -> Ids \cup {Daemon, InitPid}]
  BY DEF TypeOK, Fork, Kinds, Living
<1>2. left \in 0..Lines /\ 0 \in 0..Lines
  BY BoundsOK
<1>3. lines' \in [Ids \cup {Daemon} -> 0..Lines]
  BY <1>2, Zenon DEF TypeOK, Fork
<1> QED
  BY <1>1, <1>3

LEMMA StartTypes ==
  ASSUME TypeOK, NEW p \in Ids, NEW left \in 0..Lines, NEW kind, Start(p, left, kind)
  PROVE  /\ proc' \in [Ids -> Kinds]
         /\ parent' \in [Ids -> Ids \cup {Daemon, InitPid}]
         /\ lines' \in [Ids \cup {Daemon} -> 0..Lines]
         /\ pids' \in Seq(Ids)
<1>1. pids' \in Seq(Ids)
  BY DEF TypeOK, Start
<1> QED
  BY <1>1, ForkTypes DEF Start

LEMMA EndDaemonTypes ==
  ASSUME TypeOK, EndDaemon
  PROVE  /\ proc' \in [Ids -> Kinds]
         /\ parent' \in [Ids -> Ids \cup {Daemon, InitPid}]
         /\ at' \in Places /\ at' \notin {"kill", "erase"}
BY DEF TypeOK, EndDaemon, Kinds, Places

LEMMA TypeOKStep == TypeOK /\ [Next]_vars => TypeOK'
<1> SUFFICES ASSUME TypeOK, [Next]_vars PROVE TypeOK'
  OBVIOUS
<1> USE BoundsOK DEF osVars, loopVars
<1>1. ASSUME NEW p \in Ids, NEW kind \in {"program", "stray"}, StartLine(p, kind)
      PROVE  TypeOK'
  <2>1. lines[Daemon] - 1 \in 0..Lines
    BY <1>1 DEF StartLine, TypeOK
  <2> QED
    BY <1>1, <2>1, StartTypes DEF StartLine, TypeOK
<1>2. ASSUME NEW p \in Ids, NEW kind \in {"program", "stray"}, StartRequest(p, kind)
      PROVE  TypeOK'
  <2>1. 0 \in 0..Lines /\ starts' \in 0..MaxStarts
    BY <1>2 DEF StartRequest, TypeOK
  <2> QED
    BY <1>2, <2>1, StartTypes DEF StartRequest, TypeOK
<1>3. ASSUME NEW p \in Ids, NEW kind \in {"program", "stray"}, Restart(p, kind)
      PROVE  TypeOK'
  <2>1. 0 \in 0..Lines
    OBVIOUS
  <2>2. Start(p, 0, kind)
    BY <1>3 DEF Restart
  <2>3. /\ proc' \in [Ids -> Kinds]
        /\ parent' \in [Ids -> Ids \cup {Daemon, InitPid}]
        /\ lines' \in [Ids \cup {Daemon} -> 0..Lines]
        /\ pids' \in Seq(Ids)
    BY <2>1, <2>2, StartTypes
  <2> QED
    BY <1>3, <2>3 DEF Restart, TypeOK, Places
<1>4. CASE FileRead
  BY <1>4 DEF FileRead, TypeOK, Places
<1>5. CASE ForkFails
  BY <1>5, EndDaemonTypes DEF ForkFails, TypeOK
<1>6. ASSUME NEW for \in {"stop", "restart", "kill"}, BeginFStop(for)
      PROVE  TypeOK'
  <2>1. starts' \in 0..MaxStarts
    BY <1>6 DEF BeginFStop, TypeOK
  <2> QED
    BY <1>6, <2>1 DEF BeginFStop, TypeOK, Places
<1>7. CASE Term
  <2>1. pids[i] \in Ids
    BY <1>7 DEF Term, TypeOK
  <2> QED
    BY <1>7, <2>1 DEF Term, TypeOK, Places
<1>8. CASE Kill
  <2>1. proc' \in [Ids -> Kinds]
    BY <1>8 DEF Kill, TypeOK, Kinds, Living
  <2> QED
    BY <1>8, <2>1 DEF Kill, TypeOK, Places
<1>9. CASE Erase
  <2>1. i \in DOMAIN pids /\ pids[i] \in Ids
    BY <1>9 DEF Erase, TypeOK
  <2>2. pids' \in Seq(Ids) /\ dead' \subseteq Ids
    BY <1>9, <2>1, Removed DEF Erase, TypeOK
  <2> QED
    BY <1>9, <2>2 DEF Erase, TypeOK, Places
<1>10. CASE Reap
  <2>1. proc' \in [Ids -> Kinds] /\ parent' \in [Ids -> Ids \cup {Daemon, InitPid}]
    BY <1>10 DEF Reap, Free, Zombies, TypeOK, Kinds
  <2> QED
    BY <1>10, <2>1 DEF Reap, TypeOK, Places
<1>11. CASE StopReturns
  BY <1>11 DEF StopReturns, EndLoop, TypeOK, Places
<1>12. CASE KillReturns
  BY <1>12, EndDaemonTypes DEF KillReturns, EndLoop, TypeOK
<1>13. ASSUME NEW p \in Ids, ProcessEnds(p) PROVE TypeOK'
  <2>1. proc' \in [Ids -> Kinds] /\ parent' \in [Ids -> Ids \cup {Daemon, InitPid}]
    BY <1>13 DEF ProcessEnds, TypeOK, Kinds
  <2>2. lines' \in [Ids \cup {Daemon} -> 0..Lines]
    BY <1>13 DEF ProcessEnds, TypeOK
  <2> QED
    BY <1>13, <2>1, <2>2 DEF ProcessEnds, TypeOK
<1>14. ASSUME NEW p \in Ids, AlienStarts(p) PROVE TypeOK'
  BY <1>14 DEF AlienStarts, TypeOK, Kinds, Living
<1>15. ASSUME NEW s \in Ids, NEW p \in Ids, NEW kind, StrayStarts(s, p, kind)
       PROVE  TypeOK'
  <2>1. lines[s] - 1 \in 0..Lines
    BY <1>15 DEF StrayStarts, TypeOK
  <2> QED
    BY <1>15, <2>1, ForkTypes DEF StrayStarts, TypeOK
<1>16. CASE UNCHANGED vars
  BY <1>16 DEF vars, TypeOK
<1> QED
  BY <1>1, <1>2, <1>3, <1>4, <1>5, <1>6, <1>7, <1>8, <1>9, <1>10, <1>11, <1>12,
     <1>13, <1>14, <1>15, <1>16, NextUnfolds

(* Every variable keeps its type, and the loop of FStop stays within the   *)
(* table while entries are erased from it.                                 *)
THEOREM TypeCorrect == Spec => []TypeOK
BY TypeOKInit, TypeOKStep, PTL DEF Spec

----------------------------------------------------------------------------
(* The table.  What is erased stands for no process, and no process that   *)
(* is gone is anybody's child but init's.                                  *)

FreeInv == \A p \in Ids : proc[p] = "free" => parent[p] = InitPid

TableInv == FreeInv /\ ChildrenListed

LEMMA TableInvInit == Init => TableInv
BY NamesOK DEF Init, TableInv, FreeInv, ChildrenListed

LEMMA TableInvStart ==
  ASSUME TypeOK, TableInv, NEW p \in Ids, NEW left, NEW kind, Start(p, left, kind)
  PROVE  TableInv'
<1>1. FreeInv'
  BY DEF Start, Fork, TypeOK, TableInv, FreeInv
<1>2. /\ \A k \in DOMAIN pids : k \in DOMAIN pids' /\ pids'[k] = pids[k]
      /\ \E k \in DOMAIN pids' : pids'[k] = p
  <2>1. Len(pids) \in Nat /\ Len(pids') = Len(pids) + 1
    BY DEF Start, TypeOK
  <2>2. pids'[Len(pids) + 1] = p /\ \A k \in 1..Len(pids) : pids'[k] = pids[k]
    BY DEF Start, TypeOK
  <2>3. DOMAIN pids = 1..Len(pids) /\ DOMAIN pids' = 1..(Len(pids) + 1)
    BY <2>1, StartTypes DEF Start, TypeOK
  <2> QED
    BY <2>1, <2>2, <2>3
<1>3. \A q \in Ids : parent'[q] = Daemon => q = p \/ parent[q] = Daemon
  BY DEF Start, Fork, TypeOK
<1>4. ChildrenListed'
  BY <1>2, <1>3 DEF TableInv, ChildrenListed
<1> QED
  BY <1>1, <1>4 DEF TableInv

(* A step that leaves the table alone and makes no child of the daemon.    *)
LEMMA TableInvKept ==
  ASSUME TypeOK, TableInv, pids' = pids,
         \A p \in Ids : parent'[p] = Daemon => parent[p] = Daemon,
         \A p \in Ids : proc'[p] = "free" => parent'[p] = InitPid
  PROVE  TableInv'
BY DEF TableInv, FreeInv, ChildrenListed

LEMMA TableInvEndDaemon ==
  ASSUME TypeOK, TableInv, EndDaemon, pids' = pids
  PROVE  TableInv'
<1>1. \A p \in Ids : parent'[p] # Daemon
  BY NamesOK DEF EndDaemon
<1>2. \A p \in Ids : proc'[p] = "free" => parent'[p] = InitPid
  BY DEF EndDaemon, TableInv, FreeInv
<1> QED
  BY <1>1, <1>2, TableInvKept

LEMMA TableInvStep == TypeOK /\ TableInv /\ [Next]_vars => TableInv'
<1> SUFFICES ASSUME TypeOK, TableInv, [Next]_vars PROVE TableInv'
  OBVIOUS
<1> USE DEF osVars, loopVars
<1>1. ASSUME NEW p \in Ids, NEW kind \in {"program", "stray"},
             StartLine(p, kind) \/ StartRequest(p, kind) \/ Restart(p, kind)
      PROVE  TableInv'
  BY <1>1, TableInvStart DEF StartLine, StartRequest, Restart
<1>2. CASE FileRead
  BY <1>2 DEF FileRead, TableInv, FreeInv, ChildrenListed
<1>3. CASE ForkFails
  BY <1>3, TableInvEndDaemon DEF ForkFails
<1>4. ASSUME NEW for \in {"stop", "restart", "kill"}, BeginFStop(for)
      PROVE  TableInv'
  BY <1>4 DEF BeginFStop, TableInv, FreeInv, ChildrenListed
<1>5. CASE Term
  BY <1>5 DEF Term, TableInv, FreeInv, ChildrenListed
<1>6. CASE Kill
  <2>1. \A p \in Ids : proc'[p] = "free" => proc[p] = "free"
    BY <1>6 DEF Kill, TypeOK
  <2> QED
    BY <1>6, <2>1, TableInvKept DEF Kill, TableInv, FreeInv
<1>7. CASE Erase
  <2>1. CASE Exists(pids[i])
    BY <1>7, <2>1 DEF Erase, TableInv, FreeInv, ChildrenListed
  <2>2. CASE ~Exists(pids[i])
    <3>1. i \in DOMAIN pids /\ pids[i] \in Ids
      BY <1>7 DEF Erase, TypeOK
    <3>2. parent[pids[i]] # Daemon
      BY <2>2, <3>1, NamesOK DEF Exists, TableInv, FreeInv
    <3>3. ASSUME NEW p \in Ids, parent[p] = Daemon
          PROVE  \E k \in DOMAIN pids' : pids'[k] = p
      <4>1. PICK k \in DOMAIN pids : pids[k] = p
        BY <3>3 DEF TableInv, ChildrenListed
      <4>2. k # i
        BY <3>2, <3>3, <4>1
      <4>3. /\ pids' \in Seq(Ids) /\ Len(pids') = Len(pids) - 1
            /\ \A j \in 1..(Len(pids) - 1) :
                 pids'[j] = IF j < i THEN pids[j] ELSE pids[j + 1]
        <5>1. pids' = RemoveAt(pids, i) /\ pids \in Seq(Ids)
          BY <1>7, <2>2 DEF Erase, TypeOK
        <5> QED
          BY <3>1, <5>1, Removed
      <4>4. Len(pids) \in Nat /\ k \in 1..Len(pids) /\ i \in 1..Len(pids)
        BY <3>1 DEF TypeOK
      <4>5. CASE k < i
        BY <4>1, <4>3, <4>4, <4>5
      <4>6. CASE k > i
        <5>1. k - 1 \in 1..(Len(pids) - 1) /\ ~(k - 1 < i)
          BY <4>4, <4>6
        <5>2. pids'[k - 1] = pids[(k - 1) + 1]
          BY <4>3, <5>1
        <5>3. pids'[k - 1] = p /\ k - 1 \in DOMAIN pids'
          BY <4>1, <4>3, <4>4, <5>1, <5>2
        <5> QED
          BY <5>3
      <4> QED
        BY <4>2, <4>4, <4>5, <4>6
    <3> QED
      BY <1>7, <3>3 DEF Erase, TableInv, FreeInv, ChildrenListed
  <2> QED
    BY <2>1, <2>2
<1>8. CASE Reap
  <2>1. /\ \A p \in Ids : parent'[p] = Daemon => parent[p] = Daemon
        /\ \A p \in Ids : proc'[p] = "free" => parent'[p] = InitPid
    BY <1>8, NamesOK DEF Reap, Free, Zombies, TypeOK, TableInv, FreeInv
  <2> QED
    BY <1>8, <2>1, TableInvKept DEF Reap
<1>9. CASE StopReturns
  BY <1>9 DEF StopReturns, TableInv, FreeInv, ChildrenListed
<1>10. CASE KillReturns
  BY <1>10, TableInvEndDaemon DEF KillReturns
<1>11. ASSUME NEW p \in Ids, ProcessEnds(p) PROVE TableInv'
  <2>1. /\ \A q \in Ids : parent'[q] = Daemon => parent[q] = Daemon
        /\ \A q \in Ids : proc'[q] = "free" => parent'[q] = InitPid
    BY <1>11, NamesOK DEF ProcessEnds, TypeOK, TableInv, FreeInv
  <2> QED
    BY <1>11, <2>1, TableInvKept DEF ProcessEnds
<1>12. ASSUME NEW p \in Ids, AlienStarts(p) PROVE TableInv'
  <2>1. \A q \in Ids : proc'[q] = "free" => proc[q] = "free"
    BY <1>12 DEF AlienStarts, TypeOK
  <2> QED
    BY <1>12, <2>1, TableInvKept DEF AlienStarts, TableInv, FreeInv
<1>13. ASSUME NEW s \in Ids, NEW p \in Ids, NEW kind, StrayStarts(s, p, kind)
       PROVE  TableInv'
  <2>1. /\ \A q \in Ids : parent'[q] = Daemon => parent[q] = Daemon
        /\ \A q \in Ids : proc'[q] = "free" => parent'[q] = InitPid
    BY <1>13, NamesOK DEF StrayStarts, Fork, TypeOK, TableInv, FreeInv
  <2> QED
    BY <1>13, <2>1, TableInvKept DEF StrayStarts
<1>14. CASE UNCHANGED vars
  BY <1>14 DEF vars, TableInv, FreeInv, ChildrenListed
<1> QED
  BY <1>1, <1>2, <1>3, <1>4, <1>5, <1>6, <1>7, <1>8, <1>9, <1>10, <1>11, <1>12,
     <1>13, <1>14, NextUnfolds

(* No child of the daemon gets out of the table, and so out of the reach   *)
(* of FStop, whatever ends, is reaped, or takes over an id meanwhile.      *)
THEOREM ChildrenStayListed == Spec => []ChildrenListed
<1>1. TypeOK /\ TableInv /\ [Next]_vars => (TypeOK /\ TableInv)'
  BY TypeOKStep, TableInvStep
<1>2. TableInv => ChildrenListed
  BY DEF TableInv
<1> QED
  BY <1>1, <1>2, TypeOKInit, TableInvInit, PTL DEF Spec

----------------------------------------------------------------------------
(* The loop of FStop.  Every erased entry moves the rest of the table down *)
(* by one against what was listed when the loop began, and lets the loop   *)
(* pass over one entry.                                                    *)

InLoop == at \in {"term", "kill", "erase", "reap"}

Gone == Len(listed) - Len(pids)

Settled(k) == listed[k] \in dealt \/ (k > 1 /\ listed[k - 1] \in dealt \cap dead)

SettledUpTo(n) == \A k \in DOMAIN listed : k <= n => Settled(k)

SameFrom(n) == \A j \in DOMAIN pids : j >= n => pids[j] = listed[j + Gone]

LoopInv ==
  InLoop =>
    /\ Len(pids) <= Len(listed)
    /\ at = "reap" => SameFrom(i + 1) /\ SettledUpTo(i + Gone)
    /\ at # "reap" => SameFrom(i) /\ SettledUpTo(i + Gone - 1)
    /\ at \in {"kill", "erase"} => pids[i] \in dealt

LEMMA LoopKept ==
  ASSUME LoopInv, UNCHANGED <<pids, at, loopVars>>
  PROVE  LoopInv'
BY DEF loopVars, LoopInv, InLoop, Gone, SameFrom, SettledUpTo, Settled

LEMMA LoopInvTerm ==
  ASSUME TypeOK, LoopInv, Term
  PROVE  LoopInv'
<1>1. at = "term" /\ at' = "kill" /\ pids' = pids /\ i' = i /\ listed' = listed
  BY DEF Term
<1>2. SameFrom(i) /\ SettledUpTo(i + Gone - 1) /\ Len(pids) <= Len(listed)
  BY <1>1 DEF LoopInv, InLoop
<1>3. Gone' = Gone /\ SameFrom(i)'
  BY <1>1, <1>2 DEF Gone, SameFrom
<1>4. pids[i] \in dealt' /\ dealt \subseteq dealt' /\ dead' = dead
  BY DEF Term
<1>5. SettledUpTo(i + Gone - 1)'
  BY <1>1, <1>2, <1>3, <1>4 DEF SettledUpTo, Settled
<1> QED
  BY <1>1, <1>2, <1>3, <1>4, <1>5 DEF LoopInv

LEMMA LoopInvKill ==
  ASSUME TypeOK, LoopInv, Kill
  PROVE  LoopInv'
<1>1. /\ at = "kill" /\ at' = "erase" /\ pids' = pids /\ i' = i
      /\ listed' = listed /\ dealt' = dealt /\ dead' = dead
  BY DEF Kill, loopVars
<1>2. /\ SameFrom(i) /\ SettledUpTo(i + Gone - 1) /\ Len(pids) <= Len(listed)
      /\ pids[i] \in dealt
  BY <1>1 DEF LoopInv, InLoop
<1> QED
  BY <1>1, <1>2 DEF LoopInv, Gone, SameFrom, SettledUpTo, Settled

LEMMA LoopInvReap ==
  ASSUME TypeOK, LoopInv, Reap
  PROVE  LoopInv'
<1>1. /\ at = "reap" /\ at' = "term" /\ pids' = pids /\ i' = i + 1
      /\ listed' = listed /\ dealt' = dealt /\ dead' = dead
  BY DEF Reap
<1>2. SameFrom(i + 1) /\ SettledUpTo(i + Gone) /\ Len(pids) <= Len(listed)
  BY <1>1 DEF LoopInv, InLoop
<1>3. i \in Nat /\ Len(pids) \in Nat /\ Len(listed) \in Nat
  BY DEF TypeOK
<1>4. Gone' = Gone /\ Gone \in Nat
  BY <1>1, <1>2, <1>3 DEF Gone
<1>5. (i + Gone - 1)' = i + Gone
  BY <1>1, <1>3, <1>4
<1>6. SameFrom(i)' /\ SettledUpTo(i + Gone - 1)'
  BY <1>1, <1>2, <1>4, <1>5 DEF SameFrom, SettledUpTo, Settled
<1> QED
  BY <1>1, <1>2, <1>6 DEF LoopInv

LEMMA LoopInvErase ==
  ASSUME TypeOK, LoopInv, Erase
  PROVE  LoopInv'
<1>1. /\ at = "erase" /\ at' = "reap" /\ i' = i
      /\ listed' = listed /\ dealt' = dealt
  BY DEF Erase
<1>2. /\ SameFrom(i) /\ SettledUpTo(i + Gone - 1) /\ Len(pids) <= Len(listed)
      /\ pids[i] \in dealt
  BY <1>1 DEF LoopInv, InLoop
<1>3. /\ Len(pids) \in Nat /\ Len(listed) \in Nat /\ i \in 1..Len(pids)
      /\ DOMAIN pids = 1..Len(pids) /\ DOMAIN listed = 1..Len(listed)
      /\ pids \in Seq(Ids)
  BY <1>1 DEF TypeOK
<1>4. Gone \in Nat /\ i + Gone \in DOMAIN listed
  BY <1>2, <1>3 DEF Gone
<1>5. listed[i + Gone] = pids[i]
  BY <1>2, <1>3 DEF SameFrom
<1>6. SettledUpTo(i + Gone)
  <2>1. ASSUME NEW k \in DOMAIN listed, k <= i + Gone PROVE Settled(k)
    <3>1. k = i + Gone \/ k <= i + Gone - 1
      BY <1>3, <1>4, <2>1
    <3> QED
      BY <1>2, <1>5, <3>1 DEF SettledUpTo, Settled
  <2> QED
    BY <2>1 DEF SettledUpTo
<1>7. CASE Exists(pids[i])
  <2>1. pids' = pids /\ dead' = dead
    BY <1>7 DEF Erase
  <2>2. SameFrom(i + 1)
    BY <1>2, <1>3 DEF SameFrom
  <2>3. SameFrom(i + 1)' /\ SettledUpTo(i + Gone)'
    BY <1>1, <1>6, <2>1, <2>2 DEF Gone, SameFrom, SettledUpTo, Settled
  <2> QED
    BY <1>1, <1>2, <2>1, <2>3 DEF LoopInv
<1>8. CASE ~Exists(pids[i])
  <2>1. pids' = RemoveAt(pids, i) /\ dead' = dead \cup {pids[i]}
    BY <1>8 DEF Erase
  <2>2. /\ pids' \in Seq(Ids) /\ Len(pids') = Len(pids) - 1
        /\ \A j \in 1..(Len(pids) - 1) :
             pids'[j] = IF j < i THEN pids[j] ELSE pids[j + 1]
    BY <1>3, <2>1, Removed
  <2>3. Gone' = Gone + 1 /\ Len(pids') <= Len(listed')
    BY <1>1, <1>2, <1>3, <2>2 DEF Gone
  <2>4. SameFrom(i + 1)'
    <3>1. ASSUME NEW j \in DOMAIN pids', j >= i + 1
          PROVE  pids'[j] = listed[j + (Gone + 1)]
      <4>1. j \in 1..(Len(pids) - 1) /\ ~(j < i)
        BY <1>3, <2>2, <3>1
      <4>2. pids'[j] = pids[j + 1]
        BY <2>2, <4>1
      <4>3. j + 1 \in DOMAIN pids /\ j + 1 >= i
        BY <1>3, <3>1, <4>1
      <4>4. pids[j + 1] = listed[(j + 1) + Gone]
        BY <1>2, <4>3 DEF SameFrom
      <4>5. (j + 1) + Gone = j + (Gone + 1)
        BY <1>4, <4>1
      <4> QED
        BY <4>2, <4>4, <4>5
    <3> QED
      BY <1>1, <2>3, <3>1 DEF SameFrom
  <2>5. SettledUpTo(i + Gone)'
    <3>1. ASSUME NEW k \in DOMAIN listed, k <= i + (Gone + 1)
          PROVE  listed[k] \in dealt \/ (k > 1 /\ listed[k - 1] \in dealt \cap dead')
      <4>1. k <= i + Gone \/ k - 1 = i + Gone
        BY <1>3, <1>4, <3>1
      <4>2. CASE k <= i + Gone
        BY <1>6, <2>1, <4>2 DEF SettledUpTo, Settled
      <4>3. CASE k - 1 = i + Gone
        <5>1. k > 1
          BY <1>3, <1>4, <4>3
        <5>2. listed[k - 1] = pids[i]
          BY <1>5, <4>3
        <5> QED
          BY <1>2, <2>1, <5>1, <5>2
      <4> QED
        BY <4>1, <4>2, <4>3
    <3> QED
      BY <1>1, <2>3, <3>1 DEF SettledUpTo, Settled
  <2> QED
    BY <1>1, <2>3, <2>4, <2>5 DEF LoopInv
<1> QED
  BY <1>7, <1>8

LEMMA LoopInvStep == TypeOK /\ LoopInv /\ [Next]_vars => LoopInv'
<1> SUFFICES ASSUME TypeOK, LoopInv, [Next]_vars PROVE LoopInv'
  OBVIOUS
<1>1. ASSUME NEW p \in Ids, NEW kind \in {"program", "stray"},
             StartLine(p, kind) \/ StartRequest(p, kind) \/ Restart(p, kind)
      PROVE  LoopInv'
  <2>1. ~InLoop'
    BY <1>1 DEF StartLine, StartRequest, Restart, InLoop
  <2> QED
    BY <2>1 DEF LoopInv
<1>2. CASE FileRead \/ ForkFails \/ StopReturns \/ KillReturns
  <2>1. StopReturns \/ KillReturns => ~InLoop'
    BY DEF StopReturns, KillReturns, EndDaemon, InLoop
  <2>2. FileRead \/ ForkFails => ~InLoop'
    BY DEF FileRead, ForkFails, EndDaemon, InLoop
  <2> QED
    BY <1>2, <2>1, <2>2 DEF LoopInv
<1>3. ASSUME NEW for \in {"stop", "restart", "kill"}, BeginFStop(for)
      PROVE  LoopInv'
  <2>1. pids' = pids /\ listed' = pids /\ i' = 1 /\ at' = "term"
    BY <1>3 DEF BeginFStop
  <2>2. Len(pids) \in Nat /\ DOMAIN pids = 1..Len(pids)
    BY DEF TypeOK
  <2>3. Gone' = 0 /\ Len(pids') <= Len(listed')
    BY <2>1, <2>2 DEF Gone
  <2>4. SameFrom(i)'
    BY <2>1, <2>2, <2>3 DEF SameFrom
  <2>5. SettledUpTo(i + Gone - 1)'
    BY <2>1, <2>2, <2>3 DEF SettledUpTo
  <2> QED
    BY <2>1, <2>3, <2>4, <2>5 DEF LoopInv
<1>4. CASE Term \/ Kill \/ Erase \/ Reap
  BY <1>4, LoopInvTerm, LoopInvKill, LoopInvErase, LoopInvReap
<1>5. ASSUME NEW p \in Ids, NEW s \in Ids, NEW kind,
             ProcessEnds(p) \/ AlienStarts(p) \/ StrayStarts(s, p, kind)
      PROVE  LoopInv'
  <2>1. UNCHANGED <<pids, at, loopVars>>
    BY <1>5 DEF ProcessEnds, AlienStarts, StrayStarts
  <2> QED
    BY <2>1, LoopKept
<1>6. CASE UNCHANGED vars
  BY <1>6, LoopKept DEF vars
<1> QED
  BY <1>1, <1>2, <1>3, <1>4, <1>5, <1>6, NextUnfolds

LEMMA LoopInvImplies == TypeOK /\ LoopInv => SparedFollowsDead
<1> SUFFICES ASSUME TypeOK, LoopInv, AllStopped, NEW k \in DOMAIN listed
             PROVE  Settled(k)
  BY DEF SparedFollowsDead, Settled
<1>1. SettledUpTo(i + Gone - 1) /\ i > Len(pids)
  BY DEF AllStopped, LoopInv, InLoop
<1>2. k <= i + Gone - 1
  <2>1. Len(pids) \in Nat /\ Len(listed) \in Nat /\ i \in Nat /\ k \in 1..Len(listed)
    BY DEF TypeOK
  <2> QED
    BY <1>1, <2>1 DEF Gone
<1> QED
  BY <1>1, <1>2 DEF SettledUpTo

(* FStop passes over an entry only if it has erased the one before, so one *)
(* of any two neighbours, and always the first, is stopped.                *)
THEOREM SparesOnlyAfterDead == Spec => []SparedFollowsDead
<1>1. Init => LoopInv
  BY DEF Init, LoopInv, InLoop
<1>2. TypeOK /\ LoopInv /\ [Next]_vars => (TypeOK /\ LoopInv)'
  BY TypeOKStep, LoopInvStep
<1> QED
  BY <1>1, <1>2, TypeOKInit, LoopInvImplies, PTL DEF Spec

----------------------------------------------------------------------------
(* FStop comes to an end.  An erased entry shortens the table under the    *)
(* loop, so that i may get two past its end.                               *)

IndexInv ==
  /\ at = "term" => i <= Len(pids) + 2
  /\ at = "reap" => i <= Len(pids) + 1

StopRank ==
  IF at = "term" THEN 4 * (Len(pids) + 2 - i) + 4
  ELSE IF at = "kill" THEN 4 * (Len(pids) + 2 - i) + 3
  ELSE IF at = "erase" THEN 4 * (Len(pids) + 2 - i) + 2
  ELSE IF at = "reap" THEN 4 * (Len(pids) + 2 - i) + 1
  ELSE 0

StopGoesOn ==
  InLoop =>
    /\ StopRank \in Nat \ {0}
    /\ IF FStop THEN StopRank' < StopRank ELSE UNCHANGED StopRank

LEMMA ErasedLength ==
  ASSUME TypeOK, Erase
  PROVE  /\ Len(pids') \in Nat
         /\ Len(pids') = Len(pids) \/ Len(pids') = Len(pids) - 1
<1>1. i \in DOMAIN pids /\ pids \in Seq(Ids) /\ Len(pids) \in Nat
  BY DEF Erase, TypeOK
<1>2. CASE Exists(pids[i])
  BY <1>1, <1>2 DEF Erase
<1>3. CASE ~Exists(pids[i])
  <2>1. pids' = RemoveAt(pids, i)
    BY <1>3 DEF Erase
  <2>2. Len(pids') = Len(pids) - 1
    BY <1>1, <2>1, Removed
  <2> QED
    BY <1>1, <2>2
<1> QED
  BY <1>2, <1>3

LEMMA IndexInvStep == TypeOK /\ IndexInv /\ [Next]_vars => IndexInv'
<1> SUFFICES ASSUME TypeOK, IndexInv, [Next]_vars PROVE IndexInv'
  OBVIOUS
<1>0. Len(pids) \in Nat /\ i \in Nat \ {0}
  BY DEF TypeOK
<1>1. ASSUME NEW p \in Ids, NEW kind \in {"program", "stray"},
             StartLine(p, kind) \/ StartRequest(p, kind) \/ Restart(p, kind)
      PROVE  IndexInv'
  BY <1>1 DEF StartLine, StartRequest, Restart, IndexInv
<1>2. CASE FileRead \/ ForkFails \/ StopReturns \/ KillReturns
  BY <1>2 DEF FileRead, ForkFails, StopReturns, KillReturns, EndDaemon, IndexInv
<1>3. ASSUME NEW for \in {"stop", "restart", "kill"}, BeginFStop(for)
      PROVE  IndexInv'
  BY <1>0, <1>3 DEF BeginFStop, IndexInv
<1>4. CASE Term \/ Kill
  BY <1>4 DEF Term, Kill, IndexInv
<1>5. CASE Erase
  BY <1>0, <1>5, ErasedLength DEF Erase, IndexInv, TypeOK
<1>6. CASE Reap
  BY <1>0, <1>6 DEF Reap, IndexInv
<1>7. ASSUME NEW p \in Ids, NEW s \in Ids, NEW kind,
             ProcessEnds(p) \/ AlienStarts(p) \/ StrayStarts(s, p, kind)
      PROVE  IndexInv'
  BY <1>7 DEF ProcessEnds, AlienStarts, StrayStarts, loopVars, IndexInv
<1>8. CASE UNCHANGED vars
  BY <1>8 DEF vars, loopVars, IndexInv
<1> QED
  BY <1>1, <1>2, <1>3, <1>4, <1>5, <1>6, <1>7, <1>8, NextUnfolds

LEMMA StopGoesOnStep == TypeOK /\ IndexInv /\ [Next]_vars => StopGoesOn
<1> SUFFICES ASSUME TypeOK, IndexInv, [Next]_vars, InLoop
             PROVE  /\ StopRank \in Nat \ {0}
                    /\ FStop => StopRank' < StopRank
                    /\ ~FStop => UNCHANGED StopRank
  BY Zenon DEF StopGoesOn
<1>0. Len(pids) \in Nat /\ i \in Nat \ {0}
  BY DEF TypeOK
<1>1. StopRank \in Nat \ {0}
  BY <1>0 DEF TypeOK, IndexInv, InLoop, StopRank
<1>2. ASSUME FStop PROVE StopRank' < StopRank
  <2>1. CASE Term \/ Kill
    BY <1>0, <2>1 DEF Term, Kill, loopVars, StopRank
  <2>2. CASE Erase
    BY <1>0, <2>2, ErasedLength DEF Erase, StopRank
  <2>3. CASE Reap
    BY <1>0, <2>3 DEF Reap, StopRank
  <2>4. CASE StopReturns \/ KillReturns
    <3>1. StopRank' = 0
      BY <2>4 DEF StopReturns, KillReturns, EndDaemon, StopRank
    <3> QED
      BY <1>1, <3>1
  <2> QED
    BY <1>2, <2>1, <2>2, <2>3, <2>4 DEF FStop
<1>3. ASSUME ~FStop PROVE UNCHANGED StopRank
  <2>1. UNCHANGED <<pids, i, at>> => UNCHANGED StopRank
    BY DEF StopRank
  <2>2. ASSUME NEW p \in Ids, NEW kind \in {"program", "stray"},
               StartLine(p, kind) \/ StartRequest(p, kind) \/ Restart(p, kind)
        PROVE  FALSE
    BY <2>2 DEF StartLine, StartRequest, Restart, InLoop
  <2>3. ~FileRead /\ ~ForkFails
    BY DEF FileRead, ForkFails, InLoop
  <2>4. ASSUME NEW for \in {"stop", "restart", "kill"}, BeginFStop(for)
        PROVE  at = "poll"
    BY <2>4 DEF BeginFStop
  <2>5. ASSUME NEW p \in Ids, NEW s \in Ids, NEW kind,
               ProcessEnds(p) \/ AlienStarts(p) \/ StrayStarts(s, p, kind)
        PROVE  UNCHANGED <<pids, i, at>>
    BY <2>5 DEF ProcessEnds, AlienStarts, StrayStarts, loopVars
  <2>6. UNCHANGED vars => UNCHANGED <<pids, i, at>>
    BY DEF vars, loopVars
  <2> QED
    BY <1>3, <2>1, <2>2, <2>3, <2>4, <2>5, <2>6, NextUnfolds DEF FStop, InLoop
<1> QED
  BY <1>1, <1>2, <1>3

(* FStop is through after at most four steps for each entry there was when *)
(* it began, and a few more: each of its steps lowers the number left, and *)
(* nothing that ends, is reaped, or starts meanwhile raises it.            *)
THEOREM StopRunsDown == Spec => [][StopGoesOn]_vars
<1>1. Init => IndexInv
  BY DEF Init, IndexInv
<1>2. TypeOK /\ IndexInv /\ [Next]_vars => (TypeOK /\ IndexInv)'
  BY TypeOKStep, IndexInvStep
<1>3. TypeOK /\ IndexInv /\ [Next]_vars => [StopGoesOn]_vars
  BY StopGoesOnStep
<1> QED
  BY <1>1, <1>2, <1>3, TypeOKInit, PTL DEF Spec
=============================================================================
