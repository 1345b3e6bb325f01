----------------------------- MODULE NodeDaemon -----------------------------
(***************************************************************************)
(* NodeDaemon: starts programs for remote control, or from a file when it  *)
(* begins, keeps their process ids in a table, and stops them by signals.  *)
(* Meanwhile processes end, and the system gives the ids of those that     *)
(* have been reaped to others.                                             *)
(*                                                                         *)
(* Requests that change neither the table nor a process are left out.      *)
(***************************************************************************)
EXTENDS Naturals, SequencesExt

CONSTANTS
  Ids,         \* process ids
  Lines,       \* programs named in the file the daemon is started with
  MaxStarts,   \* bound: requests that start a program
  Daemon,      \* the daemon, as the parent of a process
  InitPid      \* init, which reaps what has no other parent

ASSUME NamesOK == Daemon # InitPid /\ {Daemon, InitPid} \cap Ids = {}
ASSUME BoundsOK == Lines \in Nat /\ MaxStarts \in Nat

VARIABLES
  pids,        \* the table: a sequence of ids
  proc,        \* what each id stands for
  parent,      \* whose child it is
  lines,       \* lines of the file that a process has not read yet
  at,          \* where the daemon is
  i,           \* the loop of FStop, counted from 1
  then,        \* what FStop was called for
  starts,      \* requests so far
  listed,      \* history: the table when FStop was called
  dealt,       \* history: the ids it has been through
  dead         \* history: those it found to be nobody's

osVars == <<proc, parent>>
loopVars == <<i, then, listed, dealt, dead>>
vars == <<pids, osVars, lines, at, loopVars, starts>>

(* A "stray" is a child whose exec failed and which goes on with the       *)
(* daemon's own code; an "alien" has nothing to do with the daemon; one    *)
(* that is "doomed" has got signal 9.                                      *)
Living == {"program", "stray", "alien", "doomed"}
Kinds == Living \cup {"free", "zombie"}

Exists(p) == proc[p] # "free"

Init ==
  /\ pids = <<>>
  /\ proc = [p \in Ids |-> "free"]
  /\ parent = [p \in Ids |-> InitPid]
  /\ lines = [p \in Ids \cup {Daemon} |-> IF p = Daemon THEN Lines ELSE 0]
  /\ at = "file"
  /\ i = 1
  /\ then = "none"
  /\ starts = 0
  /\ listed = <<>> /\ dealt = {} /\ dead = {}

----------------------------------------------------------------------------
(* Start.                                                                  *)

(* fork, and exec in the child.  A stray goes on with the rest of the file *)
(* if the daemon is reading it.                                            *)
Fork(p, by, left, kind) ==
  /\ proc[p] = "free"
  /\ kind \in {"program", "stray"}
  /\ proc' = [proc EXCEPT ![p] = kind]
  /\ parent' = [parent EXCEPT ![p] = by]
  /\ lines' = [lines EXCEPT ![by] = left, ![p] = IF kind = "stray" THEN left ELSE 0]

Start(p, left, kind) ==
  /\ Fork(p, Daemon, left, kind)
  /\ pids' = Append(pids, p)

StartLine(p, kind) ==
  /\ at = "file" /\ lines[Daemon] > 0
  /\ Start(p, lines[Daemon] - 1, kind)
  /\ UNCHANGED <<at, loopVars, starts>>

FileRead ==
  /\ at = "file" /\ lines[Daemon] = 0
  /\ at' = "poll"
  /\ UNCHANGED <<pids, osVars, lines, loopVars, starts>>

StartRequest(p, kind) ==
  /\ at = "poll" /\ starts < MaxStarts
  /\ starts' = starts + 1
  /\ Start(p, 0, kind)
  /\ UNCHANGED <<at, loopVars>>

(* Whatever the daemon leaves behind is init's.                            *)
EndDaemon ==
  /\ at' = "ended"
  /\ parent' = [p \in Ids |-> IF parent[p] = Daemon THEN InitPid ELSE parent[p]]
  /\ proc' = [p \in Ids |-> IF parent[p] = Daemon /\ proc[p] = "zombie"
                            THEN "free" ELSE proc[p]]

(* exit(1) if there is no process to be had.                               *)
ForkFails ==
  /\ \/ at = "file" /\ lines[Daemon] > 0
     \/ at = "restart"
     \/ at = "poll" /\ starts < MaxStarts
  /\ EndDaemon
  /\ UNCHANGED <<pids, lines, loopVars, starts>>

----------------------------------------------------------------------------
(* FStop, for FStop, Restart, KILL and Reboot.                             *)

(* Definitions marked Faulty are plausible mistakes, for the properties to *)
(* find.  Bug: the loop begins with the second entry.                      *)
FaultyBeginFStop(for) ==
  /\ at = "poll"
  /\ for = "restart" => starts < MaxStarts
  /\ starts' = IF for = "restart" THEN starts + 1 ELSE starts
  /\ then' = for
  /\ at' = "term"
  /\ i' = 2
  /\ listed' = pids /\ dealt' = {} /\ dead' = {}
  /\ UNCHANGED <<pids, osVars, lines>>

BeginFStop(for) ==
  /\ at = "poll"
  /\ for = "restart" => starts < MaxStarts
  /\ starts' = IF for = "restart" THEN starts + 1 ELSE starts
  /\ then' = for
  /\ at' = "term"
  /\ i' = 1
  /\ listed' = pids /\ dealt' = {} /\ dead' = {}
  /\ UNCHANGED <<pids, osVars, lines>>

(* Bug: the size of the table is taken once, before the loop.              *)
FaultyTerm ==
  /\ at = "term" /\ i <= Len(listed)
  /\ at' = "kill"
  /\ dealt' = dealt \cup {pids[k] : k \in {i} \cap DOMAIN pids}
  /\ UNCHANGED <<pids, osVars, lines, i, then, listed, dead, starts>>

(* Signal 15: the program may end of it, as it may at any time.            *)
Term ==
  /\ at = "term" /\ i <= Len(pids)
  /\ at' = "kill"
  /\ dealt' = dealt \cup {pids[i]}
  /\ UNCHANGED <<pids, osVars, lines, i, then, listed, dead, starts>>

(* Signal 9, to whoever has that id now.                                   *)
Kill ==
  /\ at = "kill"
  /\ at' = "erase"
  /\ proc' = IF proc[pids[i]] \in Living THEN [proc EXCEPT ![pids[i]] = "doomed"]
             ELSE proc
  /\ UNCHANGED <<pids, parent, lines, loopVars, starts>>

(* Bug: the entry is erased because signal 9 has been sent.                *)
FaultyErase ==
  /\ at = "erase"
  /\ at' = "reap"
  /\ pids' = RemoveAt(pids, i) /\ dead' = dead \cup {pids[i]}
  /\ UNCHANGED <<osVars, lines, i, then, listed, dealt, starts>>

(* Of an entry that is erased the next one takes the place.                *)
Erase ==
  /\ at = "erase"
  /\ at' = "reap"
  /\ IF Exists(pids[i])
     THEN UNCHANGED <<pids, dead>>
     ELSE pids' = RemoveAt(pids, i) /\ dead' = dead \cup {pids[i]}
  /\ UNCHANGED <<osVars, lines, i, then, listed, dealt, starts>>

(* waitpid(-1, 0, WNOHANG): any one child that has ended.                  *)
Zombies == {p \in Ids : proc[p] = "zombie" /\ parent[p] = Daemon}

Free(p) ==
  /\ proc' = [proc EXCEPT ![p] = "free"]
  /\ parent' = [parent EXCEPT ![p] = InitPid]

(* Bug: nobody is waited for.                                              *)
FaultyReap ==
  /\ at = "reap"
  /\ at' = "term"
  /\ i' = i + 1
  /\ UNCHANGED <<pids, osVars, lines, then, listed, dealt, dead, starts>>

Reap ==
  /\ at = "reap"
  /\ at' = "term"
  /\ i' = i + 1
  /\ IF Zombies = {} THEN UNCHANGED osVars ELSE \E p \in Zombies : Free(p)
  /\ UNCHANGED <<pids, lines, then, listed, dealt, dead, starts>>

AllStopped == at = "term" /\ i > Len(pids)

EndLoop == i' = 1 /\ then' = "none" /\ listed' = <<>> /\ dealt' = {} /\ dead' = {}

StopReturns ==
  /\ AllStopped /\ then \in {"stop", "restart"}
  /\ at' = IF then = "restart" THEN "restart" ELSE "poll"
  /\ EndLoop
  /\ UNCHANGED <<pids, osVars, lines, starts>>

Restart(p, kind) ==
  /\ at = "restart"
  /\ Start(p, 0, kind)
  /\ at' = "poll"
  /\ UNCHANGED <<loopVars, starts>>

KillReturns ==
  /\ AllStopped /\ then = "kill"
  /\ EndDaemon
  /\ EndLoop
  /\ UNCHANGED <<pids, lines, starts>>

----------------------------------------------------------------------------
(* The rest of the node.                                                   *)

(* A process ends, a stray when it gets to the sockets, which refuse it.   *)
(* What is left is a zombie, until the parent waits for it; its own        *)
(* children are init's.                                                    *)
ProcessEnds(p) ==
  /\ proc[p] \in Living
  /\ proc' = [q \in Ids |->
       IF q = p /\ parent[p] # InitPid THEN "zombie"
       ELSE IF q = p \/ (parent[q] = p /\ proc[q] = "zombie") THEN "free"
       ELSE proc[q]]
  /\ parent' = [q \in Ids |-> IF parent[q] = p THEN InitPid ELSE parent[q]]
  /\ lines' = [lines EXCEPT ![p] = 0]
  /\ UNCHANGED <<pids, at, loopVars, starts>>

StrayStarts(s, p, kind) ==
  /\ proc[s] = "stray" /\ lines[s] > 0
  /\ Fork(p, s, lines[s] - 1, kind)
  /\ UNCHANGED <<pids, at, loopVars, starts>>

AlienStarts(p) ==
  /\ proc[p] = "free"
  /\ proc' = [proc EXCEPT ![p] = "alien"]
  /\ UNCHANGED <<pids, parent, lines, at, loopVars, starts>>

----------------------------------------------------------------------------
FStop == Term \/ Kill \/ Erase \/ Reap \/ StopReturns \/ KillReturns

Starting ==
  \E p \in Ids, kind \in {"program", "stray"} :
    \/ StartLine(p, kind)
    \/ StartRequest(p, kind)
    \/ Restart(p, kind)

Node ==
  \E p \in Ids :
    \/ ProcessEnds(p)
    \/ AlienStarts(p)
    \/ \E s \in Ids, kind \in {"program", "stray"} : StrayStarts(s, p, kind)

Next ==
  \/ Starting
  \/ FileRead
  \/ ForkFails
  \/ \E for \in {"stop", "restart", "kill"} : BeginFStop(for)
  \/ FStop
  \/ Node

Spec == Init /\ [][Next]_vars

(* The daemon goes on, and so does a process that got signal 9.            *)
FairSpec ==
  /\ Spec
  /\ WF_vars(FStop)
  /\ WF_vars(Starting \/ FileRead \/ ForkFails)
  /\ \A p \in Ids : WF_vars(proc[p] = "doomed" /\ ProcessEnds(p))

----------------------------------------------------------------------------
(* Properties.                                                             *)

Places == {"file", "poll", "term", "kill", "erase", "reap", "restart", "ended"}

(* Every variable has its type, and the loop stays within the table.       *)
TypeOK ==
  /\ pids \in Seq(Ids)
  /\ proc \in [Ids -> Kinds]
  /\ parent \in [Ids -> Ids \cup {Daemon, InitPid}]
  /\ lines \in [Ids \cup {Daemon} -> 0..Lines]
  /\ at \in Places
  /\ i \in Nat \ {0}
  /\ at \in {"kill", "erase"} => i <= Len(pids)
  /\ then \in {"none", "stop", "restart", "kill"}
  /\ starts \in 0..MaxStarts
  /\ listed \in Seq(Ids) /\ dealt \subseteq Ids /\ dead \subseteq Ids

(* A child of the daemon, running or not waited for, is in the table: none *)
(* gets out of the reach of FStop, nor do its remains.                     *)
ChildrenListed == \A p \in Ids : parent[p] = Daemon => \E k \in DOMAIN pids : pids[k] = p

(* An entry that FStop passes over is the one after an entry that it       *)
(* erased: the first of the table is always stopped, and of two next to    *)
(* each other at least one.                                                *)
SparedFollowsDead ==
  AllStopped =>
    \A k \in DOMAIN listed :
      listed[k] \in dealt \/ (k > 1 /\ listed[k - 1] \in dealt \cap dead)

(* Whatever FStop passes over, a child of the daemon is stopped and waited *)
(* for in the end, if FStop is called again and again.                     *)
ChildrenAreStopped ==
  []<>AllStopped => \A p \in Ids : parent[p] = Daemon ~> parent[p] # Daemon
=============================================================================
