-------------------------- MODULE ServiceDiscovery --------------------------
(***************************************************************************)
(* Service discovery between two processes.  One announces services: its   *)
(* tools add and remove services and ports through DAQUtilities, and its   *)
(* publish thread multicasts a beacon per service every few seconds.  The  *)
(* other listens: its thread keeps the newest arrival of every uuid, drops *)
(* those whose beacon looks old, and answers queries.                      *)
(*                                                                         *)
(* The unit of time is a second: the listener's loop runs at least once in *)
(* each, since its poll gives up after 1000 ms.                            *)
(***************************************************************************)
EXTENDS Integers, Sequences

CONSTANTS
  OwnName,      \* m_service, the service the process is created with
  Names,        \* names of services that are added and removed
  Ports,        \* names of ports
  Skews,        \* announcer's clock minus listener's clock, in seconds
  kicksec,      \* seconds after which a service is dropped
  Hour,         \* 3600
  Followed,     \* uuids whose beacons are not lost for ever
  MaxCalls,     \* bound: calls of AddService, RemoveService, AddPort ...
  MaxDelay      \* bound: seconds a beacon is under way

Own == 0                    \* the uuid of the process
Uuids == 0..MaxCalls        \* AddService makes a new one

ASSUME NamesOK == OwnName \in Names
ASSUME BoundsOK ==
  /\ MaxCalls \in Nat /\ MaxDelay \in Nat
  /\ Skews \subseteq Int /\ Followed \subseteq Uuids
(* With kicksec = Hour - 1 no service would ever be dropped: see Elapsed.  *)
ASSUME KickOK == kicksec \in Nat /\ Hour \in Nat /\ kicksec + 1 < Hour

VARIABLES
  commands,         \* messages for the publish thread: a set, see Request
  PubServices,      \* sequence of the services it announces
  publisher,        \* running, asleep or ended
  quitting,         \* the announcer's destructor waits for the thread
  network,          \* beacons under way
  RemoteServices,   \* the listener's table: uuid -> beacon, or NotListed
  listener,         \* running or ended
  skew,             \* the difference of the two clocks
  calls,            \* calls made so far
  silent            \* history: seconds since a beacon of the uuid arrived

announcerVars == <<commands, PubServices, publisher, quitting, calls>>
listenerVars == <<RemoteServices, listener, silent>>
vars == <<announcerVars, network, listenerVars, skew>>

NotListed == [ports |-> {}]
Service(name, uuid) == [name |-> name, uuid |-> uuid, ports |-> {}]

Commands ==
  [call : 1..MaxCalls, command : {"Add", "Delete"}, name : Names]
    \cup [call : 1..MaxCalls, command : {"PortAdd", "PortDelete"}, name : Ports]
Quit == [call |-> 0, command |-> "Quit", name |-> OwnName]

Init ==
  /\ commands = {}
  /\ PubServices = <<Service(OwnName, Own)>>
  /\ publisher = "running"
  /\ quitting = FALSE
  /\ network = {}
  /\ RemoteServices = [u \in Uuids |-> NotListed]
  /\ listener = "running"
  /\ skew \in Skews
  /\ calls = 0
  /\ silent = [u \in Uuids |-> 0]

----------------------------------------------------------------------------
(* The announcer.                                                          *)

(* DAQUtilities::AddService, RemoveService, AddPort, RemovePort.  Each     *)
(* opens a socket of its own for its one message, and the thread's socket  *)
(* takes turns between those connected to it: calls may overtake another.  *)
Request(command, name) ==
  /\ calls < MaxCalls
  /\ calls' = calls + 1
  /\ commands' = commands \cup {[call |-> calls', command |-> command, name |-> name]}
  /\ UNCHANGED <<PubServices, publisher, quitting, network, listenerVars, skew>>

AddService(name) == Request("Add", name)
RemoveService(name) == Request("Delete", name)
AddPort(port) == Request("PortAdd", port)
RemovePort(port) == Request("PortDelete", port)

(* ~ServiceDiscovery: Quit, then pthread_join.                             *)
SendQuit ==
  /\ ~quitting
  /\ quitting' = TRUE
  /\ commands' = commands \cup {Quit}
  /\ UNCHANGED <<PubServices, publisher, calls, network,
                 listenerVars, skew>>

(* The thread takes one message a round and announces nothing in it.       *)
Take(c, services) ==
  /\ publisher = "running"
  /\ c \in commands
  /\ commands' = commands \ {c}
  /\ PubServices' = services
  /\ UNCHANGED <<publisher, quitting, calls, network, listenerVars,
                 skew>>

(* Definitions marked Faulty are plausible mistakes, for the properties to *)
(* find.  Bug: a service is added in front of the others.                  *)
FaultyTakeAdd(c) ==
  /\ c.command = "Add"
  /\ Take(c, <<Service(c.name, c.call)>> \o PubServices)


TakeAdd(c) ==
  /\ c.command = "Add"
  /\ Take(c, Append(PubServices, Service(c.name, c.call)))

Without(seq, i) ==
  [j \in 1..(Len(seq) - 1) |-> IF j < i THEN seq[j] ELSE seq[j + 1]]

(* The first service of that name.                                         *)
TakeDelete(c) ==
  /\ c.command = "Delete"
  /\ \/ \E i \in DOMAIN PubServices :
          /\ PubServices[i].name = c.name
          /\ \A j \in 1..(i - 1) : PubServices[j].name # c.name
          /\ Take(c, Without(PubServices, i))
     \/ /\ \A i \in DOMAIN PubServices : PubServices[i].name # c.name
        /\ Take(c, PubServices)

(* Ports are set and erased at the first service, whichever that is.       *)
WithPorts(ports) ==
  IF PubServices = <<>> THEN PubServices
  ELSE [PubServices EXCEPT ![1].ports = ports]

TakePortAdd(c) ==
  /\ c.command = "PortAdd"
  /\ Take(c, WithPorts(PubServices[1].ports \cup {c.name}))

TakePortDelete(c) ==
  /\ c.command = "PortDelete"
  /\ Take(c, WithPorts(PubServices[1].ports \ {c.name}))

(* The thread ends, and says no goodbye.                                   *)
TakeQuit ==
  /\ publisher = "running"
  /\ Quit \in commands
  /\ publisher' = "ended"
  /\ commands' = commands \ {Quit}
  /\ UNCHANGED <<PubServices, quitting, calls, network, listenerVars,
                 skew>>

Beacon(i) ==
  [uuid |-> PubServices[i].uuid, ports |-> PubServices[i].ports, age |-> 0]

(* Bug: the loop ends one service early.                                   *)
FaultyPublish(skipped) ==
  /\ publisher = "running"
  /\ commands = {}
  /\ network' = network \cup
       {Beacon(i) : i \in (1..(Len(PubServices) - 1)) \ skipped}
  /\ publisher' = "asleep"
  /\ UNCHANGED <<commands, PubServices, quitting, calls, listenerVars, skew>>

(* One beacon per service, but for those whose status query is interrupted *)
(* by a signal, and for those the socket or the network loses.  Then the   *)
(* thread sleeps for pubsec, and takes no command meanwhile.               *)
Publish(skipped) ==
  /\ publisher = "running"
  /\ commands = {}
  /\ network' = network \cup {Beacon(i) : i \in DOMAIN PubServices \ skipped}
  /\ publisher' = "asleep"
  /\ UNCHANGED <<commands, PubServices, quitting, calls, listenerVars, skew>>

----------------------------------------------------------------------------
(* The listener.                                                           *)

Abs(n) == IF n < 0 THEN -n ELSE n

(* Bug: a beacon of the past is taken for one from the future.             *)
SignedElapsed(time) == time

(* Bug: fields below zero wrap around.                                     *)
WrappedElapsed(time) == time % Hour

(* to_tm gives the absolute value of each field of msg_time - now, and the *)
(* whole hours are not looked at.                                          *)
Elapsed(time) == Abs(time) - Hour * (Abs(time) \div Hour)

Listed(u) == RemoteServices[u] # NotListed

Expired(entry) == entry # NotListed /\ Elapsed(entry.time) > kicksec

(* Bug: the list of what is to be erased is not gone through.              *)
FaultyKeepFresh(table) == table

(* The end of each round of the loop: every entry too old is erased.       *)
KeepFresh(table) ==
  [u \in Uuids |-> IF Expired(table[u]) THEN NotListed ELSE table[u]]

(* "time" is what msg_time - now is by the listener's clock.               *)
Entry(b) == [ports |-> b.ports, time |-> skew - b.age]

(* A beacon arrives, early, late or twice, and replaces the one before.    *)
(* Beacons are taken to fit the buffer of 512 bytes and to have a msg_time.*)
Receive(b, again) ==
  /\ listener = "running"
  /\ b \in network
  /\ network' = IF again THEN network ELSE network \ {b}
  /\ RemoteServices' =
       KeepFresh([RemoteServices EXCEPT ![b.uuid] = Entry(b)])
  /\ silent' = [silent EXCEPT ![b.uuid] = 0]
  /\ UNCHANGED <<announcerVars, listener, skew>>

Lose(b) ==
  /\ b \in network
  /\ network' = network \ {b}
  /\ UNCHANGED <<announcerVars, listenerVars, skew>>

Older(entry) ==
  IF entry = NotListed THEN entry ELSE [entry EXCEPT !.time = @ - 1]

(* A second passes, and the listener has had a round at the end of it.     *)
Tick ==
  /\ RemoteServices' =
       IF listener = "running"
       THEN KeepFresh([u \in Uuids |-> Older(RemoteServices[u])])
       ELSE RemoteServices
  /\ silent' = [u \in Uuids |->
                  IF RemoteServices'[u] = NotListed THEN 0 ELSE silent[u] + 1]
  /\ network' = {[b EXCEPT !.age = @ + 1] : b \in {c \in network : c.age < MaxDelay}}
  /\ publisher' \in IF publisher = "asleep" THEN {"asleep", "running"}
                    ELSE {publisher}
  /\ UNCHANGED <<commands, PubServices, quitting, calls, listener, skew>>

(* Quit of the listener's own destructor.                                  *)
StopListening ==
  /\ listener = "running"
  /\ listener' = "ended"
  /\ RemoteServices' = [u \in Uuids |-> NotListed]
  /\ silent' = [u \in Uuids |-> 0]
  /\ UNCHANGED <<announcerVars, network, skew>>

----------------------------------------------------------------------------
TakeCommand(c) ==
  TakeAdd(c) \/ TakeDelete(c) \/ TakePortAdd(c) \/ TakePortDelete(c)

Next ==
  \/ \E name \in Names : AddService(name) \/ RemoveService(name)
  \/ \E port \in Ports : AddPort(port) \/ RemovePort(port)
  \/ SendQuit
  \/ \E c \in commands : TakeCommand(c)
  \/ TakeQuit
  \/ \E skipped \in SUBSET (DOMAIN PubServices) : Publish(skipped)
  \/ \E b \in network : Lose(b) \/ \E again \in BOOLEAN : Receive(b, again)
  \/ Tick
  \/ StopListening

Spec == Init /\ [][Next]_vars

(* Loops go on, and a beacon sent again and again is not always lost.      *)
FairSpec ==
  /\ Spec
  /\ WF_vars(TakeQuit \/ \E c \in commands : TakeCommand(c))
  /\ SF_vars(Publish({}))
  /\ SF_vars(Tick /\ publisher' # "asleep")
  /\ \A u \in Followed :
       SF_vars(\E b \in network : b.uuid = u /\ b.age = 0 /\ Receive(b, FALSE))

----------------------------------------------------------------------------
(* Properties.                                                             *)

Services == [name : Names, uuid : Uuids, ports : SUBSET Ports]
Beacons == [uuid : Uuids, ports : SUBSET Ports, age : 0..MaxDelay]
Entries == [ports : SUBSET Ports, time : Int]

Types ==
  /\ commands \subseteq Commands \cup {Quit}
  /\ PubServices \in Seq(Services)
  /\ publisher \in {"running", "asleep", "ended"}
  /\ quitting \in BOOLEAN
  /\ network \subseteq Beacons
  /\ RemoteServices \in [Uuids -> Entries \cup {NotListed}]
  /\ listener \in {"running", "ended"}
  /\ skew \in Skews
  /\ calls \in 0..MaxCalls
  /\ silent \in [Uuids -> Nat]

(* Every variable has its type, and a beacon listed is not older than the  *)
(* clocks and delays account for.                                          *)
TypeOK ==
  /\ Types
  /\ \A u \in Uuids :
       Listed(u) => RemoteServices[u].time + Abs(skew) + MaxDelay + kicksec >= 0

(* Ports are announced at the service of the process itself, and at        *)
(* another one only if that has been removed: no listener ever shows the   *)
(* ports of the process at a service that AddService added, unless the     *)
(* announcer's own service is gone for good.                               *)
Announced(u) == \E i \in DOMAIN PubServices : PubServices[i].uuid = u

PortsAtOwnService ==
  Announced(Own) =>
    /\ PubServices[1].uuid = Own
    /\ \A i \in DOMAIN PubServices :
         PubServices[i].ports # {} => PubServices[i].uuid = Own
    /\ \A b \in network : b.ports # {} => b.uuid = Own
    /\ \A u \in Uuids : RemoteServices[u].ports # {} => u = Own

(* A service that is listed has been heard of within kicksec and the       *)
(* difference of the clocks, and is not kept beyond.                       *)
ListedIsFresh ==
  \A u \in Uuids : Listed(u) => silent[u] <= kicksec + Abs(skew)

(* A service is dropped only if it has been silent for kicksec, less the   *)
(* difference of the clocks and the time its last beacon was under way.    *)
DroppedOnlyWhenSilent ==
  [][\A u \in Uuids :
       Listed(u) /\ ~Listed(u)' /\ listener' = "running" =>
         silent[u] + 1 + Abs(skew) + MaxDelay > kicksec]_vars

ClocksAgree == \A delay \in 0..MaxDelay : Elapsed(skew - delay) <= kicksec

(* A service that is announced is listed in the end, unless it is          *)
(* withdrawn or one of the processes ends, if the clocks differ by less    *)
(* than kicksec.                                                           *)
AnnouncedIsListed ==
  \A u \in Followed :
    ClocksAgree /\ Announced(u) ~>
      (Listed(u) \/ ~Announced(u) \/ publisher = "ended" \/ listener = "ended")
============================================================================
