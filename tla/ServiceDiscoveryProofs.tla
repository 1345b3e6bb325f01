----------------------- MODULE ServiceDiscoveryProofs -----------------------
(***************************************************************************)
(* Proofs about ServiceDiscovery, for any services, clocks and delays.     *)
(***************************************************************************)
EXTENDS ServiceDiscovery, SequenceTheorems, TLAPS

----------------------------------------------------------------------------
(* What Elapsed is: the seconds since the last whole hour.                 *)

LEMMA MultipleBelowOne ==
  ASSUME NEW h \in Nat, NEW d \in Int, NEW s \in Nat, NEW r \in Nat,
         h > 0, s < h, r < h, s = h * d + r
  PROVE  d = 0
<1>1. CASE d >= 1
  <2>1. h * d >= h
    BY <1>1
  <2> QED
    BY <2>1
<1>2. CASE d <= -1
  <2>1. h * d <= -h
    BY <1>2
  <2> QED
    BY <2>1
<1> QED
  BY <1>1, <1>2

LEMMA ElapsedRange ==
  ASSUME NEW t \in Int
  PROVE  /\ Elapsed(t) \in 0..(Hour - 1)
         /\ Elapsed(t) <= Abs(t)
         /\ Abs(t) < Hour => Elapsed(t) = Abs(t)
<1> DEFINE a == Abs(t)
           q == a \div Hour
<1>1. a \in Nat /\ Hour \in Nat /\ Hour > 0
  BY KickOK DEF Abs
<1> HIDE DEF a
<1>2. q \in Int /\ Hour * q <= a /\ a < Hour * q + Hour
  BY <1>1
<1>3. q >= 0
  <2> SUFFICES ASSUME q <= -1 PROVE FALSE
    BY <1>2
  <2>1. Hour * q <= -Hour
    BY <1>1, <1>2
  <2> QED
    BY <1>1, <1>2, <2>1
<1>4. Elapsed(t) = a - Hour * q
  BY DEF Elapsed, a
<1>5. Hour * q >= 0 /\ Hour * q \in Int
  BY <1>1, <1>2, <1>3
<1>6. ASSUME a < Hour PROVE q = 0
  <2> SUFFICES ASSUME q >= 1 PROVE FALSE
    BY <1>2, <1>3
  <2>1. Hour * q >= Hour
    BY <1>1, <1>2
  <2> QED
    BY <1>1, <1>2, <1>6, <2>1
<1> HIDE DEF q
<1>7. a < Hour => Elapsed(t) = a
  BY <1>1, <1>4, <1>6
<1> QED
  BY <1>1, <1>2, <1>4, <1>5, <1>7 DEF a

(* A second later it is one more, unless that completes an hour.           *)
LEMMA ElapsedNext ==
  ASSUME NEW t \in Int, t < 0, Elapsed(t) + 1 < Hour
  PROVE  Elapsed(t - 1) = Elapsed(t) + 1
<1> DEFINE a == -t
           q == a \div Hour
           p == (a + 1) \div Hour
<1>1. a \in Nat /\ Hour \in Nat /\ Hour > 0
  BY KickOK
<1>2. Abs(t) = a /\ Abs(t - 1) = a + 1
  BY DEF Abs
<1> HIDE DEF a
<1>3. q \in Int /\ Hour * q <= a /\ a < Hour * q + Hour
  BY <1>1
<1>4. p \in Int /\ Hour * p <= a + 1 /\ a + 1 < Hour * p + Hour
  BY <1>1
<1>5. Elapsed(t) = a - Hour * q /\ Elapsed(t - 1) = (a + 1) - Hour * p
  <2>1. /\ Elapsed(t) = Abs(t) - Hour * (Abs(t) \div Hour)
        /\ Elapsed(t - 1) = Abs(t - 1) - Hour * (Abs(t - 1) \div Hour)
    BY DEF Elapsed
  <2> QED
    BY <1>2, <2>1, Zenon
<1> HIDE DEF p, q
<1>6. Elapsed(t) \in Nat /\ Elapsed(t - 1) \in Nat /\ Elapsed(t - 1) < Hour
  <2>1. t - 1 \in Int
    OBVIOUS
  <2>2. Elapsed(t) \in 0..(Hour - 1) /\ Elapsed(t - 1) \in 0..(Hour - 1)
    BY <2>1, ElapsedRange
  <2> QED
    BY <1>1, <2>2
<1>7. Hour * (q - p) = Hour * q - Hour * p
  BY <1>1, <1>3, <1>4
<1>8. q - p \in Int /\ Elapsed(t - 1) = Hour * (q - p) + (Elapsed(t) + 1)
  BY <1>1, <1>3, <1>4, <1>5, <1>7
<1>9. q - p = 0
  BY <1>1, <1>6, <1>8, MultipleBelowOne
<1> QED
  BY <1>1, <1>6, <1>8, <1>9

----------------------------------------------------------------------------
(* Types.  A service taken out of a sequence leaves the others.            *)

LEMMA WithoutType ==
  ASSUME NEW S, NEW seq \in Seq(S), NEW i \in DOMAIN seq
  PROVE  /\ Without(seq, i) \in Seq(S)
         /\ Len(Without(seq, i)) = Len(seq) - 1
         /\ \A j \in DOMAIN Without(seq, i) :
              /\ j \in DOMAIN seq /\ j + 1 \in DOMAIN seq
              /\ Without(seq, i)[j] = IF j < i THEN seq[j] ELSE seq[j + 1]
<1> DEFINE rest == [j \in 1..(Len(seq) - 1) |-> IF j < i THEN seq[j] ELSE seq[j + 1]]
<1>1. Len(seq) \in Nat /\ Len(seq) >= 1 /\ DOMAIN seq = 1..Len(seq)
  OBVIOUS
<1>2. \A j \in 1..Len(seq) : seq[j] \in S
  OBVIOUS
<1>3. rest \in [1..(Len(seq) - 1) -> S]
  BY <1>1, <1>2
<1>4. rest \in Seq(S) /\ Len(rest) = Len(seq) - 1
  <2>1. Len(seq) - 1 \in Nat
    BY <1>1
  <2> QED
    BY <1>3, <2>1
<1>5. Without(seq, i) = rest
  BY DEF Without
<1> QED
  BY <1>1, <1>4, <1>5

LEMMA NextUnfolds ==
  ASSUME Next
  PROVE  \/ \E command \in {"Add", "Delete"}, name \in Names : Request(command, name)
         \/ \E command \in {"PortAdd", "PortDelete"}, port \in Ports : Request(command, port)
         \/ SendQuit
         \/ \E c \in commands : TakeAdd(c)
         \/ \E c \in commands : TakeDelete(c)
         \/ \E c \in commands : TakePortAdd(c) \/ TakePortDelete(c)
         \/ TakeQuit
         \/ \E skipped \in SUBSET (DOMAIN PubServices) : Publish(skipped)
         \/ \E b \in network : Lose(b)
         \/ \E b \in network, again \in BOOLEAN : Receive(b, again)
         \/ Tick
         \/ StopListening
BY DEF Next, AddService, RemoveService, AddPort, RemovePort, TakeCommand

LEMMA TypesInit == Init => Types
<1> SUFFICES ASSUME Init PROVE Types
  OBVIOUS
<1>1. Own \in Uuids /\ 0 \in 0..MaxCalls
  BY BoundsOK DEF Own, Uuids
<1>2. Service(OwnName, Own) \in Services
  BY <1>1, NamesOK DEF Service, Services
<1>3. PubServices \in Seq(Services)
  BY <1>2 DEF Init
<1> QED
  BY <1>1, <1>3 DEF Init, Types

LEMMA TypesStep == Types /\ [Next]_vars => Types'
<1> SUFFICES ASSUME Types, [Next]_vars PROVE Types'
  OBVIOUS
<1> USE BoundsOK DEF Types, announcerVars, listenerVars
<1>1. ASSUME NEW command, NEW name, Request(command, name),
             \/ command \in {"Add", "Delete"} /\ name \in Names
             \/ command \in {"PortAdd", "PortDelete"} /\ name \in Ports
      PROVE  Types'
  <2>1. calls' \in 1..MaxCalls
    BY <1>1 DEF Request
  <2>2. commands' \subseteq Commands \cup {Quit}
    BY <1>1, <2>1 DEF Request, Commands
  <2> QED
    BY <1>1, <2>1, <2>2 DEF Request
<1>2. CASE SendQuit
  BY <1>2 DEF SendQuit
<1>3. ASSUME NEW c \in commands, NEW services, Take(c, services),
             services \in Seq(Services)
      PROVE  Types'
  BY <1>3 DEF Take
<1>4. \A c \in commands :
        /\ c.command = "Add" => c.call \in Uuids /\ c.name \in Names
        /\ c.command \in {"PortAdd", "PortDelete"} => c.name \in Ports
  BY DEF Commands, Quit, Uuids
<1>5. ASSUME NEW c \in commands, TakeAdd(c) PROVE Types'
  <2>1. Service(c.name, c.call) \in Services
    BY <1>4, <1>5 DEF TakeAdd, Service, Services
  <2>2. Append(PubServices, Service(c.name, c.call)) \in Seq(Services)
    BY <2>1
  <2> QED
    BY <1>3, <1>5, <2>2 DEF TakeAdd
<1>6. ASSUME NEW c \in commands, TakeDelete(c) PROVE Types'
  <2>1. CASE Take(c, PubServices)
    BY <1>3, <2>1
  <2>2. ASSUME NEW i \in DOMAIN PubServices, Take(c, Without(PubServices, i))
        PROVE  Types'
    BY <1>3, <2>2, WithoutType
  <2> QED
    BY <1>6, <2>1, <2>2 DEF TakeDelete
<1>7. ASSUME NEW c \in commands, TakePortAdd(c) \/ TakePortDelete(c) PROVE Types'
  <2>1. ASSUME NEW ports, PubServices # <<>> => ports \in SUBSET Ports
        PROVE  WithPorts(ports) \in Seq(Services)
    <3>1. CASE PubServices = <<>>
      BY <3>1 DEF WithPorts
    <3>2. CASE PubServices # <<>>
      <4>1. 1 \in DOMAIN PubServices /\ PubServices[1] \in Services
        BY <3>2
      <4>2. [PubServices[1] EXCEPT !.ports = ports] \in Services
        BY <2>1, <3>2, <4>1 DEF Services
      <4>3. WithPorts(ports) = [PubServices EXCEPT ![1] = [@ EXCEPT !.ports = ports]]
        BY <3>2 DEF WithPorts
      <4> QED
        BY <4>1, <4>2, <4>3
    <3> QED
      BY <3>1, <3>2
  <2>2. PubServices # <<>> => PubServices[1].ports \subseteq Ports
    <3> SUFFICES ASSUME PubServices # <<>> PROVE PubServices[1].ports \subseteq Ports
      OBVIOUS
    <3>1. PubServices[1] \in Services
      OBVIOUS
    <3> QED
      BY <3>1 DEF Services
  <2>3. c.name \in Ports
    BY <1>4, <1>7 DEF TakePortAdd, TakePortDelete
  <2> QED
    BY <1>3, <1>7, <2>1, <2>2, <2>3 DEF TakePortAdd, TakePortDelete
<1>8. CASE TakeQuit
  BY <1>8 DEF TakeQuit
<1>9. ASSUME NEW skipped \in SUBSET (DOMAIN PubServices), Publish(skipped)
      PROVE  Types'
  <2>1. ASSUME NEW i \in DOMAIN PubServices PROVE Beacon(i) \in Beacons
    <3>1. PubServices[i] \in Services
      OBVIOUS
    <3> QED
      BY <3>1 DEF Beacon, Beacons, Services
  <2> QED
    BY <1>9, <2>1 DEF Publish
<1>10. ASSUME NEW b \in network, Lose(b) PROVE Types'
  BY <1>10 DEF Lose
<1>11. ASSUME NEW b \in network, NEW again \in BOOLEAN, Receive(b, again)
       PROVE  Types'
  <2>1. b \in Beacons /\ skew \in Int
    OBVIOUS
  <2>2. b.uuid \in Uuids /\ Entry(b) \in Entries
    BY <2>1 DEF Beacons, Entry, Entries
  <2>3. RemoteServices' \in [Uuids -> Entries \cup {NotListed}]
    BY <1>11, <2>2 DEF Receive, KeepFresh
  <2>4. silent' \in [Uuids -> Nat] /\ network' \subseteq network
    BY <1>11, <2>2 DEF Receive
  <2> QED
    BY <1>11, <2>3, <2>4 DEF Receive
<1>12. CASE Tick
  <2>1. ASSUME NEW entry \in Entries \cup {NotListed}
        PROVE  Older(entry) \in Entries \cup {NotListed}
    BY <2>1 DEF Older, Entries
  <2>2. RemoteServices' \in [Uuids -> Entries \cup {NotListed}]
    BY <1>12, <2>1 DEF Tick, KeepFresh
  <2>3. silent' \in [Uuids -> Nat]
    BY <1>12 DEF Tick
  <2>4. network' \subseteq Beacons
    <3>1. ASSUME NEW b \in Beacons, b.age < MaxDelay
          PROVE  [b EXCEPT !.age = @ + 1] \in Beacons
      <4>1. b.age \in 0..MaxDelay /\ b.age + 1 \in 0..MaxDelay
        BY <3>1, BoundsOK DEF Beacons
      <4>2. [b EXCEPT !.age = @ + 1] = [uuid |-> b.uuid, ports |-> b.ports, age |-> b.age + 1]
        BY DEF Beacons
      <4> QED
        BY <4>1, <4>2 DEF Beacons
    <3> QED
      BY <1>12, <3>1 DEF Tick
  <2> QED
    BY <1>12, <2>2, <2>3, <2>4 DEF Tick
<1>13. CASE StopListening
  BY <1>13 DEF StopListening
<1>14. CASE UNCHANGED vars
  BY <1>14 DEF vars
<1> QED
  BY <1>1, <1>2, <1>5, <1>6, <1>7, <1>8, <1>9, <1>10, <1>11, <1>12, <1>13, <1>14,
     NextUnfolds

----------------------------------------------------------------------------
(* The age of what is listed.  time and silent change together, and their  *)
(* sum is what the clocks and the delay made of the beacon on arrival.  An *)
(* entry is dropped as soon as Elapsed is above kicksec; one that has been *)
(* older than that on arrival, but by whole hours, has been silent for     *)
(* less than what Elapsed makes of it.                                     *)

FreshAge(time, since) ==
  /\ Elapsed(time) <= kicksec
  /\ time + since <= Abs(skew)
  /\ time + since + Abs(skew) + MaxDelay >= 0
  /\ time + kicksec >= 0 \/ since <= Elapsed(time)

FreshInv ==
  \A u \in Uuids :
    Listed(u) => listener = "running" /\ FreshAge(RemoteServices[u].time, silent[u])

LEMMA ArrivesFresh ==
  ASSUME Types, NEW age \in 0..MaxDelay, Elapsed(skew - age) <= kicksec
  PROVE  FreshAge(skew - age, 0)
<1>1. skew \in Int /\ MaxDelay \in Nat /\ age \in Nat /\ age <= MaxDelay
  BY BoundsOK DEF Types
<1>2. skew - age \in Int
  BY <1>1
<1>3. Elapsed(skew - age) \in 0..(Hour - 1)
  BY <1>2, ElapsedRange
<1>4. Hour \in Nat
  BY KickOK
<1>5. Elapsed(skew - age) >= 0
  BY <1>3, <1>4
<1> QED
  BY <1>1, <1>5 DEF FreshAge, Abs

LEMMA StaysFresh ==
  ASSUME Types, NEW time \in Int, NEW since \in Nat, FreshAge(time, since),
         Elapsed(time - 1) <= kicksec
  PROVE  FreshAge(time - 1, since + 1)
<1>1. skew \in Int /\ MaxDelay \in Nat /\ kicksec \in Nat /\ Hour \in Nat /\ kicksec + 1 < Hour
  BY BoundsOK, KickOK DEF Types
<1>2. Abs(skew) \in Nat
  BY <1>1 DEF Abs
<1>3. time - 1 \in Int
  OBVIOUS
<1>4. Elapsed(time) \in 0..(Hour - 1) /\ Elapsed(time - 1) \in 0..(Hour - 1)
  BY <1>3, ElapsedRange
<1>5. CASE time + kicksec >= 1
  BY <1>1, <1>2, <1>5 DEF FreshAge
<1>6. CASE time + kicksec = 0
  <2>1. Abs(time - 1) = kicksec + 1
    BY <1>1, <1>6 DEF Abs
  <2>2. Elapsed(time - 1) = kicksec + 1
    BY <1>1, <1>3, <2>1, ElapsedRange
  <2> QED
    BY <1>1, <2>2
<1>7. CASE time + kicksec < 0
  <2>1. since <= Elapsed(time) /\ Elapsed(time) <= kicksec
    BY <1>1, <1>7 DEF FreshAge
  <2>2. Elapsed(time) + 1 < Hour /\ time < 0
    BY <1>1, <1>4, <1>7, <2>1
  <2>3. Elapsed(time - 1) = Elapsed(time) + 1
    BY <2>2, ElapsedNext
  <2> QED
    BY <1>1, <1>2, <1>4, <2>1, <2>3 DEF FreshAge
<1> QED
  BY <1>1, <1>5, <1>6, <1>7

LEMMA FreshInit == Init => FreshInv
BY DEF Init, FreshInv, Listed

LEMMA FreshUnchanged ==
  ASSUME [Next]_vars
  PROVE  \/ UNCHANGED <<RemoteServices, listener, silent, skew>>
         \/ \E b \in network, again \in BOOLEAN : Receive(b, again)
         \/ Tick
         \/ StopListening
BY NextUnfolds
DEF Request, SendQuit, TakeAdd, TakeDelete, TakePortAdd, TakePortDelete, Take,
    TakeQuit, Publish, Lose, vars, listenerVars

LEMMA FreshStep == Types /\ FreshInv /\ [Next]_vars => FreshInv'
<1> SUFFICES ASSUME Types, FreshInv, [Next]_vars,
                    NEW u \in Uuids, Listed(u)'
             PROVE  /\ listener' = "running"
                    /\ FreshAge(RemoteServices[u].time, silent[u])'
  BY DEF FreshInv
<1>1. skew' = skew
  BY FreshUnchanged DEF Receive, Tick, StopListening
<1>2. ASSUME NEW time \in Int, NEW since \in Nat, FreshAge(time, since),
             RemoteServices'[u].time = time, silent'[u] = since
      PROVE  FreshAge(RemoteServices[u].time, silent[u])'
  BY <1>1, <1>2 DEF FreshAge, Abs
<1>3. Listed(u) => /\ RemoteServices[u] \in Entries /\ RemoteServices[u].time \in Int
                   /\ silent[u] \in Nat /\ listener = "running"
                   /\ FreshAge(RemoteServices[u].time, silent[u])
  BY DEF FreshInv, Types, Entries, Listed
<1>4. CASE UNCHANGED <<RemoteServices, listener, silent, skew>>
  BY <1>2, <1>3, <1>4 DEF Listed
<1>5. ASSUME NEW b \in network, NEW again \in BOOLEAN, Receive(b, again)
      PROVE  listener' = "running" /\ FreshAge(RemoteServices[u].time, silent[u])'
  <2> DEFINE table == [RemoteServices EXCEPT ![b.uuid] = Entry(b)]
  <2>1. b.uuid \in Uuids /\ b.age \in 0..MaxDelay /\ skew \in Int
    BY BoundsOK DEF Types, Beacons
  <2>2. /\ RemoteServices' = KeepFresh(table)
        /\ silent' = [silent EXCEPT ![b.uuid] = 0]
        /\ listener' = "running"
    BY <1>5 DEF Receive
  <2>3. RemoteServices'[u] = table[u] /\ ~Expired(table[u]) /\ table[u] # NotListed
    BY <2>2 DEF KeepFresh, Listed
  <2>4. CASE u = b.uuid
    <3>1. table[u] = Entry(b)
      BY <2>4 DEF Types
    <3>2. Entry(b).time = skew - b.age /\ skew - b.age \in Int
      BY <2>1, BoundsOK DEF Entry
    <3>3. Elapsed(skew - b.age) \in 0..(Hour - 1) /\ Hour \in Nat /\ kicksec \in Nat
      BY <3>2, ElapsedRange, KickOK
    <3>4. Elapsed(skew - b.age) <= kicksec
      BY <2>3, <3>1, <3>2, <3>3 DEF Expired
    <3>5. FreshAge(skew - b.age, 0)
      BY <2>1, <3>4, ArrivesFresh
    <3>6. silent'[u] = 0
      BY <2>2, <2>4 DEF Types
    <3> QED
      BY <1>2, <2>2, <2>3, <3>1, <3>2, <3>5, <3>6
  <2>5. CASE u # b.uuid
    <3>1. RemoteServices'[u] = RemoteServices[u] /\ silent'[u] = silent[u]
      BY <2>2, <2>3, <2>5 DEF Types
    <3> QED
      BY <1>2, <1>3, <2>2, <2>3, <3>1 DEF Listed
  <2> QED
    BY <2>4, <2>5
<1>6. CASE Tick
  <2> DEFINE older == [v \in Uuids |-> Older(RemoteServices[v])]
  <2>1. CASE listener = "running"
    <3>1. RemoteServices' = KeepFresh(older)
      BY <1>6, <2>1 DEF Tick
    <3>2. RemoteServices'[u] = Older(RemoteServices[u]) /\ RemoteServices'[u] # NotListed
          /\ ~Expired(Older(RemoteServices[u]))
      BY <3>1 DEF KeepFresh, Listed
    <3>3. RemoteServices[u] # NotListed
      BY <3>2 DEF Older
    <3>4. silent'[u] = silent[u] + 1
      BY <1>6, <3>2 DEF Tick
    <3>5. RemoteServices'[u].time = RemoteServices[u].time - 1
      BY <1>3, <3>2, <3>3 DEF Older, Entries, Listed
    <3>6. RemoteServices[u].time - 1 \in Int
      BY <1>3, <3>3 DEF Listed
    <3>7. Elapsed(RemoteServices[u].time - 1) \in 0..(Hour - 1) /\ Hour \in Nat
          /\ kicksec \in Nat
      BY <3>6, ElapsedRange, KickOK
    <3>8. Elapsed(RemoteServices[u].time - 1) <= kicksec
      BY <3>2, <3>5, <3>7 DEF Expired
    <3>9. FreshAge(RemoteServices[u].time - 1, silent[u] + 1)
      BY <1>3, <3>3, <3>8, StaysFresh DEF Listed
    <3>10. silent[u] + 1 \in Nat
      BY DEF Types
    <3> QED
      BY <1>2, <1>6, <2>1, <3>4, <3>5, <3>6, <3>9, <3>10 DEF Tick
  <2>2. CASE listener # "running"
    BY <1>3, <1>6, <2>2 DEF Tick, Listed
  <2> QED
    BY <2>1, <2>2
<1>7. CASE StopListening
  BY <1>7 DEF StopListening, Listed
<1> QED
  BY <1>4, <1>5, <1>6, <1>7, FreshUnchanged

LEMMA FreshIsBounded ==
  Types /\ FreshInv => TypeOK /\ ListedIsFresh
<1> SUFFICES ASSUME Types, FreshInv, NEW u \in Uuids, Listed(u)
             PROVE  /\ RemoteServices[u].time + Abs(skew) + MaxDelay + kicksec >= 0
                    /\ silent[u] <= kicksec + Abs(skew)
  BY DEF TypeOK, ListedIsFresh
<1>1. /\ skew \in Int /\ MaxDelay \in Nat /\ kicksec \in Nat /\ Hour \in Nat
      /\ RemoteServices[u].time \in Int /\ silent[u] \in Nat
  BY BoundsOK, KickOK DEF Types, Listed, Entries
<1>2. Abs(skew) \in Nat
  BY <1>1 DEF Abs
<1>3. Elapsed(RemoteServices[u].time) \in 0..(Hour - 1)
  BY <1>1, ElapsedRange
<1>4. FreshAge(RemoteServices[u].time, silent[u])
  BY DEF FreshInv
<1> QED
  BY <1>1, <1>2, <1>3, <1>4 DEF FreshAge

(* Every variable has its type, and what is listed is no older than clocks *)
(* and delays account for: TypeOK of the runs, for any clocks, delays and  *)
(* services (ServiceDiscovery).                                            *)
THEOREM TypeCorrect == Spec => []TypeOK
BY TypesInit, TypesStep, FreshInit, FreshStep, FreshIsBounded, PTL DEF Spec

(* A service that is listed has been heard of within kicksec and the       *)
(* difference of the clocks: ListedIsFresh of the runs, for any clocks,    *)
(* although only minutes and seconds are compared (ServiceDiscovery).      *)
THEOREM ListedAreFresh == Spec => []ListedIsFresh
BY TypesInit, TypesStep, FreshInit, FreshStep, FreshIsBounded, PTL DEF Spec

----------------------------------------------------------------------------
(* A beacon whose Elapsed is above kicksec is at least that old, or from   *)
(* as far in the future.                                                   *)

LEMMA DroppedHasBeenSilent ==
  ASSUME Types, FreshInv, [Next]_vars, NEW u \in Uuids,
         Listed(u), ~Listed(u)', listener' = "running"
  PROVE  silent[u] + 1 + Abs(skew) + MaxDelay > kicksec
<1>1. /\ skew \in Int /\ MaxDelay \in Nat /\ kicksec \in Nat /\ Hour \in Nat
      /\ silent[u] \in Nat
  BY BoundsOK, KickOK DEF Types
<1>2. /\ RemoteServices[u] \in Entries /\ RemoteServices[u].time \in Int
      /\ FreshAge(RemoteServices[u].time, silent[u])
  BY DEF FreshInv, Types, Entries, Listed
<1>3. ~UNCHANGED <<RemoteServices, listener, silent, skew>>
  BY DEF Listed
<1>4. ASSUME NEW b \in network, NEW again \in BOOLEAN, Receive(b, again)
      PROVE  silent[u] + 1 + Abs(skew) + MaxDelay > kicksec
  <2> DEFINE table == [RemoteServices EXCEPT ![b.uuid] = Entry(b)]
  <2>1. b.uuid \in Uuids /\ b.age \in 0..MaxDelay
    BY DEF Types, Beacons
  <2>2. RemoteServices' = KeepFresh(table)
    BY <1>4 DEF Receive
  <2>3. Entry(b).time = skew - b.age /\ Entry(b) # NotListed
    BY DEF Entry, NotListed
  <2>4. Expired(table[u])
    BY <2>2, <2>3, <1>2 DEF KeepFresh, Listed, Types
  <2>5. CASE u = b.uuid
    <3>1. table[u] = Entry(b)
      BY <2>5 DEF Types
    <3>2. skew - b.age \in Int
      BY <1>1, <2>1
    <3>3. Elapsed(skew - b.age) > kicksec
      BY <2>3, <2>4, <3>1 DEF Expired
    <3>4. Elapsed(skew - b.age) \in 0..(Hour - 1)
          /\ Elapsed(skew - b.age) <= Abs(skew - b.age)
      BY <3>2, ElapsedRange
    <3>5. Abs(skew - b.age) > kicksec
      BY <1>1, <3>2, <3>3, <3>4 DEF Abs
    <3> QED
      BY <1>1, <2>1, <3>5 DEF Abs
  <2>6. CASE u # b.uuid
    <3>1. table[u] = RemoteServices[u]
      BY <2>6 DEF Types
    <3>2. Elapsed(RemoteServices[u].time) > kicksec
      BY <2>4, <3>1 DEF Expired
    <3>3. Elapsed(RemoteServices[u].time) \in 0..(Hour - 1)
      BY <1>2, ElapsedRange
    <3> QED
      BY <1>1, <1>2, <3>2, <3>3 DEF FreshAge
  <2> QED
    BY <2>5, <2>6
<1>5. CASE Tick
  <2> DEFINE time == RemoteServices[u].time
             older == [v \in Uuids |-> Older(RemoteServices[v])]
  <2>1. RemoteServices' = KeepFresh(older)
    BY <1>5 DEF Tick
  <2>2. Older(RemoteServices[u]) # NotListed /\ Older(RemoteServices[u]).time = time - 1
    BY <1>2 DEF Older, Listed, Entries, NotListed
  <2>3. Elapsed(time - 1) > kicksec
    BY <2>1, <2>2 DEF KeepFresh, Expired, Listed
  <2>4. time - 1 \in Int
    BY <1>2
  <2>5. Elapsed(time - 1) \in 0..(Hour - 1) /\ Elapsed(time - 1) <= Abs(time - 1)
    BY <2>4, ElapsedRange
  <2>6. Abs(time - 1) > kicksec
    BY <1>1, <2>3, <2>4, <2>5 DEF Abs
  <2>7. time \in Int /\ time + silent[u] <= Abs(skew)
        /\ time + silent[u] + Abs(skew) + MaxDelay >= 0
    BY <1>2 DEF FreshAge
  <2> HIDE DEF time
  <2> QED
    BY <1>1, <2>6, <2>7 DEF Abs
<1>6. CASE StopListening
  BY <1>6 DEF StopListening
<1> QED
  BY <1>3, <1>4, <1>5, <1>6, FreshUnchanged

(* Nothing is dropped that has been heard of lately: DroppedOnlyWhenSilent *)
(* of the runs, for any clocks and delays (ServiceDiscovery).              *)
THEOREM DroppedAreSilent == Spec => DroppedOnlyWhenSilent
<1> DEFINE Dropped ==
      \A u \in Uuids :
        Listed(u) /\ ~Listed(u)' /\ listener' = "running" =>
          silent[u] + 1 + Abs(skew) + MaxDelay > kicksec
<1>1. Types /\ FreshInv /\ [Next]_vars => [Dropped]_vars
  BY DroppedHasBeenSilent
<1> QED
  BY TypesInit, TypesStep, FreshInit, FreshStep, <1>1, PTL
  DEF Spec, DroppedOnlyWhenSilent

----------------------------------------------------------------------------
(* Ports.  The process's own service is the first or has been removed for  *)
(* good: calls are numbered from 1, its uuid is 0.                         *)

OwnIsFirst == \A i \in DOMAIN PubServices : PubServices[i].uuid = Own => i = 1

PortsInv == OwnIsFirst /\ PortsAtOwnService

LEMMA PortsInit == Init => PortsInv
<1> SUFFICES ASSUME Init PROVE PortsInv
  OBVIOUS
<1>1. /\ DOMAIN PubServices = {1} /\ PubServices[1] = Service(OwnName, Own)
      /\ network = {} /\ \A u \in Uuids : RemoteServices[u].ports = {}
  BY DEF Init, NotListed
<1>2. PubServices[1].uuid = Own /\ PubServices[1].ports = {}
  BY <1>1 DEF Service
<1> QED
  BY <1>1, <1>2 DEF PortsInv, OwnIsFirst, PortsAtOwnService

(* What is announced decides for the listener's table too.                 *)
PortsOfSequence(services) ==
  /\ services[1].uuid = Own
  /\ \A i \in DOMAIN services : services[i].ports # {} => services[i].uuid = Own

LEMMA PortsTaken ==
  ASSUME Types, PortsInv, NEW c \in commands, TakeCommand(c)
  PROVE  /\ OwnIsFirst'
         /\ Announced(Own)' => Announced(Own) /\ PortsOfSequence(PubServices')
<1> USE DEF Take, OwnIsFirst, Announced, PortsOfSequence
<1>1. /\ PubServices \in Seq(Services)
      /\ \A i \in DOMAIN PubServices : PubServices[i].uuid = Own => i = 1
      /\ Announced(Own) => PortsOfSequence(PubServices)
  BY DEF PortsInv, PortsAtOwnService, Types
<1>2. CASE PubServices' = PubServices
  BY <1>1, <1>2
<1>3. CASE TakeAdd(c)
  <2> DEFINE new == Service(c.name, c.call)
  <2>1. new.uuid # Own /\ new.ports = {}
    BY <1>3 DEF TakeAdd, Service, Own, Types, Commands, Quit
  <2>2. PubServices' = Append(PubServices, new)
    BY <1>3 DEF TakeAdd
  <2> HIDE DEF new
  <2>3. /\ DOMAIN PubServices' = DOMAIN PubServices \cup {Len(PubServices) + 1}
        /\ \A i \in DOMAIN PubServices : PubServices'[i] = PubServices[i]
        /\ PubServices'[Len(PubServices) + 1] = new
    BY <1>1, <2>2
  <2>4. Announced(Own)' => 1 \in DOMAIN PubServices
    BY <1>1, <2>1, <2>3
  <2> QED
    BY <1>1, <2>1, <2>3, <2>4
<1>4. ASSUME NEW k \in DOMAIN PubServices, PubServices' = Without(PubServices, k)
      PROVE  /\ OwnIsFirst'
             /\ Announced(Own)' => Announced(Own) /\ PortsOfSequence(PubServices')
  <2>1. \A j \in DOMAIN PubServices' :
          /\ j \in DOMAIN PubServices /\ j + 1 \in DOMAIN PubServices
          /\ PubServices'[j] = IF j < k THEN PubServices[j] ELSE PubServices[j + 1]
    BY <1>1, <1>4, WithoutType
  <2>2. \A j \in DOMAIN PubServices : j \in Nat /\ j >= 1
    BY <1>1
  <2>3. OwnIsFirst'
    BY <1>1, <2>1, <2>2
  <2>4. ASSUME NEW j \in DOMAIN PubServices', PubServices'[j].uuid = Own
        PROVE  j = 1 /\ PubServices'[1] = PubServices[1] /\ PubServices[1].uuid = Own
    BY <1>1, <2>1, <2>2, <2>4
  <2>5. \A j \in DOMAIN PubServices' : PubServices'[j].ports # {} /\ Announced(Own) =>
          PubServices'[j].uuid = Own
    BY <1>1, <2>1
  <2> QED
    BY <2>1, <2>3, <2>4, <2>5
<1>5. ASSUME NEW ports, PubServices # <<>>, PubServices' = WithPorts(ports)
      PROVE  /\ OwnIsFirst'
             /\ Announced(Own)' => Announced(Own) /\ PortsOfSequence(PubServices')
  <2>1. /\ DOMAIN PubServices' = DOMAIN PubServices
        /\ \A j \in DOMAIN PubServices : j # 1 => PubServices'[j] = PubServices[j]
        /\ PubServices'[1] = [PubServices[1] EXCEPT !.ports = ports]
    BY <1>1, <1>5 DEF WithPorts
  <2>2. PubServices[1] \in Services /\ 1 \in DOMAIN PubServices
    BY <1>1, <1>5
  <2>3. PubServices'[1].uuid = PubServices[1].uuid
    BY <2>1, <2>2 DEF Services
  <2> QED
    BY <1>1, <2>1, <2>2, <2>3
<1>6. CASE TakeDelete(c)
  BY <1>2, <1>4, <1>6 DEF TakeDelete
<1>7. CASE TakePortAdd(c) \/ TakePortDelete(c)
  <2>1. CASE PubServices = <<>>
    BY <1>2, <1>7, <2>1 DEF TakePortAdd, TakePortDelete, WithPorts
  <2> QED
    BY <1>5, <1>7, <2>1 DEF TakePortAdd, TakePortDelete
<1> QED
  BY <1>3, <1>6, <1>7 DEF TakeCommand

LEMMA PortsStep == Types /\ PortsInv /\ [Next]_vars => PortsInv'
<1> SUFFICES ASSUME Types, PortsInv, [Next]_vars PROVE PortsInv'
  OBVIOUS
<1> USE DEF PortsInv
<1>1. ASSUME NEW c \in commands, TakeCommand(c) PROVE PortsInv'
  <2>1. UNCHANGED <<network, RemoteServices>>
    BY <1>1 DEF TakeCommand, TakeAdd, TakeDelete, TakePortAdd, TakePortDelete, Take,
                listenerVars
  <2> QED
    BY <1>1, <2>1, PortsTaken DEF PortsAtOwnService, PortsOfSequence
<1>2. CASE UNCHANGED <<PubServices, network, RemoteServices>>
  BY <1>2 DEF OwnIsFirst, PortsAtOwnService, Announced
<1>3. ASSUME UNCHANGED PubServices,
             Announced(Own) => \A b \in network' : b.ports # {} => b.uuid = Own,
             Announced(Own) => \A u \in Uuids : RemoteServices'[u].ports # {} => u = Own
      PROVE  PortsInv'
  BY <1>3 DEF OwnIsFirst, PortsAtOwnService, Announced
<1>4. Announced(Own) =>
        /\ \A i \in DOMAIN PubServices :
             PubServices[i].ports # {} => PubServices[i].uuid = Own
        /\ \A b \in network : b.ports # {} => b.uuid = Own
        /\ \A u \in Uuids : RemoteServices[u].ports # {} => u = Own
  BY DEF PortsAtOwnService
<1>5. ASSUME NEW skipped \in SUBSET (DOMAIN PubServices), Publish(skipped)
      PROVE  PortsInv'
  BY <1>3, <1>4, <1>5 DEF Publish, Beacon, listenerVars
<1>6. ASSUME NEW b \in network, Lose(b) PROVE PortsInv'
  BY <1>3, <1>4, <1>6 DEF Lose, announcerVars, listenerVars
<1>7. ASSUME NEW b \in network, NEW again \in BOOLEAN, Receive(b, again)
      PROVE  PortsInv'
  <2>1. ASSUME NEW u \in Uuids, RemoteServices'[u].ports # {}
        PROVE  \/ u = b.uuid /\ b.ports # {}
               \/ RemoteServices[u].ports # {}
    BY <1>7, <2>1 DEF Receive, KeepFresh, Entry, NotListed, Types
  <2> QED
    BY <1>3, <1>4, <1>7, <2>1 DEF Receive, announcerVars
<1>8. CASE Tick
  <2>1. ASSUME NEW u \in Uuids PROVE Older(RemoteServices[u]).ports = RemoteServices[u].ports
    BY DEF Older, Types, Entries
  <2>2. \A u \in Uuids :
          RemoteServices'[u].ports = {} \/ RemoteServices'[u].ports = RemoteServices[u].ports
    BY <1>8, <2>1 DEF Tick, KeepFresh, NotListed
  <2>3. \A b \in network' : \E c \in network : b.ports = c.ports /\ b.uuid = c.uuid
    BY <1>8 DEF Tick, Types, Beacons
  <2> QED
    BY <1>3, <1>4, <1>8, <2>2, <2>3 DEF Tick
<1>9. CASE StopListening
  BY <1>3, <1>4, <1>9 DEF StopListening, NotListed, announcerVars
<1>10. CASE UNCHANGED vars
  BY <1>2, <1>10 DEF vars, announcerVars, listenerVars
<1>11. CASE SendQuit \/ TakeQuit
  BY <1>2, <1>11 DEF SendQuit, TakeQuit, listenerVars
<1>12. ASSUME NEW command, NEW name, Request(command, name) PROVE PortsInv'
  BY <1>2, <1>12 DEF Request, listenerVars
<1> QED
  BY <1>1, <1>5, <1>6, <1>7, <1>8, <1>9, <1>10, <1>11, <1>12
  DEF Next, AddService, RemoveService, AddPort, RemovePort

(* The ports of a process are announced and listed at its own service as   *)
(* long as that is announced: PortsAtOwnService of the runs, for any       *)
(* services and ports (ServiceDiscovery).                                  *)
THEOREM PortsStayAtOwnService == Spec => []PortsAtOwnService
<1>1. PortsInv => PortsAtOwnService
  BY DEF PortsInv
<1> QED
  BY TypesInit, TypesStep, PortsInit, PortsStep, <1>1, PTL DEF Spec

----------------------------------------------------------------------------
(* Clocks that differ too much, which ClocksAgree leaves out.              *)

ClocksDisagree == \A delay \in 0..MaxDelay : Elapsed(skew - delay) > kicksec

NothingListed == ClocksDisagree => \A u \in Uuids : ~Listed(u)

LEMMA NothingListedStep == Types /\ NothingListed /\ [Next]_vars => NothingListed'
<1> SUFFICES ASSUME Types, NothingListed, [Next]_vars, ClocksDisagree',
                    NEW u \in Uuids
             PROVE  RemoteServices'[u] = NotListed
  BY DEF NothingListed, Listed
<1>1. skew' = skew
  BY FreshUnchanged DEF Receive, Tick, StopListening
<1>2. ClocksDisagree /\ \A v \in Uuids : RemoteServices[v] = NotListed
  BY <1>1 DEF ClocksDisagree, NothingListed, Listed
<1>3. ASSUME NEW b \in network, NEW again \in BOOLEAN, Receive(b, again)
      PROVE  RemoteServices'[u] = NotListed
  <2> DEFINE table == [RemoteServices EXCEPT ![b.uuid] = Entry(b)]
  <2>1. RemoteServices'[u] = IF Expired(table[u]) THEN NotListed ELSE table[u]
    BY <1>3 DEF Receive, KeepFresh
  <2>2. CASE u # b.uuid
    BY <1>2, <2>1, <2>2 DEF Types
  <2>3. CASE u = b.uuid
    <3>1. table[u] = Entry(b) /\ b.age \in 0..MaxDelay
      BY <2>3 DEF Types, Beacons
    <3>2. Entry(b).time = skew - b.age
      BY DEF Entry
    <3>3. Elapsed(Entry(b).time) > kicksec
      BY <1>2, <3>1, <3>2 DEF ClocksDisagree
    <3> QED
      BY <2>1, <3>1, <3>3 DEF Expired
  <2> QED
    BY <2>2, <2>3
<1>4. CASE Tick
  BY <1>2, <1>4 DEF Tick, KeepFresh, Older
<1>5. CASE StopListening
  BY <1>5 DEF StopListening
<1> QED
  BY <1>2, <1>3, <1>4, <1>5, FreshUnchanged

(* If the clocks differ by more than kicksec, but for whole hours, nothing *)
(* is ever listed, however often it announces itself: the condition on the *)
(* clocks in AnnouncedIsListed is needed (MulticastListenThread).          *)
THEOREM WrongClocksListNothing == Spec => []NothingListed
<1>1. Init => NothingListed
  BY DEF Init, NothingListed, Listed
<1> QED
  BY <1>1, TypesInit, TypesStep, NothingListedStep, PTL DEF Spec
============================================================================
