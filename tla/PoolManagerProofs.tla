-------------------------- MODULE PoolManagerProofs --------------------------
(***************************************************************************)
(* Routing and isolation of the pools, and what reloads leave behind, for  *)
(* any configurations and any number of handlers and reloads.              *)
(***************************************************************************)
EXTENDS PoolManager, TLAPS, WellFoundedInduction

\* Rules name pools that exist.
RulesNamePools == \A i \in DOMAIN table : table[i].name \in DOMAIN pools

\* A reload goes through pools that exist, with a configuration it has loaded.
ReloadKnowsPools ==
    \A t \in Reloaders :
        /\ pc[t] = "pools" => visits[t] \subseteq DOMAIN pools
        /\ pc[t] \in {"manager", "pools"} => loaded[t] \in Loads

Routing == TypeOK /\ RulesNamePools /\ ReloadKnowsPools /\ RoutedPoolExists

\* A set of numbers that is not empty has a smallest.
LEMMA LeastExists ==
    ASSUME NEW S \in SUBSET Nat, S # {}
    PROVE  \E i \in S : \A j \in S : i <= j
<1>1. IsWellFoundedOn(OpToRel(<, Nat), Nat)
  BY NatLessThanWellFounded
<1>2. PICK i \in S : \A j \in S : <<j, i>> \notin OpToRel(<, Nat)
  BY <1>1, WFMin
<1>3. \A j \in S : ~(j < i)
  BY <1>2 DEF OpToRel
<1> QED
  BY <1>3

\* A request is routed to a pool that exists.
LEMMA RouteIsAPool ==
    ASSUME TypeOK, RulesNamePools, NEW kind, RouteOf(kind) # None
    PROVE  RouteOf(kind) \in DOMAIN pools
<1> DEFINE byHeader   == {i \in DOMAIN table : kind \in table[i].headers}
           byPattern  == {i \in DOMAIN table : kind \in table[i].patterns}
           candidates == IF byHeader # {} THEN byHeader
                         ELSE IF byPattern # {} THEN byPattern ELSE DOMAIN table
           first == CHOOSE i \in candidates : \A j \in candidates : i <= j
<1>1. DOMAIN table # {} /\ RouteOf(kind) = table[first].name
  BY DEF RouteOf
<1>2. candidates # {} /\ candidates \subseteq DOMAIN table
  BY <1>1
<1>3. candidates \in SUBSET Nat
  BY <1>2 DEF TypeOK
<1>4. first \in candidates
  <2> HIDE DEF candidates
  <2> QED
    BY <1>2, <1>3, LeastExists
<1> QED
  BY <1>1, <1>2, <1>4 DEF RulesNamePools

-----------------------------------------------------------------------------
\* What the slots of a pool are made from.
LEMMA SettingsType ==
    ASSUME NEW c \in Loads, NEW p \in Names
    PROVE  Settings(c, p) \in [dir : Directories, count : Nat]
<1>1. c \in [pools : Seq(Section), count : Nat]
  BY PoolAssumption
<1>2. CASE HasSection(c, p)
  <2> DEFINE named == {i \in DOMAIN c.pools : c.pools[i].name = p}
             first == CHOOSE i \in named : \A j \in named : i <= j
  <2>1. named \in SUBSET Nat /\ named # {} /\ named \subseteq DOMAIN c.pools
    BY <1>1, <1>2 DEF HasSection
  <2>2. first \in named
    <3> HIDE DEF named
    <3> QED
      BY <2>1, LeastExists
  <2>3. c.pools[first] \in Section
    BY <1>1, <2>1, <2>2
  <2>4. Settings(c, p) = [dir |-> p, count |-> c.pools[first].count]
    BY <1>2 DEF Settings
  <2> QED
    BY <2>3, <2>4 DEF Section, Directories
<1>3. CASE ~HasSection(c, p)
  BY <1>1, <1>3 DEF Settings, Directories
<1> QED
  BY <1>2, <1>3

\* Who listens after n processes have been started.
LEMMA BoundType ==
    ASSUME NEW listening, listening \subseteq [at : Sockets, pool : Names],
           NEW p \in Names, NEW d \in Directories, NEW n \in Nat
    PROVE  Bound(listening, p, d, n) \subseteq [at : Sockets, pool : Names]
<1>1. \A i \in 0..(n - 1) : [at |-> [dir |-> d, slot |-> i], pool |-> p] \in [at : Sockets, pool : Names]
  BY DEF Sockets
<1> QED
  BY <1>1 DEF Bound

\* Some number of processes is started.
LEMMA StartedType ==
    ASSUME NEW count \in Nat, NEW n \in Started(count)
    PROVE  n \in Nat
BY DEF Started

\* At first there is no pool.
LEMMA RoutingInit == Init => Routing
<1> SUFFICES ASSUME Init PROVE Routing
  OBVIOUS
<1>1. TypeOK
  BY PoolAssumption DEF Init, TypeOK, Tasks, history
<1> QED
  BY <1>1, PoolAssumption DEF Init, Routing, RulesNamePools, ReloadKnowsPools,
     RoutedPoolExists, Tasks

\* Boot adds a pool and its rule, or nothing.
LEMMA CreatePoolKeeps ==
    ASSUME Routing, CreatePool
    PROVE  Routing'
<1> DEFINE s == Boot.pools[booted + 1]
           set == [dir |-> s.name, count |-> s.count]
<1>1. s \in Section /\ set \in [dir : Directories, count : Nat]
  <2>1. Boot.pools \in Seq(Section)
    BY PoolAssumption
  <2>2. booted + 1 \in 1..Len(Boot.pools)
    BY DEF CreatePool, Routing, TypeOK
  <2>3. s \in Section
    BY <2>1, <2>2
  <2> QED
    BY <2>3 DEF Section, Directories
<1>2. PICK n \in Started(s.count) :
        /\ bound' = Bound(bound, s.name, set.dir, n)
        /\ IF n = s.count
             THEN /\ pools' = [p \in DOMAIN pools \cup {s.name} |->
                                 IF p = s.name THEN set ELSE pools[p]]
                  /\ table' = [i \in DOMAIN table \cup {booted + 1} |->
                                 IF i = booted + 1 THEN s ELSE table[i]]
             ELSE UNCHANGED <<pools, table>>
  BY DEF CreatePool
<1>3. /\ UNCHANGED <<pc, config, pmLock, chosen, socket, loaded, visits, reloads,
                     number, inForce, dropped>>
      /\ booted' = booted + 1
  BY DEF CreatePool, history
<1> HIDE DEF s
<1>4. n \in Nat /\ s.name \in Names
  BY <1>1, StartedType DEF Section
<1>5. bound' \subseteq [at : Sockets, pool : Names]
  BY <1>1, <1>2, <1>4, BoundType DEF Routing, TypeOK, Directories
<1>6. /\ DOMAIN pools \subseteq DOMAIN pools'
      /\ DOMAIN pools' \subseteq Names
      /\ \A p \in DOMAIN pools' : pools'[p] \in [dir : Directories, count : Nat]
      /\ DOMAIN table' \subseteq Nat \ {0}
      /\ \A i \in DOMAIN table' : table'[i] \in Section /\ table'[i].name \in DOMAIN pools'
  <2>1. CASE n = s.count
    <3>1. /\ pools' = [p \in DOMAIN pools \cup {s.name} |-> IF p = s.name THEN set ELSE pools[p]]
          /\ table' = [i \in DOMAIN table \cup {booted + 1} |->
                         IF i = booted + 1 THEN s ELSE table[i]]
      BY <1>2, <2>1
    <3>2. booted + 1 \in Nat \ {0}
      BY DEF Routing, TypeOK
    <3> HIDE DEF set
    <3> QED
      BY <3>1, <3>2, <1>1, <1>4 DEF Routing, TypeOK, RulesNamePools
  <2>2. CASE n # s.count
    BY <1>2, <2>2 DEF Routing, TypeOK, RulesNamePools
  <2> QED
    BY <2>1, <2>2
<1>7. TypeOK'
  BY <1>3, <1>5, <1>6 DEF Routing, TypeOK
<1> QED
  BY <1>3, <1>6, <1>7 DEF Routing, RulesNamePools, ReloadKnowsPools, RoutedPoolExists

\* A handler is given the name of a pool, and finds the pool.
LEMMA ClientKeeps ==
    ASSUME Routing, NEW r \in Clients, ClientNext(r)
    PROVE  Routing'
<1> USE DEF Routing, history
<1>1. CASE Refuse(r)
  BY <1>1 DEF Refuse, vars, TypeOK, RulesNamePools, ReloadKnowsPools, RoutedPoolExists
<1>2. CASE Route(r)
  <2>1. PICK kind \in Kinds :
          RouteOf(kind) # None /\ chosen' = [chosen EXCEPT ![r] = RouteOf(kind)]
    BY <1>2 DEF Route
  <2>2. RouteOf(kind) \in DOMAIN pools
    BY <2>1, RouteIsAPool
  <2>3. /\ pc' = [pc EXCEPT ![r] = "routed"]
        /\ UNCHANGED <<config, pools, table, booted, pmLock, bound, socket, loaded,
                       visits, reloads, history>>
    BY <1>2 DEF Route
  <2> QED
    BY <2>1, <2>2, <2>3, PoolAssumption
       DEF TypeOK, Tasks, RulesNamePools, ReloadKnowsPools, RoutedPoolExists
<1>3. CASE FindPool(r)
  BY <1>3, PoolAssumption
     DEF FindPool, TypeOK, Tasks, RulesNamePools, ReloadKnowsPools, RoutedPoolExists
<1>4. CASE TakeSlot(r)
  <2>1. PICK i \in 0..(pools[chosen[r]].count - 1) :
          socket' = [socket EXCEPT ![r] = [dir |-> pools[chosen[r]].dir, slot |-> i]]
    BY <1>4 DEF TakeSlot
  <2>2. /\ pc' = [pc EXCEPT ![r] = "connect"]
        /\ UNCHANGED <<config, pools, table, booted, pmLock, bound, chosen, loaded,
                       visits, reloads, history>>
        /\ pc[r] = "found"
    BY <1>4 DEF TakeSlot
  <2>3. pools[chosen[r]] \in [dir : Directories, count : Nat]
    BY <2>2 DEF TypeOK, RoutedPoolExists
  <2>4. [dir |-> pools[chosen[r]].dir, slot |-> i] \in Sockets
    BY <2>3 DEF Sockets
  <2>5. TypeOK'
    BY <2>1, <2>2, <2>4 DEF TypeOK, Tasks
  <2> QED
    BY <2>2, <2>5, PoolAssumption
       DEF TypeOK, Tasks, RulesNamePools, ReloadKnowsPools, RoutedPoolExists
<1>5. CASE Finish(r)
  BY <1>5, PoolAssumption
     DEF Finish, TypeOK, Tasks, RulesNamePools, ReloadKnowsPools, RoutedPoolExists
<1> QED
  BY <1>1, <1>2, <1>3, <1>4, <1>5 DEF ClientNext

\* What a pool is replaced with.
LEMMA ReplaceKeeps ==
    ASSUME Routing, NEW t \in Reloaders, NEW p \in DOMAIN pools, NEW n \in Nat,
           loaded[t] \in Loads, Replace(t, p, n)
    PROVE  /\ DOMAIN pools' = DOMAIN pools
           /\ \A q \in DOMAIN pools' : pools'[q] \in [dir : Directories, count : Nat]
           /\ bound' \subseteq [at : Sockets, pool : Names]
           /\ dropped' \subseteq Names
<1> USE DEF Routing
<1> DEFINE new  == Settings(loaded[t], p)
           dir  == IF new.count = pools[p].count THEN pools[p].dir ELSE new.dir
           left == {b \in bound : b.pool # p}
<1>1. /\ pools' = [pools EXCEPT ![p] = [dir |-> dir, count |-> new.count]]
      /\ bound' = Bound(left, p, dir, n)
      /\ dropped' \subseteq dropped \cup {p}
  BY DEF Replace, Drop
<1>2. p \in Names
  BY DEF TypeOK
<1>3. new \in [dir : Directories, count : Nat]
  BY <1>2, SettingsType
<1> HIDE DEF new
<1>4. dir \in Directories
  BY <1>3 DEF TypeOK
<1> HIDE DEF dir
<1>5. bound' \subseteq [at : Sockets, pool : Names]
  BY <1>1, <1>2, <1>4, BoundType DEF TypeOK
<1>6. \A q \in DOMAIN pools' : pools'[q] \in [dir : Directories, count : Nat]
  BY <1>1, <1>3, <1>4 DEF TypeOK
<1> QED
  BY <1>1, <1>2, <1>5, <1>6 DEF TypeOK

\* A reload keeps every pool and only lists pools that exist, whether it ends or
\* is dropped.
LEMMA ReloadKeeps ==
    ASSUME Routing, NEW t \in Reloaders, ReloadNext(t)
    PROVE  Routing' /\ DOMAIN pools' = DOMAIN pools
<1> USE PoolAssumption DEF Routing, history
<1>1. CASE Load(t)
  <2>1. PICK c \in Loads : config' = c /\ loaded' = [loaded EXCEPT ![t] = c]
    BY <1>1 DEF Load
  <2>2. /\ pc' = [pc EXCEPT ![t] = "manager"]
        /\ reloads' = reloads + 1
        /\ number' = [number EXCEPT ![t] = reloads + 1]
        /\ UNCHANGED <<pools, table, booted, pmLock, bound, chosen, socket, visits,
                       inForce, dropped>>
    BY <1>1 DEF Load
  <2> QED
    BY <2>1, <2>2 DEF TypeOK, Tasks, RulesNamePools, ReloadKnowsPools, RoutedPoolExists
<1>2. CASE UpdateTable(t)
  <2>1. /\ pc[t] = "manager"
        /\ pmLock' = t
        /\ table' = Rules(loaded[t], DOMAIN pools)
        /\ visits' = [visits EXCEPT ![t] = DOMAIN pools]
        /\ pc' = [pc EXCEPT ![t] = "pools"]
        /\ inForce' = None
        /\ UNCHANGED <<config, pools, booted, bound, chosen, socket, loaded, reloads,
                       number, dropped>>
    BY <1>2 DEF UpdateTable
  <2>2. loaded[t].pools \in Seq(Section)
    BY <2>1 DEF ReloadKnowsPools
  <2>3. /\ DOMAIN table' \subseteq Nat \ {0}
        /\ \A i \in DOMAIN table' : table'[i] \in Section /\ table'[i].name \in DOMAIN pools
    BY <2>1, <2>2 DEF Rules
  <2> QED
    BY <2>1, <2>3 DEF TypeOK, Tasks, RulesNamePools, ReloadKnowsPools, RoutedPoolExists
<1>3. ASSUME NEW p \in DOMAIN pools, ReloadPool(t, p)
      PROVE  Routing' /\ DOMAIN pools' = DOMAIN pools
  <2>1. /\ pc[t] = "pools"
        /\ visits' = [visits EXCEPT ![t] = @ \ {p}]
        /\ UNCHANGED <<pc, config, table, booted, pmLock, chosen, socket, loaded, reloads,
                       number, inForce>>
    BY <1>3 DEF ReloadPool
  <2>2. loaded[t] \in Loads /\ p \in Names
    BY <2>1 DEF ReloadKnowsPools, TypeOK
  <2>3. PICK n \in Started(Settings(loaded[t], p).count) : Replace(t, p, n)
    BY <1>3 DEF ReloadPool
  <2>4. n \in Nat
    BY <2>2, <2>3, SettingsType, StartedType
  <2>5. /\ DOMAIN pools' = DOMAIN pools
        /\ \A q \in DOMAIN pools' : pools'[q] \in [dir : Directories, count : Nat]
        /\ bound' \subseteq [at : Sockets, pool : Names]
        /\ dropped' \subseteq Names
    BY <2>2, <2>3, <2>4, ReplaceKeeps
  <2> QED
    BY <2>1, <2>5 DEF TypeOK, RulesNamePools, ReloadKnowsPools, RoutedPoolExists
<1>4. ASSUME Leave(t), pmLock' \in {pmLock, None},
             DOMAIN pools' = DOMAIN pools,
             \A q \in DOMAIN pools' : pools'[q] \in [dir : Directories, count : Nat],
             bound' \subseteq [at : Sockets, pool : Names],
             dropped' \subseteq Names,
             inForce' \in [conf : Loads, number : Nat] \cup {None}
      PROVE  Routing' /\ DOMAIN pools' = DOMAIN pools
  <2>1. /\ pc' = [pc EXCEPT ![t] = "idle"]
        /\ loaded' = [loaded EXCEPT ![t] = None]
        /\ visits' = [visits EXCEPT ![t] = {}]
        /\ number' = [number EXCEPT ![t] = 0]
        /\ UNCHANGED <<config, table, booted, chosen, socket, reloads>>
    BY <1>4 DEF Leave
  <2> QED
    BY <1>4, <2>1 DEF TypeOK, Tasks, RulesNamePools, ReloadKnowsPools, RoutedPoolExists
<1>5. CASE FinishReload(t)
  <2>1. /\ Leave(t) /\ pmLock' = None
        /\ UNCHANGED <<pools, bound, dropped>>
        /\ inForce' = [conf |-> loaded[t], number |-> number[t]]
        /\ loaded[t] \in Loads
    BY <1>5 DEF FinishReload, ReloadKnowsPools
  <2> QED
    BY <1>4, <2>1 DEF TypeOK
<1>6. CASE AbandonWaiting(t)
  BY <1>4, <1>6 DEF AbandonWaiting, TypeOK
<1>7. ASSUME NEW p \in DOMAIN pools, AbandonStopping(t, p)
      PROVE  Routing' /\ DOMAIN pools' = DOMAIN pools
  <2>1. /\ Leave(t) /\ pmLock' = None
        /\ UNCHANGED <<pools, inForce, dropped>>
        /\ bound' \subseteq bound
    BY <1>7 DEF AbandonStopping
  <2> QED
    BY <1>4, <2>1 DEF TypeOK
<1>8. ASSUME NEW p \in DOMAIN pools, AbandonStarting(t, p)
      PROVE  Routing' /\ DOMAIN pools' = DOMAIN pools
  <2>1. /\ Leave(t) /\ pmLock' = None /\ inForce' = inForce
        /\ loaded[t] \in Loads /\ p \in Names
    BY <1>8 DEF AbandonStarting, ReloadKnowsPools, TypeOK
  <2>2. PICK n \in 0..Settings(loaded[t], p).count : Replace(t, p, n)
    BY <1>8 DEF AbandonStarting
  <2>3. n \in Nat
    BY <2>1, <2>2, SettingsType
  <2>4. /\ DOMAIN pools' = DOMAIN pools
        /\ \A q \in DOMAIN pools' : pools'[q] \in [dir : Directories, count : Nat]
        /\ bound' \subseteq [at : Sockets, pool : Names]
        /\ dropped' \subseteq Names
    BY <2>1, <2>2, <2>3, ReplaceKeeps
  <2> QED
    BY <1>4, <2>1, <2>4 DEF TypeOK
<1> QED
  BY <1>1, <1>2, <1>3, <1>5, <1>6, <1>7, <1>8 DEF ReloadNext

\* Every step keeps the routing sound.
LEMMA RoutingStep == Routing /\ [Next]_vars => Routing'
<1> SUFFICES ASSUME Routing, [Next]_vars PROVE Routing'
  OBVIOUS
<1>1. CASE CreatePool
  BY <1>1, CreatePoolKeeps
<1>2. CASE \E r \in Clients : ClientNext(r)
  BY <1>2, ClientKeeps
<1>3. CASE \E t \in Reloaders : ReloadNext(t)
  BY <1>3, ReloadKeeps
<1>4. CASE UNCHANGED vars
  BY <1>4 DEF vars, history, Routing, TypeOK, RulesNamePools, ReloadKnowsPools,
     RoutedPoolExists
<1> QED
  BY <1>1, <1>2, <1>3, <1>4 DEF Next

\* get_pool(name).unwrap() never panics: the pool that one guard of the manager
\* named exists under the next, whatever is reloaded in between.
THEOREM RoutedPoolsExist == Spec => []RoutedPoolExists
<1>1. Routing => RoutedPoolExists
  BY DEF Routing
<1> QED
  BY <1>1, RoutingInit, RoutingStep, PTL DEF Spec

-----------------------------------------------------------------------------
(* Isolation, whatever is loaded. *)

\* Whoever of pool p has a place in directory d: it is p's own, or socket.directory
\* itself, and then p is one of the lost ones, which a reload had no section for.
Place(d, p, lost) == d = p \/ (d = Shared /\ p \in lost)

\* Slots, processes and handlers are each in their pool's place.
InPlace ==
    /\ \A p \in DOMAIN pools : Place(pools[p].dir, p, dropped)
    /\ \A b \in bound : Place(b.at.dir, b.pool, dropped)
    /\ \A r \in Clients : pc[r] = "connect" =>
         Place(socket[r].dir, chosen[r], dropped) /\ chosen[r] \in Names

\* A place stays one.
LEMMA PlaceStays ==
    ASSUME NEW d, NEW p, NEW lost, NEW more, Place(d, p, lost), lost \subseteq more
    PROVE  Place(d, p, more)
BY DEF Place

\* Processes that are started for a pool in its place.
LEMMA BoundInPlace ==
    ASSUME NEW listening, NEW p, NEW d, NEW n, NEW b \in Bound(listening, p, d, n)
    PROVE  b \in listening \/ (b.at.dir = d /\ b.pool = p)
BY DEF Bound

\* A pool is replaced in its place.
LEMMA ReplaceInPlace ==
    ASSUME InPlace, NEW t \in Reloaders, NEW p \in DOMAIN pools, NEW n,
           Replace(t, p, n)
    PROVE  /\ dropped \subseteq dropped'
           /\ \A q \in DOMAIN pools' : Place(pools'[q].dir, q, dropped')
           /\ \A b \in bound' : Place(b.at.dir, b.pool, dropped')
<1> DEFINE new  == Settings(loaded[t], p)
           dir  == IF new.count = pools[p].count THEN pools[p].dir ELSE new.dir
           left == {b \in bound : b.pool # p}
<1>1. /\ pools' = [pools EXCEPT ![p] = [dir |-> dir, count |-> new.count]]
      /\ bound' = Bound(left, p, dir, n)
      /\ dropped' = dropped \cup (IF HasSection(loaded[t], p) THEN {} ELSE {p})
  BY DEF Replace, Drop
<1>2. dropped \subseteq dropped'
  BY <1>1
<1>3. Place(new.dir, p, dropped')
  BY <1>1 DEF Settings, Place
<1>4. Place(pools[p].dir, p, dropped')
  BY <1>2, PlaceStays DEF InPlace
<1> HIDE DEF new
<1>5. Place(dir, p, dropped')
  BY <1>3, <1>4 DEF Place
<1> HIDE DEF dir
<1>6. ASSUME NEW q \in DOMAIN pools' PROVE Place(pools'[q].dir, q, dropped')
  <2>1. CASE q = p
    BY <1>1, <1>5, <2>1 DEF Place
  <2>2. CASE q # p
    <3>1. q \in DOMAIN pools /\ pools'[q] = pools[q]
      BY <1>1, <2>2
    <3> QED
      BY <1>2, <3>1 DEF InPlace, Place
  <2> QED
    BY <2>1, <2>2
<1>7. ASSUME NEW b \in bound' PROVE Place(b.at.dir, b.pool, dropped')
  <2>1. b \in left \/ (b.at.dir = dir /\ b.pool = p)
    BY <1>1, BoundInPlace
  <2>2. CASE b \in left
    BY <1>2, <2>2 DEF InPlace, Place
  <2>3. CASE b.at.dir = dir /\ b.pool = p
    BY <1>5, <2>3 DEF Place
  <2> QED
    BY <2>1, <2>2, <2>3
<1> QED
  BY <1>2, <1>6, <1>7

\* Every step keeps all of them in place.
LEMMA InPlaceStep ==
    ASSUME Routing, InPlace, [Next]_vars
    PROVE  InPlace'
<1> USE DEF Routing, history
<1>1. CASE CreatePool
  <2> DEFINE s == Boot.pools[booted + 1]
             set == [dir |-> s.name, count |-> s.count]
  <2>1. PICK n \in Started(s.count) :
          /\ bound' = Bound(bound, s.name, set.dir, n)
          /\ IF n = s.count
               THEN /\ pools' = [p \in DOMAIN pools \cup {s.name} |->
                                   IF p = s.name THEN set ELSE pools[p]]
                    /\ table' = [i \in DOMAIN table \cup {booted + 1} |->
                                   IF i = booted + 1 THEN s ELSE table[i]]
               ELSE UNCHANGED <<pools, table>>
    BY <1>1 DEF CreatePool
  <2>2. UNCHANGED <<pc, chosen, socket, dropped>>
    BY <1>1 DEF CreatePool
  <2> HIDE DEF s
  <2>3. \A p \in DOMAIN pools' : Place(pools'[p].dir, p, dropped')
    BY <2>1, <2>2 DEF InPlace, Place
  <2>4. ASSUME NEW b \in bound' PROVE Place(b.at.dir, b.pool, dropped')
    <3>1. b \in bound \/ (b.at.dir = s.name /\ b.pool = s.name)
      BY <2>1, BoundInPlace
    <3> QED
      BY <2>2, <3>1 DEF InPlace, Place
  <2> QED
    BY <2>2, <2>3, <2>4 DEF InPlace, Place
<1>2. ASSUME NEW r \in Clients, ClientNext(r) PROVE InPlace'
  <2>1. UNCHANGED <<pools, bound, dropped>>
    BY <1>2 DEF ClientNext, Refuse, Route, FindPool, TakeSlot, Finish, vars
  <2>2. CASE TakeSlot(r)
    <3>1. PICK i \in 0..(pools[chosen[r]].count - 1) :
            socket' = [socket EXCEPT ![r] = [dir |-> pools[chosen[r]].dir, slot |-> i]]
      BY <2>2 DEF TakeSlot
    <3>2. /\ pc[r] = "found" /\ pc' = [pc EXCEPT ![r] = "connect"] /\ chosen' = chosen
      BY <2>2 DEF TakeSlot
    <3>3. chosen[r] \in DOMAIN pools /\ chosen[r] \in Names
      BY <3>2 DEF RoutedPoolExists, TypeOK
    <3>4. socket'[r].dir = pools[chosen[r]].dir
      BY <3>1 DEF TypeOK
    <3>5. \A q \in Clients \ {r} : pc'[q] = pc[q] /\ socket'[q] = socket[q]
      BY <3>1, <3>2 DEF TypeOK, Tasks
    <3> QED
      BY <2>1, <3>2, <3>3, <3>4, <3>5 DEF InPlace, Place
  <2>3. CASE Refuse(r) \/ Route(r) \/ FindPool(r) \/ Finish(r)
    <3>1. \A q \in Clients : pc'[q] = "connect" =>
            pc[q] = "connect" /\ chosen'[q] = chosen[q] /\ socket'[q] = socket[q]
      BY <2>3 DEF Refuse, Route, FindPool, Finish, vars, TypeOK, Tasks
    <3> QED
      BY <2>1, <3>1 DEF InPlace, Place
  <2> QED
    BY <1>2, <2>2, <2>3 DEF ClientNext
<1>3. ASSUME NEW t \in Reloaders, ReloadNext(t) PROVE InPlace'
  <2>1. chosen' = chosen /\ socket' = socket
    BY <1>3 DEF ReloadNext, Load, UpdateTable, ReloadPool, Leave, FinishReload,
                AbandonWaiting, AbandonStopping, AbandonStarting
  <2>2. \A r \in Clients : pc'[r] = pc[r]
    BY <1>3, PoolAssumption
       DEF ReloadNext, Load, UpdateTable, ReloadPool, Leave, FinishReload,
           AbandonWaiting, AbandonStopping, AbandonStarting, TypeOK, Tasks
  <2>3. CASE /\ dropped \subseteq dropped'
             /\ \A q \in DOMAIN pools' : Place(pools'[q].dir, q, dropped')
             /\ \A b \in bound' : Place(b.at.dir, b.pool, dropped')
    BY <2>1, <2>2, <2>3 DEF InPlace, Place
  <2>4. CASE \E p \in DOMAIN pools, n \in Nat : Replace(t, p, n)
    BY <2>3, <2>4, ReplaceInPlace
  <2>5. CASE \E p \in DOMAIN pools : ReloadPool(t, p) \/ AbandonStarting(t, p)
    <3>1. PICK p \in DOMAIN pools : ReloadPool(t, p) \/ AbandonStarting(t, p)
      BY <2>5
    <3>2. loaded[t] \in Loads /\ p \in Names
      BY <3>1 DEF ReloadPool, AbandonStarting, ReloadKnowsPools, TypeOK
    <3>3. PICK n \in 0..Settings(loaded[t], p).count \cup Started(Settings(loaded[t], p).count) :
            Replace(t, p, n)
      BY <3>1 DEF ReloadPool, AbandonStarting
    <3>4. n \in Nat
      BY <3>2, <3>3, SettingsType, StartedType
    <3> QED
      BY <2>4, <3>3, <3>4
  <2>6. CASE UNCHANGED <<pools, dropped>> /\ bound' \subseteq bound
    BY <2>3, <2>6 DEF InPlace, Place
  <2> QED
    BY <1>3, <2>5, <2>6
       DEF ReloadNext, Load, UpdateTable, FinishReload, AbandonWaiting, AbandonStopping
<1>4. CASE UNCHANGED vars
  BY <1>4 DEF vars, InPlace, Place
<1> QED
  BY <1>1, <1>2, <1>3, <1>4 DEF Next

\* What listens at a handler's socket was started for the pool of its request,
\* unless reloads had no section for either: whatever is loaded, however reloads
\* cross and wherever they are dropped.
THEOREM PoolIsolation == Spec => []PoolsAreIsolated
<1>1. Init => InPlace
  BY PoolAssumption DEF Init, InPlace, Tasks
<1>2. Routing /\ InPlace => PoolsAreIsolated
  <2> SUFFICES ASSUME Routing, InPlace,
                      NEW r \in Clients, pc[r] = "connect",
                      NEW b \in bound, b.at = socket[r]
               PROVE  b.pool = chosen[r] \/ {b.pool, chosen[r]} \subseteq dropped
    BY DEF PoolsAreIsolated
  <2>1. Place(b.at.dir, b.pool, dropped) /\ Place(b.at.dir, chosen[r], dropped)
    BY DEF InPlace
  <2>2. b.pool # Shared /\ chosen[r] # Shared
    BY PoolAssumption DEF InPlace, Routing, TypeOK
  <2> QED
    BY <2>1, <2>2 DEF Place
<1>3. Routing /\ InPlace /\ [Next]_vars => InPlace'
  BY InPlaceStep
<1> QED
  BY <1>1, <1>2, <1>3, RoutingInit, RoutingStep, PTL DEF Spec

-----------------------------------------------------------------------------
(* What reloads leave behind. *)

\* The reload at the pools has the manager's mutex, has replaced the table and
\* has done with all the pools but those that it has still to visit.
AtPools(t) ==
    /\ inForce = None
    /\ table = Rules(loaded[t], DOMAIN pools)
    /\ \A p \in DOMAIN pools \ visits[t] : pools[p].count = Settings(loaded[t], p).count

\* What was stored last is the server's configuration, and no reload is before
\* the end of boot.
Reloading ==
    /\ Serving \/ (reloads = 0 /\ inForce = None /\ \A t \in Reloaders : pc[t] = "idle")
    /\ \A t \in Reloaders :
         /\ pc[t] \in {"idle", "manager", "pools"}
         /\ pmLock = t <=> pc[t] = "pools"
         /\ number[t] <= reloads
         /\ pc[t] # "idle" /\ number[t] = reloads => loaded[t] = config
         /\ pc[t] = "pools" => AtPools(t)
    /\ inForce # None => inForce.number <= reloads
    /\ ReloadTakesEffect

\* Steps that leave the table, the pools and the reloads as they are.
LEMMA ReloadingKept ==
    ASSUME Reloading,
           UNCHANGED <<booted, reloads, pmLock, loaded, config, table, pools, visits,
                       number, inForce>>,
           \A t \in Reloaders : pc'[t] = pc[t]
    PROVE  Reloading'
<1>1. \A c : InForce(c)' <=> InForce(c)
  BY DEF InForce
<1>2. \A t \in Reloaders : AtPools(t) => AtPools(t)'
  BY DEF AtPools
<1>3. ReloadTakesEffect'
  BY <1>1 DEF Reloading, ReloadTakesEffect
<1> QED
  BY <1>2, <1>3 DEF Reloading, Serving

\* A reload that ends or is dropped leaves the others as they are.
LEMMA LeaveKeeps ==
    ASSUME Routing, Reloading, NEW t \in Reloaders, Leave(t), pc[t] # "idle",
           \/ pc[t] = "manager" /\ UNCHANGED <<pmLock, pools, inForce>>
           \/ pc[t] = "pools" /\ pmLock' = None,
           inForce' # None => inForce'.number <= reloads,
           ReloadTakesEffect'
    PROVE  Reloading'
<1> USE PoolAssumption DEF Routing
<1>1. /\ pc' = [pc EXCEPT ![t] = "idle"]
      /\ loaded' = [loaded EXCEPT ![t] = None]
      /\ visits' = [visits EXCEPT ![t] = {}]
      /\ number' = [number EXCEPT ![t] = 0]
      /\ UNCHANGED <<config, table, booted, reloads>>
  BY DEF Leave
<1>2. /\ pc'[t] = "idle" /\ number'[t] = 0
      /\ \A u \in Reloaders \ {t} : /\ pc'[u] = pc[u] /\ loaded'[u] = loaded[u]
                                    /\ visits'[u] = visits[u] /\ number'[u] = number[u]
  BY <1>1 DEF TypeOK, Tasks
<1>3. Serving' /\ reloads' = reloads /\ reloads \in Nat
  BY <1>1 DEF Reloading, Serving, TypeOK
<1>4. t # None
  BY DEF Tasks
<1>5. \A u \in Reloaders : pmLock' = u <=> pc'[u] = "pools"
  BY <1>2, <1>4 DEF Reloading, Tasks
<1>6. ASSUME NEW u \in Reloaders, pc'[u] = "pools" PROVE AtPools(u)'
  <2>1. u # t /\ pc[u] = "pools"
    BY <1>2, <1>6
  <2>2. pc[t] = "manager" /\ UNCHANGED <<pmLock, pools, inForce>>
    BY <2>1 DEF Reloading
  <2> QED
    BY <1>1, <1>2, <2>1, <2>2 DEF Reloading, AtPools
<1>7. \A u \in Reloaders : /\ pc'[u] \in {"idle", "manager", "pools"}
                           /\ number'[u] <= reloads
                           /\ pc'[u] # "idle" /\ number'[u] = reloads => loaded'[u] = config'
  BY <1>1, <1>2, <1>3 DEF Reloading
<1> QED
  BY <1>3, <1>5, <1>6, <1>7 DEF Reloading

\* A reload, from its configuration to its end or the moment it is dropped.
LEMMA ReloadReloads ==
    ASSUME Routing, Reloading, NEW t \in Reloaders, ReloadNext(t)
    PROVE  Reloading'
<1> USE PoolAssumption DEF Routing
<1>0. /\ pc \in [Tasks -> {"idle", "routed", "found", "connect", "manager", "pools"}]
      /\ t \in Tasks /\ t # None
      /\ reloads \in Nat /\ number \in [Reloaders -> Nat]
      /\ loaded \in [Reloaders -> Loads \cup {None}]
      /\ visits \in [Reloaders -> SUBSET Names]
  BY DEF TypeOK, Tasks
<1>1. CASE Load(t)
  <2>1. PICK c \in Loads : config' = c /\ loaded' = [loaded EXCEPT ![t] = c]
    BY <1>1 DEF Load
  <2>2. /\ pc[t] = "idle" /\ pc' = [pc EXCEPT ![t] = "manager"]
        /\ Serving /\ Serving'
        /\ reloads' = reloads + 1
        /\ number' = [number EXCEPT ![t] = reloads + 1]
        /\ UNCHANGED <<pools, table, booted, pmLock, visits, inForce>>
    BY <1>1 DEF Load, Serving
  <2>3. /\ pc'[t] = "manager" /\ loaded'[t] = config' /\ number'[t] = reloads'
        /\ \A u \in Reloaders \ {t} :
             pc'[u] = pc[u] /\ loaded'[u] = loaded[u] /\ number'[u] = number[u]
    BY <1>0, <2>1, <2>2 DEF Tasks
  <2>4. ASSUME NEW u \in Reloaders
        PROVE  /\ pc'[u] \in {"idle", "manager", "pools"}
               /\ pmLock' = u <=> pc'[u] = "pools"
               /\ number'[u] <= reloads'
               /\ pc'[u] # "idle" /\ number'[u] = reloads' => loaded'[u] = config'
               /\ pc'[u] = "pools" => AtPools(u)'
    <3>1. CASE u = t
      BY <1>0, <2>2, <2>3, <3>1 DEF Reloading
    <3>2. CASE u # t
      <4>1. number[u] \in Nat /\ number[u] <= reloads
        BY <1>0 DEF Reloading
      <4>2. AtPools(u) => AtPools(u)'
        BY <2>2, <2>3, <3>2 DEF AtPools
      <4> QED
        BY <1>0, <2>2, <2>3, <3>2, <4>1, <4>2 DEF Reloading
    <3> QED
      BY <3>1, <3>2
  <2>5. /\ inForce' # None => inForce'.number <= reloads' /\ inForce'.number # reloads'
        /\ ReloadTakesEffect'
    <3>1. inForce # None => inForce.number \in Nat /\ inForce.number <= reloads
      BY DEF TypeOK, Reloading
    <3>2. inForce' # None => inForce'.number <= reloads' /\ inForce'.number # reloads'
      BY <1>0, <2>2, <3>1
    <3>3. inForce' # None => InForce(inForce.conf)'
      BY <2>2 DEF Reloading, ReloadTakesEffect, InForce
    <3> QED
      BY <2>2, <3>2, <3>3 DEF ReloadTakesEffect
  <2> QED
    BY <2>2, <2>4, <2>5 DEF Reloading
<1>2. CASE UpdateTable(t)
  <2>1. /\ pc[t] = "manager" /\ pc' = [pc EXCEPT ![t] = "pools"]
        /\ pmLock = None /\ pmLock' = t
        /\ table' = Rules(loaded[t], DOMAIN pools)
        /\ visits' = [visits EXCEPT ![t] = DOMAIN pools]
        /\ inForce' = None
        /\ UNCHANGED <<config, pools, booted, loaded, reloads, number>>
    BY <1>2 DEF UpdateTable
  <2>2. pc'[t] = "pools" /\ visits'[t] = DOMAIN pools'
    BY <1>0, <2>1
  <2>3. \A u \in Reloaders \ {t} : pc'[u] = pc[u] /\ pc[u] # "pools" /\ u # None
    BY <1>0, <2>1 DEF Reloading, Tasks
  <2>4. AtPools(t)'
    BY <2>1, <2>2 DEF AtPools
  <2>5. Serving' /\ ReloadTakesEffect'
    BY <2>1 DEF Reloading, Serving, ReloadTakesEffect
  <2>6. \A u \in Reloaders :
          /\ pc'[u] \in {"idle", "manager", "pools"}
          /\ pmLock' = u <=> pc'[u] = "pools"
          /\ pc'[u] = "pools" => AtPools(u)'
    BY <2>1, <2>2, <2>3, <2>4 DEF Reloading
  <2>7. \A u \in Reloaders :
          /\ number'[u] <= reloads'
          /\ pc'[u] # "idle" /\ number'[u] = reloads' => loaded'[u] = config'
    BY <2>1, <2>2, <2>3 DEF Reloading
  <2> QED
    BY <2>1, <2>5, <2>6, <2>7 DEF Reloading
<1>3. ASSUME NEW p \in DOMAIN pools, ReloadPool(t, p) PROVE Reloading'
  <2> DEFINE new == Settings(loaded[t], p)
             dir == IF new.count = pools[p].count THEN pools[p].dir ELSE new.dir
  <2>1. /\ pc[t] = "pools" /\ p \in visits[t]
        /\ pools' = [pools EXCEPT ![p] = [dir |-> dir, count |-> new.count]]
        /\ visits' = [visits EXCEPT ![t] = @ \ {p}]
        /\ UNCHANGED <<pc, config, table, booted, pmLock, loaded, reloads, number, inForce>>
    BY <1>3 DEF ReloadPool, Replace
  <2>2. \A u \in Reloaders : pc[u] = "pools" => u = t
    BY <2>1 DEF Reloading
  <2>3. AtPools(t)
    BY <2>1 DEF Reloading
  <2>4. /\ DOMAIN pools' = DOMAIN pools
        /\ pools'[p].count = new.count
        /\ \A q \in DOMAIN pools \ {p} : pools'[q] = pools[q]
    BY <2>1
  <2>5. visits'[t] = visits[t] \ {p}
    BY <1>0, <2>1
  <2>6. \A q \in DOMAIN pools' \ visits'[t] : pools'[q].count = Settings(loaded'[t], q).count
    <3> SUFFICES ASSUME NEW q \in DOMAIN pools' \ visits'[t]
                 PROVE  pools'[q].count = Settings(loaded[t], q).count
      BY <2>1
    <3>1. CASE q = p
      BY <2>4, <3>1
    <3>2. CASE q # p
      BY <2>3, <2>4, <2>5, <3>2 DEF AtPools
    <3> QED
      BY <3>1, <3>2
  <2> HIDE DEF new, dir
  <2>7. AtPools(t)' /\ inForce' = None
    BY <2>1, <2>3, <2>4, <2>6 DEF AtPools
  <2>8. Serving' /\ ReloadTakesEffect'
    BY <2>1, <2>7 DEF Reloading, Serving, ReloadTakesEffect
  <2> QED
    BY <2>1, <2>2, <2>7, <2>8 DEF Reloading
<1>4. CASE FinishReload(t)
  <2>1. /\ pc[t] = "pools" /\ visits[t] = {} /\ pmLock' = None
        /\ Leave(t)
        /\ inForce' = [conf |-> loaded[t], number |-> number[t]]
        /\ UNCHANGED <<pools, config, table, reloads>>
    BY <1>4 DEF FinishReload, Leave
  <2>c. PICK c : c = loaded[t]
    OBVIOUS
  <2>2. InForce(c)'
    BY <2>c, <2>1 DEF Reloading, AtPools, InForce
  <2>3. inForce'.number <= reloads /\ (inForce'.number = reloads => inForce'.conf = config)
    BY <2>1 DEF Reloading
  <2>4. ReloadTakesEffect'
    BY <2>1, <2>c, <2>2, <2>3 DEF ReloadTakesEffect
  <2> QED
    BY <2>1, <2>3, <2>4, LeaveKeeps
<1>5. CASE AbandonWaiting(t)
  <2>1. /\ pc[t] = "manager" /\ Leave(t)
        /\ UNCHANGED <<pools, pmLock, inForce, config, table, reloads>>
    BY <1>5 DEF AbandonWaiting, Leave
  <2>2. ReloadTakesEffect'
    BY <2>1 DEF Reloading, ReloadTakesEffect, InForce
  <2> QED
    BY <2>1, <2>2, LeaveKeeps DEF Reloading
<1>6. ASSUME NEW p \in DOMAIN pools, AbandonStopping(t, p) \/ AbandonStarting(t, p)
      PROVE  Reloading'
  <2>1. pc[t] = "pools" /\ Leave(t) /\ pmLock' = None /\ inForce' = inForce
    BY <1>6 DEF AbandonStopping, AbandonStarting
  <2>2. inForce' = None
    BY <2>1 DEF Reloading, AtPools
  <2>3. ReloadTakesEffect'
    BY <2>2 DEF ReloadTakesEffect
  <2> QED
    BY <2>1, <2>2, <2>3, LeaveKeeps
<1> QED
  BY <1>1, <1>2, <1>3, <1>4, <1>5, <1>6 DEF ReloadNext

\* Every step keeps it, those of boot and of handlers as well.
LEMMA ReloadingStep == Routing /\ Reloading /\ [Next]_vars => Reloading'
<1> SUFFICES ASSUME Routing, Reloading, [Next]_vars PROVE Reloading'
  OBVIOUS
<1> USE DEF Routing, history
<1>1. CASE CreatePool
  <2>1. /\ ~Serving
        /\ UNCHANGED <<pc, config, pmLock, loaded, visits, reloads, number, inForce>>
    BY <1>1 DEF CreatePool, Serving
  <2>2. reloads = 0 /\ inForce = None /\ \A t \in Reloaders : pc[t] = "idle"
    BY <2>1 DEF Reloading
  <2> QED
    BY <2>1, <2>2 DEF Reloading, ReloadTakesEffect
<1>2. ASSUME NEW r \in Clients, ClientNext(r) PROVE Reloading'
  <2>1. \A t \in Reloaders : pc'[t] = pc[t]
    BY <1>2, PoolAssumption
       DEF ClientNext, Refuse, Route, FindPool, TakeSlot, Finish, vars, TypeOK, Tasks
  <2>2. UNCHANGED <<booted, reloads, pmLock, loaded, config, table, pools, visits,
                    number, inForce>>
    BY <1>2 DEF ClientNext, Refuse, Route, FindPool, TakeSlot, Finish, vars
  <2> QED
    BY <2>1, <2>2, ReloadingKept
<1>3. CASE \E t \in Reloaders : ReloadNext(t)
  BY <1>3, ReloadReloads
<1>4. CASE UNCHANGED vars
  BY <1>4, ReloadingKept DEF vars
<1> QED
  BY <1>1, <1>2, <1>3, <1>4 DEF Next

LEMMA ReloadingInit == Init => Reloading
<1> SUFFICES ASSUME Init PROVE Reloading
  OBVIOUS
<1>1. ReloadTakesEffect
  BY DEF Init, ReloadTakesEffect
<1> QED
  BY <1>1, PoolAssumption DEF Init, Reloading, Tasks

\* What a reload that has ended loaded is in force until another replaces the
\* table, for any configurations and any number of reloads, whether their clients
\* stay or leave.
THEOREM ReloadsTakeEffect == Spec => []ReloadTakesEffect
<1>1. Routing /\ Reloading => ReloadTakesEffect
  BY DEF Reloading
<1> QED
  BY <1>1, ReloadingInit, RoutingInit, RoutingStep, ReloadingStep, PTL DEF Spec

\* The types are kept, and the manager's mutex is the reload's at the pools.
THEOREM ManagerOwned == Spec => []ManagerIsOwned
<1>1. Routing /\ Reloading => ManagerIsOwned
  BY DEF Routing, Reloading, ManagerIsOwned
<1> QED
  BY <1>1, ReloadingInit, RoutingInit, RoutingStep, ReloadingStep, PTL DEF Spec
=============================================================================
