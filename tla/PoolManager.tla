----------------------------- MODULE PoolManager -----------------------------
(***************************************************************************)
(* The pool manager: the pools that boot creates from the configuration,   *)
(* the routing table, the two lock sections in which a handler finds its   *)
(* pool, and reloads that change the table and the pools in between.       *)
(*                                                                         *)
(* Abstracted: a request is the kind of path and headers it has, and a     *)
(* section of the configuration names the kinds that its headers and its   *)
(* patterns match (Routing compares the texts); a pool is the directory    *)
(* and the number of its sockets; the reload of one pool, which holds the  *)
(* pool's mutex throughout, is one step, unless the client of an HTTP      *)
(* reload leaves in the middle of it (ServerLifecycle has all its steps);  *)
(* restarts of single slots, which put a process of the same pool at the   *)
(* same socket, are PhpServer's; the table keeps the positions its rules   *)
(* have in the configuration.                                              *)
(*                                                                         *)
(* inForce, number and dropped are history variables: what reloads have    *)
(* done, for the properties to read.                                       *)
(***************************************************************************)
EXTENDS Integers, Sequences

CONSTANTS
    Clients,         \* the handlers of requests
    Reloaders,       \* the tasks that reload
    Cancellable,     \* those of them that are dropped when their client leaves:
                     \* handlers of the reload route, not SIGHUP's task
    Names,           \* the names of pools
    Kinds,           \* the kinds of requests
    Loads,           \* the configurations that can be loaded
    Boot,            \* the one the server is started with
    Shared,          \* socket.directory itself
    SpawnMayFail,    \* whether the start of a process may fail
    MaxReloads,      \* bound: how many reloads may begin
    None

Tasks == Clients \cup Reloaders

\* A section of config.pools.
Section == [name : Names, count : Nat, headers : SUBSET Kinds, patterns : SUBSET Kinds]

ASSUME PoolAssumption ==
    /\ Clients \cap Reloaders = {}
    /\ Cancellable \subseteq Reloaders
    /\ None \notin Names \cup Tasks \cup Loads
    /\ Shared \notin Names
    /\ Loads \subseteq [pools : Seq(Section), count : Nat]
    /\ Boot \in Loads
    /\ SpawnMayFail \in BOOLEAN
    /\ MaxReloads \in Nat

VARIABLES
    pc,              \* where each task is
    config,          \* AppState.config
    pools,           \* pools[p]: the directory and number of p's sockets
    table,           \* the routing table
    booted,          \* how many sections PoolManager::new has gone through
    pmLock,          \* the reloader that holds the manager's mutex, or None
    bound,           \* who listens where: the sockets of PHP processes with the
                     \* pool that each process was started for
    chosen,          \* pool_name of a handler, or None
    socket,          \* the socket of the slot a handler was given, or None
    loaded,          \* new_config of a reloader, or None
    visits,          \* the pools that a reload has still to go through
    reloads,         \* how many reloads have begun
    number,          \* number[t]: which of them is t's
    inForce,         \* the configuration and the number of the reload that ended
                     \* last, or None once another one has replaced the table
    dropped          \* the pools that some reload had no section for

history == <<number, inForce, dropped>>
vars == <<pc, config, pools, table, booted, pmLock, bound, chosen, socket,
          loaded, visits, reloads, history>>

Directories == Names \cup {Shared}
Sockets == [dir : Directories, slot : Nat]
Sections(c) == {c.pools[i] : i \in DOMAIN c.pools}

Init ==
    /\ pc = [t \in Tasks |-> "idle"]
    /\ config = Boot
    /\ pools = [p \in {} |-> None]
    /\ table = [i \in {} |-> None]
    /\ booted = 0
    /\ pmLock = None
    /\ bound = {}
    /\ chosen = [r \in Clients |-> None]
    /\ socket = [r \in Clients |-> None]
    /\ loaded = [t \in Reloaders |-> None]
    /\ visits = [t \in Reloaders |-> {}]
    /\ reloads = 0
    /\ number = [t \in Reloaders |-> 0]
    /\ inForce = None
    /\ dropped = {}

-----------------------------------------------------------------------------
\* c has a section of that name.
HasSection(c, p) == \E i \in DOMAIN c.pools : c.pools[i].name = p

\* Mutant: a pool is reloaded without the settings of its section.
SettingsOfAll(c, p) == [dir |-> Shared, count |-> c.count]

\* What pool p is reloaded with: build_pool_config of its section or, when c
\* has no section of that name, c itself.
Settings(c, p) ==
    IF HasSection(c, p)
    THEN LET named == {i \in DOMAIN c.pools : c.pools[i].name = p}
             first == CHOOSE i \in named : \A j \in named : i <= j
         IN  [dir |-> p, count |-> c.pools[first].count]
    ELSE [dir |-> Shared, count |-> c.count]

\* Mutant: update_routing_table does not ask whether the pool exists.
RulesOfAll(c, running) == c.pools

\* update_routing_table: the sections of pools that exist are the rules.
Rules(c, running) ==
    [i \in {i \in DOMAIN c.pools : c.pools[i].name \in running} |-> c.pools[i]]

\* get_pool_name_for_request: the first rule one of whose headers matches, or
\* else the first one of whose patterns does, or else the first.
RouteOf(kind) ==
    LET byHeader   == {i \in DOMAIN table : kind \in table[i].headers}
        byPattern  == {i \in DOMAIN table : kind \in table[i].patterns}
        candidates == IF byHeader # {} THEN byHeader
                      ELSE IF byPattern # {} THEN byPattern ELSE DOMAIN table
    IN  IF DOMAIN table = {} THEN None
        ELSE table[CHOOSE i \in candidates : \A j \in candidates : i <= j].name

\* How many of n processes start before the first error.
Started(n) == IF SpawnMayFail THEN 0..n ELSE {n}

\* n processes of pool p take over the first n sockets of directory d, which are
\* numbered from 0: start() removes the file of the one that was there before.
Bound(listening, p, d, n) ==
    {b \in listening : b.at.dir # d \/ b.at.slot >= n}
        \cup {[at |-> [dir |-> d, slot |-> i], pool |-> p] : i \in 0..(n - 1)}

-----------------------------------------------------------------------------
\* PoolManager::new creates the next pool, or leaves it out, with the processes
\* that did start, when one of them fails.
CreatePool ==
    /\ booted < Len(Boot.pools)
    /\ booted' = booted + 1
    /\ LET s   == Boot.pools[booted + 1]
           set == [dir |-> s.name, count |-> s.count]
       IN \E n \in Started(s.count) :
            /\ bound' = Bound(bound, s.name, set.dir, n)
            /\ IF n = s.count
                 THEN /\ pools' = [p \in DOMAIN pools \cup {s.name} |->
                                     IF p = s.name THEN set ELSE pools[p]]
                      /\ table' = [i \in DOMAIN table \cup {booted + 1} |->
                                     IF i = booted + 1 THEN s ELSE table[i]]
                 ELSE UNCHANGED <<pools, table>>
    /\ UNCHANGED <<pc, config, pmLock, chosen, socket, loaded, visits, reloads, history>>

Serving == booted = Len(Boot.pools)

\* A handler asks for the name of the pool of its request: there is none, 500.
Refuse(r) ==
    /\ Serving
    /\ pc[r] = "idle"
    /\ pmLock = None
    /\ \E kind \in Kinds : RouteOf(kind) = None
    /\ UNCHANGED vars

\* It is told the name of a pool.
Route(r) ==
    /\ Serving
    /\ pc[r] = "idle"
    /\ pmLock = None
    /\ \E kind \in Kinds :
         /\ RouteOf(kind) # None
         /\ chosen' = [chosen EXCEPT ![r] = RouteOf(kind)]
    /\ pc' = [pc EXCEPT ![r] = "routed"]
    /\ UNCHANGED <<config, pools, table, booted, pmLock, bound, socket, loaded,
                   visits, reloads, history>>

\* It takes the manager's mutex a second time: get_pool(name).unwrap()
FindPool(r) ==
    /\ pc[r] = "routed"
    /\ pmLock = None
    /\ chosen[r] \in DOMAIN pools
    /\ pc' = [pc EXCEPT ![r] = "found"]
    /\ UNCHANGED <<config, pools, table, booted, pmLock, bound, chosen, socket,
                   loaded, visits, reloads, history>>

\* It has the pool's mutex and is given one of its slots.
TakeSlot(r) ==
    /\ pc[r] = "found"
    /\ \E i \in 0..(pools[chosen[r]].count - 1) :
         socket' = [socket EXCEPT ![r] = [dir |-> pools[chosen[r]].dir, slot |-> i]]
    /\ pc' = [pc EXCEPT ![r] = "connect"]
    /\ UNCHANGED <<config, pools, table, booted, pmLock, bound, chosen, loaded,
                   visits, reloads, history>>

\* It has been answered.
Finish(r) ==
    /\ pc[r] = "connect"
    /\ pc' = [pc EXCEPT ![r] = "idle"]
    /\ chosen' = [chosen EXCEPT ![r] = None]
    /\ socket' = [socket EXCEPT ![r] = None]
    /\ UNCHANGED <<config, pools, table, booted, pmLock, bound, loaded, visits, reloads,
                   history>>

-----------------------------------------------------------------------------
\* A configuration is loaded and becomes the server's.
Load(t) ==
    /\ Serving
    /\ pc[t] = "idle"
    /\ reloads < MaxReloads
    /\ reloads' = reloads + 1
    /\ number' = [number EXCEPT ![t] = reloads + 1]
    /\ \E c \in Loads :
         /\ config' = c
         /\ loaded' = [loaded EXCEPT ![t] = c]
    /\ pc' = [pc EXCEPT ![t] = "manager"]
    /\ UNCHANGED <<pools, table, booted, pmLock, bound, chosen, socket, visits,
                   inForce, dropped>>

\* The reload has the manager's mutex and replaces the routing table.
UpdateTable(t) ==
    /\ pc[t] = "manager"
    /\ pmLock = None
    /\ pmLock' = t
    /\ table' = Rules(loaded[t], DOMAIN pools)
    /\ visits' = [visits EXCEPT ![t] = DOMAIN pools]
    /\ pc' = [pc EXCEPT ![t] = "pools"]
    /\ inForce' = None
    /\ UNCHANGED <<config, pools, booted, bound, chosen, socket, loaded, reloads,
                   number, dropped>>

\* The sections of which a reload that goes through p finds none.
Drop(t, p) ==
    dropped' = dropped \cup (IF HasSection(loaded[t], p) THEN {} ELSE {p})

\* Mutant: the slots are not replaced when their number changes.
ReloadPoolOldSlots(t, p, n) ==
    /\ bound' = Bound({b \in bound : b.pool # p}, p, pools[p].dir, n)
    /\ Drop(t, p)
    /\ UNCHANGED pools

\* What becomes of pool p: its processes are killed, its slots get new sockets
\* if their number changes, and the first n processes are started.
Replace(t, p, n) ==
    LET new  == Settings(loaded[t], p)
        dir  == IF new.count = pools[p].count THEN pools[p].dir ELSE new.dir
    IN
    /\ pools' = [pools EXCEPT ![p] = [dir |-> dir, count |-> new.count]]
    /\ bound' = Bound({b \in bound : b.pool # p}, p, dir, n)
    /\ Drop(t, p)

\* One pool is reloaded; an error ends the start of its processes, but not the
\* reload.
ReloadPool(t, p) ==
    /\ pc[t] = "pools"
    /\ p \in visits[t]
    /\ \E n \in Started(Settings(loaded[t], p).count) : Replace(t, p, n)
    /\ visits' = [visits EXCEPT ![t] = @ \ {p}]
    /\ UNCHANGED <<pc, config, table, booted, pmLock, chosen, socket, loaded, reloads,
                   number, inForce>>

\* The reload is over: its task has no configuration and no pools left.
Leave(t) ==
    /\ pc' = [pc EXCEPT ![t] = "idle"]
    /\ loaded' = [loaded EXCEPT ![t] = None]
    /\ visits' = [visits EXCEPT ![t] = {}]
    /\ number' = [number EXCEPT ![t] = 0]
    /\ UNCHANGED <<config, table, booted, chosen, socket, reloads>>

\* Every pool has been gone through: "Configuration reloaded successfully".
FinishReload(t) ==
    /\ pc[t] = "pools"
    /\ visits[t] = {}
    /\ pmLock' = None
    /\ inForce' = [conf |-> loaded[t], number |-> number[t]]
    /\ Leave(t)
    /\ UNCHANGED <<pools, bound, dropped>>

\* The client leaves while its reload waits for the manager's mutex: the server
\* has a configuration that is not in force.
AbandonWaiting(t) ==
    /\ t \in Cancellable
    /\ pc[t] = "manager"
    /\ Leave(t)
    /\ UNCHANGED <<pools, pmLock, bound, inForce, dropped>>

\* Mutant: what a dropped reload has locked stays locked.
AbandonStoppingLocked(t, p) ==
    /\ t \in Cancellable
    /\ pc[t] = "pools"
    /\ p \in visits[t]
    /\ \E n \in 0..pools[p].count :
         bound' = {b \in bound : b.pool # p \/ b.at.slot >= n}
    /\ Leave(t)
    /\ UNCHANGED <<pools, pmLock, inForce, dropped>>

\* It leaves while its reload waits for pool p's mutex, or when the processes of
\* p's first n slots have been stopped.
AbandonStopping(t, p) ==
    /\ t \in Cancellable
    /\ pc[t] = "pools"
    /\ p \in visits[t]
    /\ pmLock' = None
    /\ \E n \in 0..pools[p].count :
         bound' = {b \in bound : b.pool # p \/ b.at.slot >= n}
    /\ Leave(t)
    /\ UNCHANGED <<pools, inForce, dropped>>

\* It leaves when the first n processes of p have been started.
AbandonStarting(t, p) ==
    /\ t \in Cancellable
    /\ pc[t] = "pools"
    /\ p \in visits[t]
    /\ pmLock' = None
    /\ \E n \in 0..Settings(loaded[t], p).count : Replace(t, p, n)
    /\ Leave(t)
    /\ UNCHANGED inForce

-----------------------------------------------------------------------------
ClientNext(r) == Refuse(r) \/ Route(r) \/ FindPool(r) \/ TakeSlot(r) \/ Finish(r)

ReloadNext(t) ==
    \/ Load(t)
    \/ UpdateTable(t)
    \/ \E p \in DOMAIN pools : ReloadPool(t, p)
    \/ FinishReload(t)
    \/ AbandonWaiting(t)
    \/ \E p \in DOMAIN pools : AbandonStopping(t, p) \/ AbandonStarting(t, p)

Next ==
    \/ CreatePool
    \/ \E r \in Clients : ClientNext(r)
    \/ \E t \in Reloaders : ReloadNext(t)

Spec == Init /\ [][Next]_vars

-----------------------------------------------------------------------------
TypeOK ==
    /\ pc \in [Tasks -> {"idle", "routed", "found", "connect", "manager", "pools"}]
    /\ config \in Loads
    /\ DOMAIN pools \subseteq Names
    /\ \A p \in DOMAIN pools : pools[p] \in [dir : Directories, count : Nat]
    /\ DOMAIN table \subseteq Nat \ {0}
    /\ \A i \in DOMAIN table : table[i] \in Section
    /\ booted \in Nat
    /\ pmLock \in Reloaders \cup {None}
    /\ bound \subseteq [at : Sockets, pool : Names]
    /\ chosen \in [Clients -> Names \cup {None}]
    /\ socket \in [Clients -> Sockets \cup {None}]
    /\ loaded \in [Reloaders -> Loads \cup {None}]
    /\ visits \in [Reloaders -> SUBSET Names]
    /\ reloads \in Nat
    /\ number \in [Reloaders -> Nat]
    /\ inForce \in [conf : Loads, number : Nat] \cup {None}
    /\ dropped \subseteq Names

\* The manager's mutex is held by the reload that goes through the pools and by
\* nobody else: no way out of a reload, not even its client's, keeps it.
ManagerIsOwned ==
    /\ TypeOK
    /\ \A t \in Reloaders : pmLock = t <=> pc[t] = "pools"

\* The name a handler was given under one guard of the manager still is that of
\* a pool when it asks for the pool under the next: unwrap() does not panic,
\* though reloads replace the table in between and boot leaves pools out.
RoutedPoolExists ==
    \A r \in Clients : pc[r] \in {"routed", "found"} => chosen[r] \in DOMAIN pools

\* Who listens at the socket of the slot that a handler was given was started
\* for the pool of its request, or else reloads had no section for either pool:
\* then both may have moved to socket.directory itself, and mix there.
PoolsAreIsolated ==
    \A r \in Clients : pc[r] = "connect" =>
        \A b \in bound : b.at = socket[r] =>
            b.pool = chosen[r] \/ {b.pool, chosen[r]} \subseteq dropped

\* README: "Pool Isolation", without any condition.
PoolsNeverMix ==
    \A r \in Clients : pc[r] = "connect" =>
        \A b \in bound : b.at = socket[r] => b.pool = chosen[r]

\* The table and the pools are those of configuration c.
InForce(c) ==
    /\ table = Rules(c, DOMAIN pools)
    /\ \A p \in DOMAIN pools : pools[p].count = Settings(c, p).count

\* What a reload that has gone through all the pools has loaded is in force, the
\* table and every pool, from its answer until another reload replaces the
\* table, however the two have crossed and whoever leaves; and it is the
\* server's configuration unless another one was stored after it.
ReloadTakesEffect ==
    inForce # None =>
        /\ InForce(inForce.conf)
        /\ inForce.number = reloads => inForce.conf = config

\* handlers.rs: "Configuration reloaded successfully".  Then every pool of the
\* configuration exists.
ReloadCreatesPools ==
    reloads > 0 /\ (\A t \in Reloaders : pc[t] = "idle") =>
        \A s \in Sections(config) : s.name \in DOMAIN pools

\* When no reload is under way, one configuration is in force: refuted by a
\* client that leaves.
ReloadsLeaveOne ==
    reloads > 0 /\ (\A t \in Reloaders : pc[t] = "idle") => \E c \in Loads : InForce(c)

\* pool_manager.rs: "No pools defined in config! Using default."
DefaultPoolServes == Serving => \A kind \in Kinds : RouteOf(kind) # None
=============================================================================
