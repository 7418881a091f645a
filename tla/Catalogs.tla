------------------------------ MODULE Catalogs ------------------------------
(***************************************************************************)
(* What catalogs own, and how long it lives: forwarders, shared by several *)
(* catalogs through the registry of weak references in upstream.rs, and    *)
(* LAN lease tables (authority.rs), each with tasks of its own.            *)
(*                                                                         *)
(* The main loop builds one catalog at a time and swaps it in; the old one *)
(* lives on in the requests that began with it, which drop it on threads   *)
(* of their own, without the registry's lock: between any two steps of a   *)
(* build.  Module Reload says when catalogs are built, Recovery what a     *)
(* worker does, QueryChain what a table is read for.                       *)
(*                                                                         *)
(* A handler (a source) is a place in memory, used again when it is free.  *)
(* A definition whose comment begins with "Mutant" is the next one with a  *)
(* plausible bug in it; no action uses it.                                 *)
(***************************************************************************)
EXTENDS Naturals, FiniteSets

CONSTANTS
    Keys,          \* dns sections: "{origin}:{config:?}"
    Hosts,         \* [Keys -> SUBSET Nat]: the upstreams that are host names
    Installs,      \* [Keys -> BOOLEAN]: resolvers for its addresses can be built
    Configs,       \* [dns, lan, refresh]: files the daemon may be given
    LeaseFiles,    \* contents of the lease file, Unreadable where it fails
    Unreadable, NoLeases,
    Handlers, Sources, Requests,
    NoHandler, NoSource, NoCatalog,
    Dead           \* a weak reference that cannot be upgraded

ASSUME CatalogsAssumption ==
    /\ Hosts \in [Keys -> SUBSET Nat] /\ Installs \in [Keys -> BOOLEAN]
    /\ Configs \subseteq [dns : Keys, lan : BOOLEAN, refresh : BOOLEAN]
    /\ {"none", "asleep"} \cap (LeaseFiles \cup {NoLeases}) = {}
    /\ NoHandler \notin Handlers /\ NoSource \notin Sources
    /\ Dead \notin Handlers /\ Dead # NoHandler
    /\ Handlers # {} /\ Sources # {}

Catalog == [config : Configs, forwarder : Handlers \cup {NoHandler},
            source : Sources \cup {NoSource}]

ASSUME NoCatalogAssumption == NoCatalog \notin Catalog

VARIABLES
    startup,       \* the catalog async_run was started with and never lets go of
    main,          \* where the main loop is
    building,      \* the catalog it is building
    serving,       \* the catalog in service
    pinned,        \* the catalog of each request in progress
    registry,      \* FORWARDERS: the weak reference under each key
    workers,       \* the recovery workers of each handler that still run
    leases,        \* the lease file
    table,         \* the lease table of each source
    task           \* its refresh task: none, asleep, or what it has read

owners == <<startup, main, building, serving, pinned>>
lan == <<table, task>>
vars == <<owners, registry, workers, leases, lan>>

InUse == ({building, serving} \cup {pinned[r] : r \in Requests}) \ {NoCatalog}

\* The handler is given a clone of `loaded.catalog`, which stays until async_run returns.
Held == InUse \cup {startup}

\* What has a strong reference.
Forwarders == {c.forwarder : c \in Held} \ {NoHandler}

Attached == {c.source : c \in Held} \ {NoSource}

Tables == (LeaseFiles \ {Unreadable}) \cup {NoLeases}

TypeOK ==
    /\ main \in {"idle", "retain", "share", "chain", "check"}
    /\ building \in Catalog \cup {NoCatalog}
    /\ building = NoCatalog <=> main = "idle"
    /\ main \in {"retain", "share"} => building.forwarder = NoHandler
    /\ startup \in Catalog /\ serving \in Catalog
    /\ pinned \in [Requests -> Catalog \cup {NoCatalog}]
    /\ registry \in [Keys -> Handlers \cup {NoHandler, Dead}]
    /\ workers \in [Handlers -> SUBSET Nat]
    /\ leases \in LeaseFiles
    /\ table \in [Sources -> Tables]
    /\ task \in [Sources -> {"none", "asleep"} \cup Tables]

-----------------------------------------------------------------------------
\* load_lan_host_overrides.
Load == IF leases = Unreadable THEN NoLeases ELSE leases

FreeHandlers == {h \in Handlers \ Forwarders : workers[h] = {}}
FreeSources == {s \in Sources \ Attached : task[s] = "none"}

\* Which free place the allocator takes makes no difference.
FreeHandler == CHOOSE h \in FreeHandlers : TRUE
FreeSource == CHOOSE s \in FreeSources : TRUE

Blank(c) == [config |-> c, forwarder |-> NoHandler, source |-> NoSource]

\* What startup leaves: the first catalog, all of its tasks running.
Init ==
    /\ main = "idle" /\ building = NoCatalog
    /\ \E c \in Configs :
        LET h == CHOOSE g \in Handlers : TRUE
            s == CHOOSE t \in Sources : TRUE
        IN
          /\ Installs[c.dns]
          /\ serving = [config |-> c, forwarder |-> h,
                        source |-> IF c.lan THEN s ELSE NoSource]
          /\ registry = [k \in Keys |-> IF k = c.dns THEN h ELSE NoHandler]
          /\ workers = [g \in Handlers |-> IF g = h THEN Hosts[c.dns] ELSE {}]
          /\ task = [t \in Sources |->
                        IF c.refresh /\ t = serving.source THEN "asleep" ELSE "none"]
    /\ startup = serving
    /\ pinned = [r \in Requests |-> NoCatalog]
    /\ leases \in LeaseFiles
    /\ table = [s \in Sources |-> IF s = serving.source THEN Load ELSE NoLeases]

\* A handler whose last strong reference goes can never be upgraded again.
DropUnreferenced ==
    registry' = [k \in Keys |->
        IF registry[k] \in Handlers \ Forwarders' THEN Dead ELSE registry[k]]

-----------------------------------------------------------------------------
\* Zone::load for a configuration just read (one with zones of its own instead of a
\* dns section shares nothing, and is left out).
BeginBuild(c) ==
    /\ main = "idle"
    /\ building' = Blank(c)
    /\ main' = "retain"
    /\ UNCHANGED <<startup, serving, pinned, registry, workers, leases, lan>>

Retain ==
    /\ main = "retain"
    /\ registry' = [k \in Keys |-> IF registry[k] = Dead THEN NoHandler ELSE registry[k]]
    /\ main' = "share"
    /\ UNCHANGED <<startup, building, serving, pinned, workers, leases, lan>>

Upgrades(k) == registry[k] \in Handlers

Share ==
    /\ main = "share"
    /\ Upgrades(building.config.dns)
    /\ building' = [building EXCEPT !.forwarder = registry[building.config.dns]]
    /\ main' = "chain"
    /\ UNCHANGED <<startup, serving, pinned, registry, workers, leases, lan>>

\* Mutant: the handler is entered in the registry only where the key is new.
NewUnlessKnown ==
    LET k == building.config.dns
        h == FreeHandler
    IN  /\ main = "share" /\ ~Upgrades(k) /\ FreeHandlers # {}
        /\ Installs[k]
        /\ registry' = IF registry[k] = Dead THEN registry ELSE [registry EXCEPT ![k] = h]
        /\ building' = [building EXCEPT !.forwarder = h]
        /\ workers' = [workers EXCEPT ![h] = Hosts[k]]
        /\ main' = "chain"
        /\ UNCHANGED <<startup, serving, pinned, leases, lan>>

\* RecoveringForwarder::new: a worker per host name; the rest is installed at once.
New ==
    LET k == building.config.dns
        h == FreeHandler
    IN  /\ main = "share" /\ ~Upgrades(k) /\ FreeHandlers # {}
        /\ Installs[k]
        /\ registry' = [registry EXCEPT ![k] = h]
        /\ building' = [building EXCEPT !.forwarder = h]
        /\ workers' = [workers EXCEPT ![h] = Hosts[k]]
        /\ main' = "chain"
        /\ UNCHANGED <<startup, serving, pinned, leases, lan>>

\* An upstream cannot be set up: what was, its workers running, is dropped.
NewFails ==
    LET k == building.config.dns
        h == FreeHandler
    IN  /\ main = "share" /\ ~Upgrades(k) /\ FreeHandlers # {}
        /\ ~Installs[k]
        /\ \E W \in SUBSET Hosts[k] : workers' = [workers EXCEPT ![h] = W]
        /\ building' = NoCatalog /\ main' = "idle"
        /\ UNCHANGED <<startup, serving, pinned, leases, lan>>
        /\ DropUnreferenced

\* OverrideAuthority::new, with a lease table of its own and the task that renews it.
BuildChain ==
    /\ main = "chain"
    /\ IF building.config.lan
         THEN /\ FreeSources # {}
              /\ building' = [building EXCEPT !.source = FreeSource]
              /\ table' = [table EXCEPT ![FreeSource] = Load]
              /\ task' = IF building.config.refresh
                          THEN [task EXCEPT ![FreeSource] = "asleep"] ELSE task
         ELSE UNCHANGED <<building, lan>>
    /\ main' = "check"
    /\ UNCHANGED <<startup, serving, pinned, registry, workers, leases>>

\* An authority cannot be built, or the settings may not change: the catalog is dropped.
Discard ==
    /\ main \in {"chain", "check"}
    /\ building' = NoCatalog /\ main' = "idle"
    /\ UNCHANGED <<startup, serving, pinned, workers, leases, lan>>
    /\ DropUnreferenced

Swap ==
    /\ main = "check"
    /\ serving' = building /\ building' = NoCatalog /\ main' = "idle"
    /\ UNCHANGED <<startup, pinned, workers, leases, lan>>
    /\ DropUnreferenced

BeginRequest(r) ==
    /\ pinned[r] = NoCatalog
    /\ pinned' = [pinned EXCEPT ![r] = serving]
    /\ UNCHANGED <<startup, main, building, serving, registry, workers, leases, lan>>

EndRequest(r) ==
    /\ pinned[r] # NoCatalog
    /\ pinned' = [pinned EXCEPT ![r] = NoCatalog]
    /\ UNCHANGED <<startup, main, building, serving, workers, leases, lan>>
    /\ DropUnreferenced

-----------------------------------------------------------------------------
\* Mutant: replacing a catalog aborts the workers it was served by.
ObsoleteOnceReplaced(h) == \A c \in {serving, building} \ {NoCatalog} : c.forwarder # h

\* Drop for RecoveringForwarder has run, or is about to.
Obsolete(h) == h \notin Forwarders

\* An aborted worker is gone when tokio next gets to it.
WorkerEnds(h, i) ==
    /\ i \in workers[h] /\ Obsolete(h)
    /\ workers' = [workers EXCEPT ![h] = @ \ {i}]
    /\ UNCHANGED <<owners, registry, leases, lan>>

\* Mutant: the loop ends at the first file it cannot read.
WakeOrGiveUp(s) ==
    /\ task[s] = "asleep"
    /\ task' = [task EXCEPT ![s] =
                   IF s \in Attached /\ leases # Unreadable THEN Load ELSE "none"]
    /\ UNCHANGED <<owners, registry, workers, leases, table>>

\* Mutant: the task has a strong reference to the table all the time.
WakeStrong(s) ==
    /\ task[s] = "asleep"
    /\ task' = [task EXCEPT ![s] = Load]
    /\ UNCHANGED <<owners, registry, workers, leases, table>>

\* refresh_lan_host_cache_loop: the sleep is over; the file is read before the lock
\* is taken, by a task whose reference to the table is now a strong one.
Wake(s) ==
    /\ task[s] = "asleep"
    /\ task' = [task EXCEPT ![s] = IF s \in Attached THEN Load ELSE "none"]
    /\ UNCHANGED <<owners, registry, workers, leases, table>>

Store(s) ==
    /\ task[s] \in Tables
    /\ table' = [table EXCEPT ![s] = task[s]]
    /\ task' = [task EXCEPT ![s] = "asleep"]
    /\ UNCHANGED <<owners, registry, workers, leases>>

\* dnsmasq writes the lease file, or the volume it is on comes and goes.
WriteLeases ==
    /\ leases' \in LeaseFiles \ {leases}
    /\ UNCHANGED <<owners, registry, workers, lan>>

Build ==
    \/ Retain \/ Share \/ New \/ NewFails
    \/ BuildChain \/ Discard \/ Swap

Next ==
    \/ \E c \in Configs : BeginBuild(c)
    \/ Build
    \/ \E r \in Requests : BeginRequest(r) \/ EndRequest(r)
    \/ \E h \in Handlers : \E i \in workers[h] : WorkerEnds(h, i)
    \/ \E s \in Sources : Wake(s) \/ Store(s)
    \/ WriteLeases

Spec == Init /\ [][Next]_vars

(***************************************************************************)
(* Properties.                                                             *)
(***************************************************************************)
\* "Filter refreshes and equivalent SIGHUP reloads reuse the live forwarding state":
\* whatever requests drop while a catalog is built, catalogs alive at the same time
\* have one forwarder (and one cache, and one set of workers) exactly if they have
\* one dns section.
OneForwarderPerKey ==
    \A c, d \in Held : c.forwarder # NoHandler /\ d.forwarder # NoHandler =>
        (c.forwarder = d.forwarder <=> c.config.dns = d.config.dns)

\* What a catalog in use was built with still runs, however many catalogs that
\* shared it were replaced or discarded: every host name has its worker, every
\* lease table its refresh.
TasksRunWhileUsed ==
    \A c \in Held :
        /\ c.forwarder # NoHandler => workers[c.forwarder] = Hosts[c.config.dns]
        /\ c.source # NoSource /\ c.config.refresh => task[c.source] # "none"

\* The same as far as no fairness is needed: while its workers come to an end a
\* forwarder nobody refers to is not upgraded again and gets no new ones, though its
\* weak reference is still registered; and the refresh task of such a table finishes
\* at most the refresh it is in.
ObsoleteStaysObsolete ==
    [][/\ \A h \in Handlers \ Forwarders :
             workers[h] # {} => h \notin Forwarders' /\ workers'[h] \subseteq workers[h]
       /\ \A s \in Sources \ Attached :
             task[s] # "none" =>
                 /\ s \notin Attached'
                 /\ task'[s] # task[s] =>
                       task'[s] = IF task[s] = "asleep" THEN "none" ELSE "asleep"]_vars

(***************************************************************************)
(* Fairness: the main loop finishes a build, tokio runs aborted tasks to   *)
(* their end and wakes sleepers.  Requests may take for ever.              *)
(***************************************************************************)
Fairness ==
    /\ WF_vars(Build)
    /\ \A h \in Handlers : WF_vars(\E i \in workers[h] : WorkerEnds(h, i))
    /\ \A s \in Sources : WF_vars(Wake(s)) /\ WF_vars(Store(s))

FairSpec == Spec /\ Fairness

\* Neither the registry's weak entries nor a refresh task keep alive what they refer
\* to: the tasks of what no catalog refers to any more come to an end, also when it
\* was never finished or never served.  (async_run refers to the startup catalog for
\* ever, see ReplacedTasksEnd.)
ObsoleteTasksEnd ==
    /\ \A h \in Handlers : h \notin Forwarders ~> workers[h] = {}
    /\ \A s \in Sources : s \notin Attached ~> task[s] = "none"

\* A refreshed table of a catalog in use follows the lease file, through times when
\* it cannot be read, unless the file never stops changing.
LanTableCatchesUp ==
    \A s \in Sources :
        \/ []<>(table[s] = Load \/ \A c \in Held : c.source = s => ~c.config.refresh)
        \/ []<><<WriteLeases>>_vars

-----------------------------------------------------------------------------
(***************************************************************************)
(* What the source says and the code does not do (see the README).         *)
(***************************************************************************)
\* "Filter refreshes and equivalent SIGHUP reloads reuse the live forwarding state.
\* Weak entries do not keep obsolete workers alive" (upstream.rs:82): the workers of a
\* forwarder end once no catalog that is served, built or used by a request has it.
ReplacedTasksEnd ==
    \A h \in Handlers : (\A c \in InUse : c.forwarder # h) ~> workers[h] = {}

=============================================================================
