--------------------------- MODULE CatalogsProofs ---------------------------
(***************************************************************************)
(* Proofs about Catalogs: the registry's weak references are exactly those *)
(* of the forwarders in use, one per key, so that no reload and no race    *)
(* with a request that drops a catalog makes a second one.                 *)
(***************************************************************************)
EXTENDS Catalogs, TLAPS

\* The registry knows the forwarder of every catalog, and refers to no other.
Registered ==
    \A c \in Held : c.forwarder # NoHandler => registry[c.config.dns] = c.forwarder

WeakOnly == \A k \in Keys : registry[k] \in Handlers => registry[k] \in Forwarders

OneKeyEach == \A k, l \in Keys : registry[k] \in Handlers /\ registry[k] = registry[l] => k = l

IInv == TypeOK /\ Registered /\ WeakOnly /\ OneKeyEach /\ TasksRunWhileUsed

-----------------------------------------------------------------------------
LEMMA HeldType == ASSUME TypeOK PROVE Held \subseteq Catalog
  BY DEF TypeOK, InUse, Held

LEMMA CatalogFields ==
  ASSUME NEW c \in Catalog
  PROVE  /\ c.config \in Configs /\ c.config.dns \in Keys
         /\ c.config.lan \in BOOLEAN /\ c.config.refresh \in BOOLEAN
         /\ c.forwarder \in Handlers \cup {NoHandler}
         /\ c.source \in Sources \cup {NoSource}
  BY CatalogsAssumption DEF Catalog

LEMMA ForwardersType == ASSUME TypeOK PROVE Forwarders \subseteq Handlers
  BY HeldType, CatalogFields DEF Forwarders

LEMMA LoadType == ASSUME leases \in LeaseFiles PROVE Load \in Tables
  BY DEF Load, Tables

LEMMA TablesAwake == \A t \in Tables : t # "none" /\ t # "asleep"
  BY CatalogsAssumption DEF Tables

LEMMA BlankType == ASSUME NEW c \in Configs
                   PROVE  Blank(c) \in Catalog /\ Blank(c) # NoCatalog
                          /\ Blank(c).forwarder = NoHandler /\ Blank(c).source = NoSource
                          /\ Blank(c).config = c
  BY NoCatalogAssumption DEF Blank, Catalog

LEMMA FreeHandlerType ==
  ASSUME FreeHandlers # {}
  PROVE  FreeHandler \in Handlers /\ FreeHandler \notin Forwarders /\ workers[FreeHandler] = {}
  BY DEF FreeHandler, FreeHandlers

LEMMA FreeSourceType ==
  ASSUME FreeSources # {}
  PROVE  FreeSource \in Sources /\ FreeSource \notin Attached /\ task[FreeSource] = "none"
  BY DEF FreeSource, FreeSources

\* The catalog being built is one of those held.
LEMMA BuildingHeld ==
  ASSUME TypeOK, main # "idle"
  PROVE  building \in Held /\ building \in Catalog /\ building # NoCatalog
  BY DEF TypeOK, InUse, Held

LEMMA DropType ==
  ASSUME TypeOK, DropUnreferenced
  PROVE  registry' \in [Keys -> Handlers \cup {NoHandler, Dead}]
  BY DEF TypeOK, DropUnreferenced

-----------------------------------------------------------------------------
LEMMA InitIInv == Init => IInv
  <1> SUFFICES ASSUME Init PROVE IInv
    OBVIOUS
  <1> DEFINE h == CHOOSE g \in Handlers : TRUE
             s == CHOOSE t \in Sources : TRUE
  <1>1. h \in Handlers /\ s \in Sources
    BY CatalogsAssumption
  <1> HIDE DEF h, s
  <1>2. PICK c \in Configs :
          /\ serving = [config |-> c, forwarder |-> h, source |-> IF c.lan THEN s ELSE NoSource]
          /\ registry = [k \in Keys |-> IF k = c.dns THEN h ELSE NoHandler]
          /\ workers = [g \in Handlers |-> IF g = h THEN Hosts[c.dns] ELSE {}]
          /\ task = [t \in Sources |->
                        IF c.refresh /\ t = serving.source THEN "asleep" ELSE "none"]
    BY DEF Init, h, s
  <1>3. c.dns \in Keys /\ Hosts[c.dns] \in SUBSET Nat
    BY CatalogsAssumption
  <1>4. serving \in Catalog /\ serving # NoCatalog
    <2>1. serving \in Catalog
      BY <1>1, <1>2 DEF Catalog
    <2> QED  BY <2>1, NoCatalogAssumption
  <1>5. Held = {serving}
    <2>1. InUse = {serving}
      BY <1>4 DEF Init, InUse
    <2> QED  BY <2>1 DEF Init, Held
  <1>6. TypeOK
    <2>1. table \in [Sources -> Tables]
      BY LoadType DEF Init, Tables
    <2>2. workers \in [Handlers -> SUBSET Nat]
      BY <1>2, <1>3
    <2>3. registry \in [Keys -> Handlers \cup {NoHandler, Dead}]
      BY <1>1, <1>2
    <2>4. task \in [Sources -> {"none", "asleep"} \cup Tables]
      BY <1>2
    <2> QED  BY <1>4, <2>1, <2>2, <2>3, <2>4 DEF Init, TypeOK
  <1>7. Registered
    BY <1>1, <1>2, <1>3, <1>5 DEF Registered
  <1>8. Forwarders = {h}
    BY <1>1, <1>2, <1>5, CatalogsAssumption DEF Forwarders
  <1>9. WeakOnly /\ OneKeyEach
    BY <1>1, <1>2, <1>8, CatalogsAssumption DEF WeakOnly, OneKeyEach
  <1>10. TasksRunWhileUsed
    BY <1>1, <1>2, <1>5, CatalogsAssumption DEF TasksRunWhileUsed
  <1> QED  BY <1>6, <1>7, <1>9, <1>10 DEF IInv

-----------------------------------------------------------------------------
\* Dropping catalogs disturbs nothing of those that remain.
LEMMA DropKeeps ==
  ASSUME IInv, TypeOK', DropUnreferenced, Held' \subseteq Held, UNCHANGED task,
         \A c \in Held : c.forwarder # NoHandler => workers'[c.forwarder] = workers[c.forwarder]
  PROVE  IInv'
  <1> USE DEF IInv
  <1>0. Held \subseteq Catalog /\ Held' \subseteq Catalog
    BY HeldType
  <1>1. Registered'
    <2> SUFFICES ASSUME NEW c \in Held', c.forwarder # NoHandler
                 PROVE  registry'[c.config.dns] = c.forwarder
      BY DEF Registered
    <2>1. c \in Catalog /\ c.config.dns \in Keys
      BY <1>0, CatalogFields
    <2>2. registry[c.config.dns] = c.forwarder /\ c.forwarder \in Forwarders'
      BY DEF Registered, Forwarders
    <2> QED  BY <2>1, <2>2 DEF DropUnreferenced
  <1>2. WeakOnly'
    BY CatalogsAssumption DEF WeakOnly, DropUnreferenced
  <1>3. OneKeyEach'
    BY CatalogsAssumption DEF OneKeyEach, DropUnreferenced
  <1>4. TasksRunWhileUsed'
    BY DEF TasksRunWhileUsed
  <1> QED  BY <1>1, <1>2, <1>3, <1>4

\* Nothing but the tables changes.
LEMMA SameOwners ==
  ASSUME IInv, UNCHANGED owners
  PROVE  Held' = Held /\ Forwarders' = Forwarders /\ Attached' = Attached
  BY DEF owners, InUse, Held, Forwarders, Attached

-----------------------------------------------------------------------------
\* A step that holds what was held, and perhaps one catalog more.
LEMMA OneMore ==
  ASSUME IInv, TypeOK', NEW c \in Catalog, Held' \subseteq Held \cup {c},
         Forwarders' = Forwarders,
         \A k \in Keys : registry'[k] = registry[k] \/ (registry[k] = Dead /\ registry'[k] = NoHandler),
         UNCHANGED <<workers, task>>,
         c.forwarder # NoHandler =>
             registry[c.config.dns] = c.forwarder /\ workers[c.forwarder] = Hosts[c.config.dns],
         c.source # NoSource /\ c.config.refresh => task[c.source] # "none"
  PROVE  IInv'
  <1> USE DEF IInv
  <1>0. Held \subseteq Catalog /\ Dead \notin Handlers /\ NoHandler \notin Handlers
    BY HeldType, CatalogsAssumption
  <1>1. Registered'
    <2> SUFFICES ASSUME NEW d \in Held', d.forwarder # NoHandler
                 PROVE  registry'[d.config.dns] = d.forwarder
      BY DEF Registered
    <2>1. d \in Catalog /\ d.config.dns \in Keys /\ d.forwarder \in Handlers
      BY <1>0, CatalogFields
    <2>2. registry[d.config.dns] = d.forwarder
      BY DEF Registered
    <2> QED  BY <1>0, <2>1, <2>2
  <1>2. WeakOnly'
    BY <1>0 DEF WeakOnly
  <1>3. OneKeyEach'
    BY <1>0 DEF OneKeyEach
  <1>4. TasksRunWhileUsed'
    BY DEF TasksRunWhileUsed
  <1> QED  BY <1>1, <1>2, <1>3, <1>4

LEMMA BeginBuildKeeps ==
  ASSUME IInv, NEW c \in Configs, BeginBuild(c)
  PROVE  IInv'
  <1> USE DEF IInv, BeginBuild
  <1>1. TypeOK'
    BY BlankType DEF TypeOK, lan
  <1>2. Held' = Held \cup {Blank(c)}
    BY BlankType DEF TypeOK, InUse, Held
  <1>3. Forwarders' = Forwarders
    BY <1>2, BlankType DEF Forwarders
  <1> QED  BY <1>1, <1>2, <1>3, BlankType, OneMore DEF lan

LEMMA RetainKeeps ==
  ASSUME IInv, Retain
  PROVE  IInv'
  <1> USE DEF IInv, Retain
  <1>1. TypeOK'
    BY DEF TypeOK, lan
  <1>2. Held' = Held /\ Forwarders' = Forwarders
    BY DEF InUse, Held, Forwarders
  <1>3. building \in Held /\ building \in Catalog
    BY BuildingHeld
  <1>4. \A k \in Keys : registry'[k] = registry[k] \/ (registry[k] = Dead /\ registry'[k] = NoHandler)
    BY DEF TypeOK
  <1>5. building.forwarder = NoHandler
    BY DEF TypeOK
  <1>6. building.source # NoSource /\ building.config.refresh => task[building.source] # "none"
    BY <1>3 DEF TasksRunWhileUsed
  <1> QED  BY <1>1, <1>2, <1>3, <1>4, <1>5, <1>6, OneMore DEF lan

LEMMA ShareKeeps ==
  ASSUME IInv, Share
  PROVE  IInv'
  <1> DEFINE k == building.config.dns
             h == registry[k]
  <1> USE DEF IInv, Share
  <1>1. building \in Held /\ building \in Catalog /\ k \in Keys /\ h \in Handlers
    BY BuildingHeld, CatalogFields DEF Upgrades
  <1>2. h \in Forwarders
    BY <1>1 DEF WeakOnly
  <1>3. PICK d \in Held : d.forwarder = h
    BY <1>2 DEF Forwarders
  <1>4. d \in Catalog /\ d.config.dns \in Keys /\ d.forwarder # NoHandler
    BY <1>1, <1>3, HeldType, CatalogFields, CatalogsAssumption
  <1>5. registry[d.config.dns] = h
    BY <1>3, <1>4 DEF Registered
  <1>6. d.config.dns = k
    BY <1>1, <1>4, <1>5 DEF OneKeyEach
  <1>7. workers[h] = Hosts[k]
    BY <1>3, <1>4, <1>6 DEF TasksRunWhileUsed
  <1>8. building' \in Catalog /\ building' # NoCatalog
        /\ building'.forwarder = h /\ building'.config = building.config
        /\ building'.source = building.source
    BY <1>1, NoCatalogAssumption DEF Catalog
  <1>9. TypeOK'
    BY <1>8 DEF TypeOK, lan
  <1>10. Held' \subseteq Held \cup {building'} /\ Held \ {building} \subseteq Held'
         /\ building' \in Held'
    BY <1>8 DEF InUse, Held
  <1>11. Forwarders' = Forwarders
    <2>1. building.forwarder = NoHandler
      BY DEF TypeOK
    <2>2. Forwarders' \subseteq Forwarders
      BY <1>2, <1>8, <1>10 DEF Forwarders
    <2>3. Forwarders \subseteq Forwarders'
      BY <1>10, <2>1 DEF Forwarders
    <2> QED  BY <2>2, <2>3
  <1>12. building.source # NoSource /\ building.config.refresh => task[building.source] # "none"
    BY <1>1 DEF TasksRunWhileUsed
  <1> QED  BY <1>7, <1>8, <1>9, <1>10, <1>11, <1>12, OneMore DEF lan

LEMMA NewKeeps ==
  ASSUME IInv, New
  PROVE  IInv'
  <1> DEFINE k == building.config.dns
             h == FreeHandler
  <1> USE DEF IInv, New
  <1>1. building \in Held /\ building \in Catalog /\ k \in Keys /\ Hosts[k] \in SUBSET Nat
    BY BuildingHeld, CatalogFields, CatalogsAssumption
  <1>2. h \in Handlers /\ h \notin Forwarders /\ h # NoHandler /\ h # Dead
    BY FreeHandlerType, CatalogsAssumption
  <1> HIDE DEF h
  <1>3. building' \in Catalog /\ building' # NoCatalog
        /\ building'.forwarder = h /\ building'.config = building.config
        /\ building'.source = building.source
    BY <1>1, <1>2, NoCatalogAssumption DEF Catalog, h
  <1>4. registry' = [registry EXCEPT ![k] = h] /\ workers' = [workers EXCEPT ![h] = Hosts[k]]
    BY DEF h
  <1>5. TypeOK'
    BY <1>1, <1>2, <1>3, <1>4 DEF TypeOK, lan
  <1>6. Held' = (Held' \cap Held) \cup {building'}
        /\ Held \ {building} \subseteq Held'
    BY <1>3 DEF InUse, Held
  <1>7. Held \subseteq Catalog /\ Held' \subseteq Catalog
    BY <1>5, HeldType, <1>3, <1>6
  <1>8. \A c \in Held : c.forwarder # h
    BY <1>2 DEF Forwarders
  <1>9. registry[k] \notin Handlers
    BY DEF Upgrades
  <1>10. Registered'
    <2> SUFFICES ASSUME NEW c \in Held', c.forwarder # NoHandler
                 PROVE  registry'[c.config.dns] = c.forwarder
      BY DEF Registered
    <2>1. CASE c = building'
      BY <2>1, <1>1, <1>3, <1>4 DEF TypeOK
    <2>2. CASE c \in Held
      <3>1. c.config.dns \in Keys /\ c.forwarder \in Handlers
        BY <2>2, <1>7, CatalogFields
      <3>2. registry[c.config.dns] = c.forwarder
        BY <2>2 DEF Registered
      <3> QED  BY <1>4, <1>9, <3>1, <3>2 DEF TypeOK
    <2> QED  BY <1>6, <2>1, <2>2
  <1>11. Forwarders \subseteq Forwarders' /\ h \in Forwarders'
    <2>1. building.forwarder = NoHandler
      BY DEF TypeOK
    <2> QED  BY <1>2, <1>3, <1>6, <2>1 DEF Forwarders
  <1>12. WeakOnly'
    BY <1>1, <1>4, <1>11 DEF WeakOnly, TypeOK
  <1>13. OneKeyEach'
    <2>1. \A l \in Keys : registry[l] # h
      BY <1>2 DEF WeakOnly
    <2> QED  BY <1>1, <1>4, <2>1 DEF OneKeyEach, TypeOK
  <1>14. TasksRunWhileUsed'
    <2> SUFFICES ASSUME NEW c \in Held'
                 PROVE  /\ c.forwarder # NoHandler => workers'[c.forwarder] = Hosts[c.config.dns]
                        /\ c.source # NoSource /\ c.config.refresh => task[c.source] # "none"
      BY DEF TasksRunWhileUsed, lan
    <2>1. CASE c = building'
      BY <2>1, <1>1, <1>2, <1>3, <1>4 DEF TypeOK, TasksRunWhileUsed
    <2>2. CASE c \in Held
      <3>1. c.forwarder # NoHandler => c.forwarder \in Handlers
        BY <2>2, <1>7, CatalogFields
      <3> QED  BY <2>2, <3>1, <1>4, <1>8 DEF TypeOK, TasksRunWhileUsed
    <2> QED  BY <1>6, <2>1, <2>2
  <1> QED  BY <1>5, <1>10, <1>12, <1>13, <1>14

LEMMA NewFailsKeeps ==
  ASSUME IInv, NewFails
  PROVE  IInv'
  <1> USE DEF IInv, NewFails
  <1>1. PICK W \in SUBSET Hosts[building.config.dns] :
            workers' = [workers EXCEPT ![FreeHandler] = W]
    OBVIOUS
  <1>2. building \in Catalog /\ W \in SUBSET Nat
    BY <1>1, BuildingHeld, CatalogFields, CatalogsAssumption
  <1>3. FreeHandler \in Handlers /\ FreeHandler \notin Forwarders
    BY FreeHandlerType
  <1>4. TypeOK'
    <2>1. registry' \in [Keys -> Handlers \cup {NoHandler, Dead}]
      BY DropType
    <2>2. workers' \in [Handlers -> SUBSET Nat]
      BY <1>1, <1>2, <1>3 DEF TypeOK
    <2> QED  BY <2>1, <2>2 DEF TypeOK, lan
  <1>5. Held' \subseteq Held
    BY DEF InUse, Held
  <1>6. \A c \in Held : c.forwarder # NoHandler => workers'[c.forwarder] = workers[c.forwarder]
    BY <1>1, <1>3, HeldType, CatalogFields DEF Forwarders, TypeOK
  <1>7. task' = task
    BY DEF lan
  <1> QED  BY <1>4, <1>5, <1>6, <1>7, DropKeeps

LEMMA BuildChainKeeps ==
  ASSUME IInv, BuildChain
  PROVE  IInv'
  <1> USE DEF IInv, BuildChain
  <1>1. building \in Held /\ building \in Catalog /\ building # NoCatalog
    BY BuildingHeld
  <1>2. CASE ~building.config.lan
    <2>1. TypeOK'
      BY <1>2 DEF TypeOK, lan
    <2>2. Held' = Held /\ Forwarders' = Forwarders
      BY <1>2 DEF InUse, Held, Forwarders
    <2>3. UNCHANGED <<workers, task, registry>>
      BY <1>2 DEF lan
    <2> QED  BY <2>1, <2>2, <2>3 DEF Registered, WeakOnly, OneKeyEach, TasksRunWhileUsed
  <1>3. CASE building.config.lan
    <2>1. FreeSource \in Sources /\ FreeSource \notin Attached /\ task[FreeSource] = "none"
      BY <1>3, FreeSourceType
    <2> DEFINE s == FreeSource
    <2> HIDE DEF s
    <2>2. /\ building' = [building EXCEPT !.source = s]
          /\ table' = [table EXCEPT ![s] = Load]
          /\ task' = IF building.config.refresh THEN [task EXCEPT ![s] = "asleep"] ELSE task
      BY <1>3 DEF s
    <2>3. s \in Sources /\ s \notin Attached
      BY <2>1 DEF s
    <2>4. building' \in Catalog /\ building' # NoCatalog
          /\ building'.forwarder = building.forwarder /\ building'.config = building.config
          /\ building'.source = s
      BY <1>1, <2>2, <2>3, NoCatalogAssumption DEF Catalog
    <2>5. TypeOK'
      <3>1. Load \in Tables
        BY LoadType DEF TypeOK
      <3>2. table' \in [Sources -> Tables] /\ task' \in [Sources -> {"none", "asleep"} \cup Tables]
        BY <2>2, <2>3, <3>1 DEF TypeOK
      <3> QED  BY <2>4, <3>2 DEF TypeOK
    <2>6. /\ Held' = (Held' \cap Held) \cup {building'}
          /\ Held \ {building} \subseteq Held'
      BY <2>4 DEF InUse, Held
    <2>7. Forwarders' = Forwarders
      BY <1>1, <2>4, <2>6 DEF Forwarders
    <2>8. Registered'
      BY <1>1, <2>4, <2>6 DEF Registered
    <2>9. WeakOnly' /\ OneKeyEach'
      BY <2>7 DEF WeakOnly, OneKeyEach
    <2>10. TasksRunWhileUsed'
      <3> SUFFICES ASSUME NEW c \in Held'
                   PROVE  /\ c.forwarder # NoHandler => workers[c.forwarder] = Hosts[c.config.dns]
                          /\ c.source # NoSource /\ c.config.refresh => task'[c.source] # "none"
        BY DEF TasksRunWhileUsed
      <3>1. CASE c = building'
        BY <3>1, <1>1, <2>2, <2>3, <2>4 DEF TypeOK, TasksRunWhileUsed
      <3>2. CASE c \in Held
        <4>1. c.source # NoSource => c.source # s
          BY <3>2, <2>3 DEF Attached
        <4> QED  BY <3>2, <4>1, <2>2 DEF TypeOK, TasksRunWhileUsed
      <3> QED  BY <2>6, <3>1, <3>2
    <2> QED  BY <2>5, <2>8, <2>9, <2>10
  <1> QED  BY <1>2, <1>3

\* Discarding, swapping and the end of a request only drop catalogs.
LEMMA DroppingKeeps ==
  ASSUME IInv, \/ Discard \/ Swap \/ \E r \in Requests : EndRequest(r)
  PROVE  IInv'
  <1> USE DEF IInv
  <1>1. ASSUME Discard PROVE IInv'
    <2>1. TypeOK'
      BY <1>1, DropType DEF Discard, TypeOK, lan
    <2>2. Held' \subseteq Held
      BY <1>1 DEF Discard, InUse, Held
    <2> QED  BY <1>1, <2>1, <2>2, DropKeeps DEF Discard, lan
  <1>2. ASSUME Swap PROVE IInv'
    <2>1. building \in Catalog
      BY <1>2, BuildingHeld DEF Swap
    <2>2. TypeOK'
      BY <1>2, <2>1, DropType DEF Swap, TypeOK, lan
    <2>3. Held' \subseteq Held
      BY <1>2 DEF Swap, InUse, Held
    <2> QED  BY <1>2, <2>2, <2>3, DropKeeps DEF Swap, lan
  <1>3. ASSUME NEW r \in Requests, EndRequest(r) PROVE IInv'
    <2>1. TypeOK'
      BY <1>3, DropType DEF EndRequest, TypeOK, lan
    <2>2. Held' \subseteq Held
      BY <1>3 DEF EndRequest, InUse, Held, TypeOK
    <2> QED  BY <1>3, <2>1, <2>2, DropKeeps DEF EndRequest, lan
  <1> QED  BY <1>1, <1>2, <1>3

LEMMA BeginRequestKeeps ==
  ASSUME IInv, NEW r \in Requests, BeginRequest(r)
  PROVE  IInv'
  <1> USE DEF IInv, BeginRequest
  <1>1. serving \in Catalog /\ serving \in Held
    BY NoCatalogAssumption DEF TypeOK, InUse, Held
  <1>2. TypeOK'
    BY <1>1 DEF TypeOK, lan
  <1>3. Held' = Held
    BY <1>1 DEF InUse, Held, TypeOK
  <1>4. Forwarders' = Forwarders
    BY <1>3 DEF Forwarders
  <1> QED  BY <1>2, <1>3, <1>4 DEF lan, Registered, WeakOnly, OneKeyEach, TasksRunWhileUsed

\* Workers end for handlers out of use alone, refresh tasks with their table.
LEMMA TasksKeep ==
  ASSUME IInv,
         \/ \E h \in Handlers : \E i \in workers[h] : WorkerEnds(h, i)
         \/ \E s \in Sources : Wake(s) \/ Store(s)
         \/ WriteLeases
  PROVE  IInv'
  <1> USE DEF IInv
  <1>1. UNCHANGED <<owners, registry>>
    BY DEF WorkerEnds, Wake, Store, WriteLeases
  <1>2. Held' = Held /\ Forwarders' = Forwarders /\ Attached' = Attached
    BY <1>1, SameOwners
  <1>3. Registered' /\ WeakOnly' /\ OneKeyEach'
    BY <1>1, <1>2 DEF Registered, WeakOnly, OneKeyEach
  <1>4. ASSUME NEW h \in Handlers, NEW i \in workers[h], WorkerEnds(h, i)
        PROVE  TypeOK' /\ TasksRunWhileUsed'
    <2>1. TypeOK'
      BY <1>4, <1>1 DEF WorkerEnds, TypeOK, owners, lan
    <2>2. h \notin Forwarders /\ workers' = [workers EXCEPT ![h] = @ \ {i}] /\ task' = task
      BY <1>4 DEF WorkerEnds, Obsolete, lan
    <2>3. \A c \in Held : c.forwarder # NoHandler => c.forwarder # h
      BY <2>2 DEF Forwarders
    <2>4. TasksRunWhileUsed'
      BY <1>2, <2>2, <2>3 DEF TasksRunWhileUsed, TypeOK
    <2> QED  BY <2>1, <2>4
  <1>5. ASSUME NEW s \in Sources, Wake(s)
        PROVE  TypeOK' /\ TasksRunWhileUsed'
    <2>1. Load \in Tables /\ Load # "none"
      BY LoadType, TablesAwake DEF TypeOK
    <2>2. TypeOK'
      BY <1>5, <1>1, <2>1 DEF Wake, TypeOK, owners
    <2>3. \A c \in Held : c.source # NoSource => c.source \in Attached
      BY DEF Attached
    <2>4. TasksRunWhileUsed'
      BY <1>5, <1>2, <2>1, <2>3 DEF Wake, TasksRunWhileUsed, TypeOK
    <2> QED  BY <2>2, <2>4
  <1>6. ASSUME NEW s \in Sources, Store(s)
        PROVE  TypeOK' /\ TasksRunWhileUsed'
    <2>1. TypeOK'
      BY <1>6, <1>1 DEF Store, TypeOK, owners
    <2>2. TasksRunWhileUsed'
      BY <1>6, <1>2 DEF Store, TasksRunWhileUsed, TypeOK
    <2> QED  BY <2>1, <2>2
  <1>7. ASSUME WriteLeases
        PROVE  TypeOK' /\ TasksRunWhileUsed'
    BY <1>7, <1>1, <1>2 DEF WriteLeases, TypeOK, TasksRunWhileUsed, owners, lan
  <1> QED  BY <1>3, <1>4, <1>5, <1>6, <1>7

LEMMA NextIInv == IInv /\ [Next]_vars => IInv'
  <1> SUFFICES ASSUME IInv, [Next]_vars PROVE IInv'
    OBVIOUS
  <1>1. CASE \E c \in Configs : BeginBuild(c)
    BY <1>1, BeginBuildKeeps
  <1>2. CASE Retain
    BY <1>2, RetainKeeps
  <1>3. CASE Share
    BY <1>3, ShareKeeps
  <1>4. CASE New
    BY <1>4, NewKeeps
  <1>5. CASE NewFails
    BY <1>5, NewFailsKeeps
  <1>6. CASE BuildChain
    BY <1>6, BuildChainKeeps
  <1>7. CASE Discard \/ Swap \/ \E r \in Requests : EndRequest(r)
    BY <1>7, DroppingKeeps
  <1>8. CASE \E r \in Requests : BeginRequest(r)
    BY <1>8, BeginRequestKeeps
  <1>9. CASE \/ \E h \in Handlers : \E i \in workers[h] : WorkerEnds(h, i)
             \/ \E s \in Sources : Wake(s) \/ Store(s)
             \/ WriteLeases
    BY <1>9, TasksKeep
  <1>10. CASE UNCHANGED vars
    <2>1. UNCHANGED owners /\ UNCHANGED <<registry, workers, leases, table, task>>
      BY <1>10 DEF vars, lan
    <2>2. Held' = Held /\ Forwarders' = Forwarders
      BY <2>1, SameOwners DEF IInv
    <2>3. TypeOK'
      BY <2>1 DEF IInv, TypeOK, owners
    <2> QED  BY <2>1, <2>2, <2>3
             DEF IInv, Registered, WeakOnly, OneKeyEach, TasksRunWhileUsed
  <1> QED
    BY <1>1, <1>2, <1>3, <1>4, <1>5, <1>6, <1>7, <1>8, <1>9, <1>10 DEF Next, Build

LEMMA SpecIInv == Spec => []IInv
  BY InitIInv, NextIInv, PTL DEF Spec

\* What the invariant is for: a key finds the forwarder of its catalogs.
LEMMA IInvOneForwarder == IInv => OneForwarderPerKey
  <1> SUFFICES ASSUME IInv, NEW c \in Held, NEW d \in Held,
                      c.forwarder # NoHandler, d.forwarder # NoHandler
               PROVE  c.forwarder = d.forwarder <=> c.config.dns = d.config.dns
    BY DEF OneForwarderPerKey
  <1>1. c \in Catalog /\ d \in Catalog
    BY HeldType DEF IInv
  <1>2. /\ c.config.dns \in Keys /\ d.config.dns \in Keys
        /\ c.forwarder \in Handlers /\ d.forwarder \in Handlers
    BY <1>1, CatalogFields
  <1>3. registry[c.config.dns] = c.forwarder /\ registry[d.config.dns] = d.forwarder
    BY DEF IInv, Registered
  <1> QED  BY <1>2, <1>3 DEF IInv, OneKeyEach

-----------------------------------------------------------------------------
\* A step that holds nothing it did not hold, and leaves the tasks to themselves.
LEMMA NothingRevived ==
  ASSUME Held' \subseteq Held
  PROVE  Forwarders' \subseteq Forwarders /\ Attached' \subseteq Attached
  BY DEF Forwarders, Attached

\* A catalog that gets a forwarder has that one besides.
LEMMA BuildingAgain ==
  ASSUME TypeOK, main # "idle", UNCHANGED <<startup, serving, pinned>>
  PROVE  /\ Forwarders' \subseteq Forwarders \cup {building'.forwarder}
         /\ Attached' \subseteq Attached \cup {building'.source}
  BY DEF Forwarders, Attached, InUse, Held

LEMMA HandlersStayObsolete ==
  ASSUME IInv, [Next]_vars, NEW h \in Handlers \ Forwarders, workers[h] # {}
  PROVE  h \notin Forwarders' /\ workers'[h] \subseteq workers[h]
  <1> USE DEF IInv
  <1>1. ASSUME NEW c \in Configs, BeginBuild(c)
        PROVE  h \notin Forwarders' /\ workers' = workers
    <2>1. Held' \subseteq Held \cup {Blank(c)} /\ Blank(c).forwarder = NoHandler
      BY <1>1, BlankType DEF BeginBuild, InUse, Held
    <2> QED  BY <1>1, <2>1, CatalogsAssumption DEF BeginBuild, Forwarders
  <1>2. CASE Retain
    BY <1>2 DEF Retain, Forwarders, InUse, Held
  <1>3. CASE Share
    <2>1. building.config.dns \in Keys /\ building \in Catalog
      BY <1>3, BuildingHeld, CatalogFields DEF Share
    <2>2. building'.forwarder = registry[building.config.dns]
      BY <1>3, <2>1 DEF Share, Catalog
    <2>3. building'.forwarder \in Forwarders
      BY <1>3, <2>1, <2>2 DEF Share, Upgrades, WeakOnly
    <2> QED  BY <1>3, <2>3, BuildingAgain DEF Share
  <1>4. CASE New
    <2>1. building \in Catalog /\ FreeHandler # h /\ FreeHandler \in Handlers
      BY <1>4, BuildingHeld, FreeHandlerType DEF New
    <2>2. building'.forwarder = FreeHandler /\ workers'[h] = workers[h]
      BY <1>4, <2>1 DEF New, Catalog, TypeOK
    <2> QED  BY <1>4, <2>1, <2>2, BuildingAgain DEF New
  <1>5. CASE NewFails
    <2>1. FreeHandler # h /\ workers'[h] = workers[h]
      BY <1>5, FreeHandlerType DEF NewFails, TypeOK
    <2>2. Held' \subseteq Held
      BY <1>5 DEF NewFails, InUse, Held
    <2> QED  BY <2>1, <2>2, NothingRevived
  <1>6. CASE BuildChain
    <2>1. building \in Held /\ building \in Catalog
      BY <1>6, BuildingHeld DEF BuildChain
    <2>2. building'.forwarder = building.forwarder
      BY <1>6, <2>1 DEF BuildChain, Catalog
    <2>3. building.forwarder # h
      BY <2>1, CatalogsAssumption DEF Forwarders
    <2> QED  BY <1>6, <2>2, <2>3, BuildingAgain DEF BuildChain
  <1>7. CASE \/ Discard \/ Swap \/ \E r \in Requests : BeginRequest(r) \/ EndRequest(r)
    <2>1. Held' \subseteq Held /\ workers' = workers
      BY <1>7 DEF Discard, Swap, BeginRequest, EndRequest, InUse, Held, TypeOK
    <2> QED  BY <2>1, NothingRevived
  <1>8. ASSUME NEW g \in Handlers, NEW i \in workers[g], WorkerEnds(g, i)
        PROVE  h \notin Forwarders' /\ workers'[h] \subseteq workers[h]
    BY <1>8, SameOwners DEF WorkerEnds, TypeOK
  <1>9. CASE (\E s \in Sources : Wake(s) \/ Store(s)) \/ WriteLeases \/ UNCHANGED vars
    BY <1>9, SameOwners DEF Wake, Store, WriteLeases, vars
  <1> QED  BY <1>1, <1>2, <1>3, <1>4, <1>5, <1>6, <1>7, <1>8, <1>9 DEF Next, Build

LEMMA SourcesStayObsolete ==
  ASSUME IInv, [Next]_vars, NEW s \in Sources \ Attached, task[s] # "none"
  PROVE  /\ s \notin Attached'
         /\ task'[s] # task[s] => task'[s] = IF task[s] = "asleep" THEN "none" ELSE "asleep"
  <1> USE DEF IInv
  <1>1. ASSUME NEW c \in Configs, BeginBuild(c)
        PROVE  s \notin Attached' /\ task' = task
    <2>1. Held' \subseteq Held \cup {Blank(c)} /\ Blank(c).source = NoSource
      BY <1>1, BlankType DEF BeginBuild, InUse, Held
    <2> QED  BY <1>1, <2>1, CatalogsAssumption DEF BeginBuild, Attached, lan
  <1>2. CASE Share \/ New
    <2>1. building \in Held /\ building \in Catalog
      BY <1>2, BuildingHeld DEF Share, New
    <2>2. building'.source = building.source /\ task' = task
      BY <1>2, <2>1 DEF Share, New, Catalog, lan
    <2>3. building.source # s
      BY <2>1, CatalogsAssumption DEF Attached
    <2> QED  BY <1>2, <2>2, <2>3, BuildingAgain DEF Share, New
  <1>3. CASE BuildChain
    <2>1. building \in Held /\ building \in Catalog /\ building.source # s
      BY <1>3, BuildingHeld, CatalogsAssumption DEF BuildChain, Attached
    <2>2. CASE building.config.lan
      <3>1. FreeSource # s /\ FreeSource \in Sources
        BY <1>3, <2>2, FreeSourceType DEF BuildChain
      <3>2. building'.source = FreeSource /\ task'[s] = task[s]
        BY <1>3, <2>1, <2>2, <3>1 DEF BuildChain, Catalog, TypeOK
      <3> QED  BY <1>3, <3>1, <3>2, BuildingAgain DEF BuildChain
    <2>3. CASE ~building.config.lan
      BY <1>3, <2>1, <2>3, BuildingAgain DEF BuildChain, lan
    <2> QED  BY <2>2, <2>3
  <1>4. CASE \/ Retain \/ NewFails \/ Discard \/ Swap
             \/ \E r \in Requests : BeginRequest(r) \/ EndRequest(r)
    <2>1. Held' \subseteq Held /\ task' = task
      BY <1>4 DEF Retain, NewFails, Discard, Swap, BeginRequest, EndRequest, InUse, Held, TypeOK, lan
    <2> QED  BY <2>1, NothingRevived
  <1>5. ASSUME NEW u \in Sources, Wake(u) \/ Store(u)
        PROVE  /\ s \notin Attached'
               /\ task'[s] # task[s] => task'[s] = IF task[s] = "asleep" THEN "none" ELSE "asleep"
    <2>1. Attached' = Attached
      BY <1>5, SameOwners DEF Wake, Store
    <2>2. task[s] # "asleep" \/ task[s] \notin Tables
      BY TablesAwake
    <2> QED  BY <1>5, <2>1, <2>2 DEF Wake, Store, TypeOK
  <1>6. CASE \/ \E h \in Handlers : \E i \in workers[h] : WorkerEnds(h, i)
             \/ WriteLeases \/ UNCHANGED vars
    BY <1>6, SameOwners DEF WorkerEnds, WriteLeases, vars, lan
  <1> QED  BY <1>1, <1>2, <1>3, <1>4, <1>5, <1>6 DEF Next, Build

-----------------------------------------------------------------------------
\* Every catalog, built, serving or kept by a request, is well formed.
THEOREM TypeCorrect == Spec => []TypeOK
  <1>1. IInv => TypeOK
    BY DEF IInv
  <1> QED  BY SpecIInv, <1>1, PTL

\* Catalogs with one dns section share one forwarder, those with different ones
\* never, for any number of reloads, discarded builds and requests that hold on to
\* old catalogs.
THEOREM OnePerKey == Spec => []OneForwarderPerKey
  BY SpecIInv, IInvOneForwarder, PTL

\* Nobody stops the workers of a forwarder, or the refresh of a lease table, that a
\* catalog still answers from.
THEOREM TasksRun == Spec => []TasksRunWhileUsed
  <1>1. IInv => TasksRunWhileUsed
    BY DEF IInv
  <1> QED  BY SpecIInv, <1>1, PTL

\* What no catalog refers to any more is only ever wound up, whatever is built
\* meanwhile.
THEOREM NoRevival == Spec => ObsoleteStaysObsolete
  <1>1. IInv /\ [Next]_vars =>
            /\ \A h \in Handlers \ Forwarders :
                  workers[h] # {} => h \notin Forwarders' /\ workers'[h] \subseteq workers[h]
            /\ \A s \in Sources \ Attached :
                  task[s] # "none" =>
                      /\ s \notin Attached'
                      /\ task'[s] # task[s] =>
                            task'[s] = IF task[s] = "asleep" THEN "none" ELSE "asleep"
    BY HandlersStayObsolete, SourcesStayObsolete
  <1> QED  BY SpecIInv, <1>1, PTL DEF Spec, ObsoleteStaysObsolete

=============================================================================
