---------------------------- MODULE ReloadProofs ----------------------------
(***************************************************************************)
(* Theorems about Reload, for every configuration, number of lists and     *)
(* budget of the environment.                                              *)
(***************************************************************************)
EXTENDS Reload, TLAPS

-----------------------------------------------------------------------------
(***************************************************************************)
(* Facts about the operators.                                              *)
(***************************************************************************)
\* What a configuration consists of.
LEMMA ConfigFacts ==
    ASSUME NEW c \in Configs
    PROVE  /\ c.filters \in Seq(Filters)
           /\ c.interval \in Nat
           /\ c.transport \in Transports
           /\ c.builds \in BOOLEAN
  BY ConfigsAssumption

\* Every entry has a cache file name.
LEMMA CacheKeyType ==
    ASSUME NEW f \in Filters
    PROVE  CacheKey(f) \in CacheKeys
  BY DEF Filters, CacheKey, CacheKeys

\* What a cache file holds.
LEMMA FileType ==
    ASSUME TypeOK, NEW f \in Filters
    PROVE  FileOf(f) \in Contents \cup {NoFile}
  BY CacheKeyType DEF TypeOK, FileOf

\* The delay until the next refresh is at least a tick, and no longer than the
\* retry delay while a list is missing.
LEMMA DelayBounds ==
    ASSUME NEW s \in Settings, NEW r \in 1..RetryMax
    PROVE  /\ NextFilterRefresh(s, r) \in Nat
           /\ s.missing => NextFilterRefresh(s, r) <= RetryMax
  BY RetryMaxAssumption DEF NextFilterRefresh, Settings

\* Settings are computed from a configuration and the disk.
LEMMA FromConfigType ==
    ASSUME NEW c \in Configs
    PROVE  /\ FromConfig(c) \in Settings
           /\ FromConfig(c).transport = c.transport
           /\ FromConfig(c).interval = c.interval
           /\ FromConfig(c).missing = HasUncachedFilters(c)
  BY ConfigFacts DEF FromConfig, Settings, HasUncachedFilters

\* Loading one more list extends the lists loaded so far by one.
LEMMA AppendFacts ==
    ASSUME NEW l \in Lists, NEW x \in Contents \cup {NoFile}
    PROVE  /\ Append(l, x) \in Lists
           /\ Len(Append(l, x)) = Len(l) + 1
           /\ Append(l, x)[Len(l) + 1] = x
           /\ \A i \in 1..Len(l) : Append(l, x)[i] = l[i]
  BY DEF Lists

-----------------------------------------------------------------------------
(***************************************************************************)
(* The state of the program counter tells which variables hold a value.    *)
(***************************************************************************)
Shape ==
    /\ Up => serving \in Catalog /\ settings \in Settings /\ bound \in Transports
    /\ ~Up => serving = NoCatalog
    /\ pc \in {"fetch", "write"} =>
          job \in Jobs /\ Len(job.loaded) <= Len(job.config.filters)
    /\ pc = "write" =>
          job.mode = "Refresh" /\ Len(job.loaded) < Len(job.config.filters)

TypeInv == TypeOK /\ Shape

\* The entry a reload looks at next.
LEMMA NextFilterType ==
    ASSUME job \in Jobs, Len(job.loaded) < Len(job.config.filters)
    PROVE  /\ NextFilter \in Filters
           /\ Len(job.loaded) + 1 \in 1..Len(job.config.filters)
  BY ConfigFacts DEF NextFilter, Jobs, Lists

\* One list loaded: the job stays a job and makes progress.
LEMMA LoadedFacts ==
    ASSUME job \in Jobs, Len(job.loaded) < Len(job.config.filters),
           NEW x \in Contents \cup {NoFile}, Loaded(x)
    PROVE  /\ job' \in Jobs
           /\ job'.mode = job.mode /\ job'.config = job.config
           /\ job'.loaded = Append(job.loaded, x)
           /\ Len(job'.loaded) = Len(job.loaded) + 1
           /\ Len(job'.loaded) <= Len(job'.config.filters)
  <1>1. /\ job.loaded \in Lists /\ job.config \in Configs
        /\ Len(job.config.filters) \in Nat /\ Len(job.loaded) \in Nat
    BY ConfigFacts DEF Jobs, Lists
  <1>2. /\ job' = [job EXCEPT !.loaded = Append(job.loaded, x), !.rev = 0]
        /\ Append(job.loaded, x) \in Lists
        /\ Len(Append(job.loaded, x)) = Len(job.loaded) + 1
    BY <1>1, AppendFacts DEF Loaded
  <1>3. /\ job'.mode = job.mode /\ job'.config = job.config
        /\ job'.loaded = Append(job.loaded, x) /\ job' \in Jobs
    BY <1>2 DEF Jobs
  <1> QED  BY <1>1, <1>2, <1>3

\* The downloaded list.
LEMMA DownloadedType ==
    ASSUME TypeOK, NextFilter \in Filters
    PROVE  Downloaded \in Contents /\ Downloaded.rev \in 1..MaxRev
  BY BoundsAssumption DEF TypeOK, Downloaded, Contents, Filters

\* What both branches of the loop leave behind, a reload having failed or not.
LEMMA EndReloadType ==
    ASSUME TypeOK, NEW mode, NEW ok, NEW s \in Settings, EndReload(mode, ok, s)
    PROVE  /\ retry' \in 1..RetryMax /\ timer' \in Nat
           /\ s.missing => timer' <= RetryMax
           /\ pc' = "select" /\ job' = NoJob
  <1>1. DoubledRetry \in 1..RetryMax
    BY RetryMaxAssumption DEF TypeOK, DoubledRetry
  <1>2. retry' \in 1..RetryMax
    BY <1>1, RetryMaxAssumption DEF EndReload
  <1> QED  BY <1>2, DelayBounds DEF EndReload

\* What the end of the process leaves behind.
LEMMA HaltType ==
    ASSUME TypeOK, NEW reason \in {"clean", "error", "panic", "killed"}, Halt(reason),
           UNCHANGED <<yaml, published>>,
           cache' \in [CacheKeys -> Contents \cup {NoFile, Garbled}],
           budget' \in [Event -> Nat \cup {Unlimited}]
    PROVE  TypeInv'
  <1>1. 1 \in 1..RetryMax
    BY RetryMaxAssumption
  <1>2. TypeOK'
    BY <1>1 DEF TypeOK, Halt
  <1>3. Shape'
    BY DEF Shape, Halt, Up
  <1> QED  BY <1>2, <1>3 DEF TypeInv

\* An event of the environment leaves a budget.
LEMMA SpendType ==
    ASSUME TypeOK, NEW e \in Event, Spend(e)
    PROVE  budget' \in [Event -> Nat \cup {Unlimited}]
  BY DEF TypeOK, Spend, Unlimited

-----------------------------------------------------------------------------
(***************************************************************************)
(* Type correctness.                                                       *)
(***************************************************************************)
\* What is left of a file whose write is cut short.
LEMMA CutType ==
    ASSUME TypeOK, Cut
    PROVE  cache' \in [CacheKeys -> Contents \cup {NoFile, Garbled}]
  BY DEF TypeOK, Cut

LEMMA InitType == Init => TypeInv
  <1> SUFFICES ASSUME Init PROVE TypeInv
    OBVIOUS
  <1>1. 1 \in 1..MaxRev /\ 1 \in 1..RetryMax
        /\ Budget \in [Event -> Nat \cup {Unlimited}]
    BY BoundsAssumption, RetryMaxAssumption
  <1>2. cache \in [CacheKeys -> Contents \cup {NoFile, Garbled}]
    BY DEF Init, Contents
  <1>3. TypeOK
    BY <1>1, <1>2 DEF Init, TypeOK
  <1>4. Shape
    BY DEF Init, Shape, Up
  <1> QED  BY <1>3, <1>4 DEF TypeInv

LEMMA StartupType == TypeInv /\ Startup => TypeInv'
  <1> SUFFICES ASSUME TypeInv, Startup PROVE TypeInv'
    OBVIOUS
  <1> USE DEF TypeInv
  <1>1. CASE Boot
    <2> DEFINE lists == [i \in 1..Len(yaml.filters) |-> FileOf(yaml.filters[i])]
    <2>1. yaml \in Configs /\ Len(yaml.filters) \in Nat
      BY <1>1, ConfigFacts DEF Boot, Bootable
    <2>2. lists \in [1..Len(yaml.filters) -> Contents \cup {NoFile}]
      BY <2>1, ConfigFacts, FileType
    <2>3. lists \in Lists /\ Len(lists) = Len(yaml.filters)
      BY <2>1, <2>2 DEF Lists
    <2>4. serving' \in Catalog
      BY <1>1, <2>1, <2>3 DEF Boot, Bootable, Catalog
    <2>5. settings' \in Settings /\ bound' \in Transports
      BY <1>1, <2>1, FromConfigType, ConfigFacts DEF Boot, Bootable
    <2>6. 1 \in 1..RetryMax /\ timer' \in Nat
      BY <1>1, <2>5, DelayBounds, RetryMaxAssumption DEF Boot, Bootable
    <2>7. TypeOK'
      BY <1>1, <2>4, <2>5, <2>6 DEF Boot, Bootable, TypeOK, envVars, signalVars
    <2>8. Shape'
      BY <1>1, <2>4, <2>5 DEF Boot, Bootable, Shape, Up
    <2> QED  BY <2>7, <2>8
  <1>2. CASE BootFails
    BY <1>2, HaltType DEF BootFails, envVars, TypeOK
  <1> QED  BY <1>1, <1>2 DEF Startup

\* Reading the configuration starts a reload or ends it at once.
LEMMA ReadConfigType ==
    ASSUME TypeInv, pc = "select", NEW mode \in Modes, ReadConfig(mode)
    PROVE  /\ retry' \in 1..RetryMax /\ timer' \in Nat
           /\ job' \in Jobs \cup {NoJob} /\ pc' \in {"select", "fetch"}
           /\ pc' = "fetch" => /\ job' = [mode |-> mode, config |-> yaml,
                                          loaded |-> <<>>, rev |-> 0]
                               /\ job' \in Jobs /\ Len(job'.loaded) = 0
                               /\ Len(job'.loaded) <= Len(job'.config.filters)
  <1> USE DEF TypeInv
  <1>1. CASE yaml \in Configs /\ pc' = "fetch"
    <2>1. /\ job' = [mode |-> mode, config |-> yaml, loaded |-> <<>>, rev |-> 0]
          /\ UNCHANGED <<retry, timer>>
      BY <1>1 DEF ReadConfig, EndReload
    <2>2. <<>> \in Lists /\ Len(yaml.filters) \in Nat
      BY <1>1, ConfigFacts DEF Lists
    <2>3. job' \in Jobs
      BY <1>1, <2>1, <2>2 DEF Jobs
    <2> QED  BY <1>1, <2>1, <2>2, <2>3 DEF TypeOK
  <1>2. CASE EndReload(mode, FALSE, settings)
    <2>1. settings \in Settings
      BY DEF Shape, Up
    <2> QED  BY <1>2, <2>1, EndReloadType DEF EndReload
  <1> QED  BY <1>1, <1>2 DEF ReadConfig

LEMMA SelectType == TypeInv /\ Select => TypeInv'
  <1> SUFFICES ASSUME TypeInv, Select PROVE TypeInv'
    OBVIOUS
  <1> USE DEF TypeInv
  <1>1. ASSUME pc = "select", NEW mode \in Modes, ReadConfig(mode),
               hup' \in BOOLEAN,
               UNCHANGED <<envVars, cache, exit, term, serverDone, activeVars, pinned>>
        PROVE  TypeInv'
    <2>1. TypeOK'
      BY <1>1, ReadConfigType DEF TypeOK, envVars, activeVars
    <2>2. Shape'
      BY <1>1, ReadConfigType DEF Shape, Up, activeVars
    <2> QED  BY <2>1, <2>2
  <1>2. CASE HandleHup
    BY <1>1, <1>2 DEF HandleHup, Modes
  <1>3. CASE TimerElapses
    BY <1>1, <1>3 DEF TimerElapses, Modes, signalVars, TypeOK
  <1>4. CASE ReadPanics
    BY <1>4, HaltType DEF ReadPanics, envVars, TypeOK
  <1>5. CASE HandleTerm
    BY <1>5, HaltType DEF HandleTerm, envVars, TypeOK
  <1>6. CASE HandleServerDone
    BY <1>6, HaltType DEF HandleServerDone, envVars, TypeOK
  <1> QED  BY <1>2, <1>3, <1>4, <1>5, <1>6 DEF Select

\* A reload given up: everything in force stays in force.
LEMMA GivenUpType ==
    ASSUME TypeInv, pc \in {"fetch", "write"}, NEW mode,
           EndReload(mode, FALSE, settings),
           budget' \in [Event -> Nat \cup {Unlimited}],
           cache' \in [CacheKeys -> Contents \cup {NoFile, Garbled}],
           UNCHANGED <<yaml, published, exit, signalVars, activeVars, pinned>>
    PROVE  TypeInv'
  <1> USE DEF TypeInv
  <1>1. settings \in Settings
    BY DEF Shape, Up
  <1>2. /\ retry' \in 1..RetryMax /\ timer' \in Nat
        /\ pc' = "select" /\ job' = NoJob
    BY <1>1, EndReloadType
  <1>3. TypeOK'
    BY <1>2 DEF TypeOK, signalVars, activeVars
  <1>4. Shape'
    BY <1>2 DEF Shape, Up, activeVars
  <1> QED  BY <1>3, <1>4

\* One list loaded.
LEMMA LoadedType ==
    ASSUME TypeInv, job \in Jobs, Len(job.loaded) < Len(job.config.filters),
           NEW x \in Contents \cup {NoFile}, Loaded(x), pc' = "fetch", Up,
           cache' \in [CacheKeys -> Contents \cup {NoFile, Garbled}],
           UNCHANGED <<envVars, exit, signalVars, retry, timer, activeVars, pinned>>
    PROVE  TypeInv'
  <1> USE DEF TypeInv
  <1>1. job' \in Jobs /\ Len(job'.loaded) <= Len(job'.config.filters)
    BY LoadedFacts
  <1>2. TypeOK'
    BY <1>1 DEF TypeOK, envVars, signalVars, activeVars
  <1>3. Shape'
    BY <1>1 DEF Shape, Up, activeVars
  <1> QED  BY <1>2, <1>3

LEMMA FetchType == TypeInv /\ Fetch => TypeInv'
  <1> SUFFICES ASSUME TypeInv, Fetch PROVE TypeInv'
    OBVIOUS
  <1> USE DEF TypeInv
  <1>a. /\ pc \in {"fetch", "write"} /\ job \in Jobs /\ Up
        /\ Len(job.loaded) < Len(job.config.filters)
    BY DEF Fetch, FetchCached, DownloadSame, DownloadNew, CacheRefused, WriteCompletes,
           WriteFails, UseCachedCopy, NoCachedCopy, DownloadSucceeds, Loading, Shape, Up
  <1>b. NextFilter \in Filters
    BY <1>a, NextFilterType
  <1>c. /\ FileOf(NextFilter) \in Contents \cup {NoFile}
        /\ CacheKey(NextFilter) \in CacheKeys
        /\ Downloaded \in Contents /\ Downloaded.rev \in 1..MaxRev
    BY <1>b, FileType, CacheKeyType, DownloadedType
  <1>d. /\ cache \in [CacheKeys -> Contents \cup {NoFile, Garbled}]
        /\ budget \in [Event -> Nat \cup {Unlimited}]
    BY DEF TypeOK
  <1>1. CASE FetchCached
    BY <1>1, <1>a, <1>c, <1>d, LoadedType DEF FetchCached, Loading
  <1>2. CASE DownloadSame
    BY <1>2, <1>a, <1>c, <1>d, LoadedType DEF DownloadSame, DownloadSucceeds, Loading
  <1>3. CASE DownloadNew
    <2>1. cache' \in [CacheKeys -> Contents \cup {NoFile, Garbled}]
      BY <1>3, <1>c, <1>d DEF DownloadNew, Contents
    <2>2. /\ job' \in Jobs /\ job'.mode = job.mode
          /\ job'.config = job.config /\ job'.loaded = job.loaded
      BY <1>3, <1>a, <1>c DEF DownloadNew, Jobs
    <2>3. job.mode = "Refresh" /\ pc' = "write"
      BY <1>3 DEF DownloadNew, DownloadSucceeds
    <2>4. TypeOK'
      BY <1>3, <2>1, <2>2, <2>3 DEF DownloadNew, TypeOK, envVars, signalVars, activeVars
    <2>5. Shape'
      BY <1>3, <1>a, <2>2, <2>3 DEF DownloadNew, Shape, Up, activeVars, Jobs, Lists
    <2> QED  BY <2>4, <2>5
  <1>4. CASE CacheRefused
    BY <1>4, <1>a, <1>d, SpendType, GivenUpType DEF CacheRefused, Event
  <1>5. CASE WriteCompletes
    <2>1. job.rev \in Nat
      BY <1>a DEF Jobs
    <2>2. [url |-> NextFilter.url, rev |-> job.rev] \in Contents
      BY <1>b, <2>1 DEF Filters, Contents
    <2>3. cache' \in [CacheKeys -> Contents \cup {NoFile, Garbled}]
      BY <1>5, <1>d, <2>2 DEF WriteCompletes
    <2> QED  BY <1>5, <1>a, <2>2, <2>3, LoadedType DEF WriteCompletes
  <1>6. CASE WriteFails
    BY <1>6, <1>a, SpendType, CutType, GivenUpType DEF WriteFails, Event
  <1>7. CASE UseCachedCopy
    BY <1>7, <1>a, <1>c, <1>d, LoadedType DEF UseCachedCopy, Loading
  <1>8. CASE NoCachedCopy
    BY <1>8, <1>a, <1>d, GivenUpType DEF NoCachedCopy, ReloadFails, envVars
  <1> QED  BY <1>1, <1>2, <1>3, <1>4, <1>5, <1>6, <1>7, <1>8 DEF Fetch

LEMMA FinishType == TypeInv /\ Finish => TypeInv'
  <1> SUFFICES ASSUME TypeInv, Finish PROVE TypeInv'
    OBVIOUS
  <1> USE DEF TypeInv
  <1>1. CASE RejectList \/ RejectReload
    BY <1>1, GivenUpType DEF RejectList, RejectReload, AllLoaded, ReloadFails, envVars, TypeOK
  <1>2. CASE CompleteReload
    <2>1. /\ job \in Jobs /\ job.config \in Configs /\ job.loaded \in Lists
          /\ Len(job.loaded) = Len(job.config.filters) /\ Up
      BY <1>2 DEF CompleteReload, AllLoaded, Shape, Jobs, Up
    <2>2. serving' \in Catalog
      BY <1>2, <2>1 DEF CompleteReload, Catalog
    <2>3. settings' \in Settings
      BY <1>2, <2>1, FromConfigType DEF CompleteReload
    <2>4. /\ retry' \in 1..RetryMax /\ timer' \in Nat
          /\ pc' = "select" /\ job' = NoJob
      BY <1>2, <2>3, EndReloadType DEF CompleteReload
    <2>5. TypeOK'
      BY <1>2, <2>2, <2>3, <2>4 DEF CompleteReload, TypeOK, envVars, signalVars
    <2>6. Shape'
      BY <1>2, <2>1, <2>2, <2>3, <2>4 DEF CompleteReload, Shape, Up
    <2> QED  BY <2>5, <2>6
  <1> QED  BY <1>1, <1>2 DEF Finish

LEMMA ServeType == TypeInv /\ Serve => TypeInv'
  <1> SUFFICES ASSUME TypeInv, NEW r \in Requests, BeginRequest(r) \/ EndRequest(r)
               PROVE  TypeInv'
    BY DEF Serve
  <1> USE DEF TypeInv
  <1>1. pinned' \in [Requests -> Catalog \cup {NoCatalog}]
    BY DEF BeginRequest, EndRequest, TypeOK
  <1>2. UNCHANGED <<envVars, cache, exit, signalVars, loopVars, activeVars>>
    BY DEF BeginRequest, EndRequest
  <1>3. TypeOK'
    BY <1>1, <1>2 DEF TypeOK, envVars, signalVars, loopVars, activeVars
  <1>4. Shape'
    BY <1>2 DEF Shape, Up, loopVars, activeVars
  <1> QED  BY <1>3, <1>4

LEMMA EnvironmentType == TypeInv /\ Environment => TypeInv'
  <1> SUFFICES ASSUME TypeInv, Environment PROVE TypeInv'
    OBVIOUS
  <1> USE DEF TypeInv
  <1>1. CASE EditYaml
    <2>1. TypeOK'
      BY <1>1, SpendType DEF EditYaml, Event, TypeOK, signalVars, loopVars, activeVars
    <2>2. Shape'
      BY <1>1 DEF EditYaml, Shape, Up, loopVars, activeVars
    <2> QED  BY <2>1, <2>2
  <1>2. CASE \E u \in Urls \ Dead : Publish(u)
    <2>1. PICK u \in Urls : Publish(u)
      BY <1>2
    <2>2. published[u] + 1 \in 1..MaxRev
      BY <2>1, BoundsAssumption DEF Publish, TypeOK
    <2>3. TypeOK'
      BY <2>1, <2>2 DEF Publish, TypeOK, signalVars, loopVars, activeVars
    <2>4. Shape'
      BY <2>1 DEF Publish, Shape, Up, loopVars, activeVars
    <2> QED  BY <2>3, <2>4
  <1>3. CASE \E k \in Volatile : LoseCache(k)
    <2>1. PICK k \in Volatile : LoseCache(k)
      BY <1>3
    <2>2. cache' \in [CacheKeys -> Contents \cup {NoFile, Garbled}]
      BY <2>1, FaultsAssumption DEF LoseCache, TypeOK
    <2>3. TypeOK'
      BY <2>1, <2>2, SpendType
      DEF LoseCache, Event, TypeOK, signalVars, loopVars, activeVars
    <2>4. Shape'
      BY <2>1 DEF LoseCache, Shape, Up, loopVars, activeVars
    <2> QED  BY <2>3, <2>4
  <1>4. CASE SendHup
    <2>1. TypeOK'
      BY <1>4, SpendType DEF SendHup, Event, TypeOK, loopVars, activeVars
    <2>2. Shape'
      BY <1>4 DEF SendHup, Shape, Up, loopVars, activeVars
    <2> QED  BY <2>1, <2>2
  <1>5. CASE SendTerm
    <2>1. TypeOK'
      BY <1>5, SpendType DEF SendTerm, Event, TypeOK, loopVars, activeVars
    <2>2. Shape'
      BY <1>5 DEF SendTerm, Shape, Up, loopVars, activeVars
    <2> QED  BY <2>1, <2>2
  <1>6. CASE ListenerStops
    <2>1. TypeOK'
      BY <1>6, SpendType DEF ListenerStops, Event, TypeOK, loopVars, activeVars
    <2>2. Shape'
      BY <1>6 DEF ListenerStops, Shape, Up, loopVars, activeVars
    <2> QED  BY <2>1, <2>2
  <1>7. CASE Crash
    <2>1. cache' \in [CacheKeys -> Contents \cup {NoFile, Garbled}]
      BY <1>7, CutType DEF Crash, TypeOK
    <2> QED  BY <1>7, <2>1, SpendType, HaltType DEF Crash, Event
  <1>8. CASE Tick
    <2>1. TypeOK'
      BY <1>8 DEF Tick, TypeOK, envVars, signalVars, activeVars
    <2>2. Shape'
      BY <1>8 DEF Tick, Shape, Up, activeVars
    <2> QED  BY <2>1, <2>2
  <1> QED  BY <1>1, <1>2, <1>3, <1>4, <1>5, <1>6, <1>7, <1>8 DEF Environment

LEMMA StutterType == TypeInv /\ UNCHANGED vars => TypeInv'
  BY DEF TypeInv, TypeOK, Shape, Up, vars, envVars, signalVars, loopVars, activeVars

LEMMA NextType == TypeInv /\ [Next]_vars => TypeInv'
  BY StartupType, SelectType, FetchType, FinishType, ServeType, EnvironmentType,
     StutterType DEF Next

\* Every variable always has its type, and the program counter tells which of
\* them hold a value: the loop of async_run and its reloads, whatever the
\* operator, the publishers, the disk and the signals do.
THEOREM TypeCorrect == Spec => [](TypeOK /\ Shape)
  <1>1. TypeInv <=> TypeOK /\ Shape
    BY DEF TypeInv
  <1> QED  BY <1>1, InitType, NextType, PTL DEF Spec

-----------------------------------------------------------------------------
(***************************************************************************)
(* The settings, the catalog and the sockets belong together.              *)
(***************************************************************************)
\* Only a completed reload changes what is in force while the process runs.
LEMMA InForceChanges ==
    ASSUME TypeInv, [Next]_vars
    PROVE  \/ UNCHANGED activeVars /\ (Up' <=> Up)
           \/ ~Up'
           \/ Boot
           \/ CompleteReload
  <1>1. CASE Startup
    BY <1>1 DEF Startup, BootFails, Halt, Up
  <1>2. CASE Select
    BY <1>2 DEF Select, HandleHup, TimerElapses, ReadPanics, HandleTerm, HandleServerDone,
                ReadConfig, EndReload, Halt, Up
  <1>3. CASE Fetch
    BY <1>3 DEF Fetch, FetchCached, DownloadSame, DownloadNew, CacheRefused,
                WriteCompletes, WriteFails, UseCachedCopy, NoCachedCopy, ReloadFails,
                DownloadSucceeds, Loading, EndReload, Up
  <1>4. CASE Finish
    BY <1>4 DEF Finish, RejectList, RejectReload, AllLoaded, ReloadFails, EndReload, Up
  <1>5. CASE Serve
    BY <1>5 DEF Serve, BeginRequest, EndRequest, loopVars, Up
  <1>6. CASE Environment
    BY <1>6 DEF Environment, EditYaml, Publish, LoseCache, SendHup, SendTerm,
                ListenerStops, Crash, Tick, Halt, loopVars, Up
  <1>7. CASE UNCHANGED vars
    BY <1>7 DEF vars, loopVars, Up
  <1> QED  BY <1>1, <1>2, <1>3, <1>4, <1>5, <1>6, <1>7 DEF Next

\* After any sequence of edits, signals, refreshes and failures, the settings,
\* the catalog and the sockets are those of one configuration file: a reload
\* that changes the transport is refused before anything is replaced.
THEOREM OneConfig == Spec => []OneConfigInForce
  <1>1. Init => OneConfigInForce
    BY DEF Init, OneConfigInForce, Up
  <1>2. TypeInv /\ OneConfigInForce /\ [Next]_vars => OneConfigInForce'
    <2> SUFFICES ASSUME TypeInv, OneConfigInForce, [Next]_vars
                 PROVE  OneConfigInForce'
      OBVIOUS
    <2>1. CASE UNCHANGED activeVars /\ (Up' <=> Up)
      BY <2>1 DEF OneConfigInForce, activeVars
    <2>2. CASE ~Up'
      BY <2>2 DEF OneConfigInForce
    <2>3. CASE Boot
      BY <2>3, FromConfigType DEF Boot, Bootable, OneConfigInForce
    <2>4. CASE CompleteReload
      <3>1. job.config \in Configs /\ Up
        BY <2>4 DEF CompleteReload, AllLoaded, TypeInv, Shape, Jobs, Up
      <3>2. bound' = settings.transport
        BY <2>4, <3>1 DEF CompleteReload, OneConfigInForce
      <3>3. settings.transport = job.config.transport
        BY <2>4, <3>1, FromConfigType DEF CompleteReload, EnsureReloadSafe
      <3> QED  BY <2>4, <3>1, <3>2, <3>3, FromConfigType
               DEF CompleteReload, OneConfigInForce
    <2> QED  BY <2>1, <2>2, <2>3, <2>4, InForceChanges
  <1> QED  BY <1>1, <1>2, InitType, NextType, PTL DEF Spec

-----------------------------------------------------------------------------
(***************************************************************************)
(* A missing list is scheduled.  While a reload runs, a list it found      *)
(* missing is still missing from the disk: only a refresh writes files,    *)
(* and a refresh fails as soon as it finds a list missing.                 *)
(***************************************************************************)
LoadedMissing ==
    pc \in {"fetch", "write"} =>
        \A i \in 1..Len(job.loaded) :
            job.loaded[i] = NoFile =>
                job.mode = "CacheFirst" /\ FileOf(job.config.filters[i]) = NoFile

MissingFlagged == Up /\ ListMissing => settings.missing
MissingArmed == Up /\ settings.missing => timer <= RetryMax

MissingInv == LoadedMissing /\ MissingFlagged /\ MissingArmed

\* A job that goes on unchanged, over a disk that at most loses files.
LEMMA LoadedMissingKept ==
    ASSUME TypeInv, LoadedMissing, pc' = pc, job' = job,
           cache' = cache \/ \E k \in Volatile : LoseCache(k)
    PROVE  LoadedMissing'
  <1> SUFFICES ASSUME pc \in {"fetch", "write"}, NEW i \in 1..Len(job.loaded),
                      job.loaded[i] = NoFile
               PROVE  job.mode = "CacheFirst" /\ FileOf(job.config.filters[i])' = NoFile
    BY DEF LoadedMissing
  <1>1. job.mode = "CacheFirst" /\ FileOf(job.config.filters[i]) = NoFile
    BY DEF LoadedMissing
  <1>2. job.config.filters[i] \in Filters
    BY ConfigFacts DEF TypeInv, Shape, Jobs, Lists
  <1>3. CacheKey(job.config.filters[i]) \in CacheKeys
    BY <1>2, CacheKeyType
  <1>4. CASE cache' = cache
    BY <1>1, <1>4 DEF FileOf, CacheKey
  <1>5. CASE \E k \in Volatile : LoseCache(k)
    BY <1>1, <1>3, <1>5 DEF FileOf, LoseCache, CacheKey, TypeInv, TypeOK
  <1> QED  BY <1>4, <1>5

LEMMA LoadedMissingFetch == TypeInv /\ LoadedMissing /\ Fetch => LoadedMissing'
  <1> SUFFICES ASSUME TypeInv, LoadedMissing, Fetch, pc' \in {"fetch", "write"}
               PROVE  LoadedMissing'
    BY DEF LoadedMissing
  <1>a. /\ pc \in {"fetch", "write"} /\ job \in Jobs
        /\ Len(job.loaded) < Len(job.config.filters)
    BY DEF Fetch, FetchCached, DownloadSame, DownloadNew, CacheRefused, WriteCompletes,
           WriteFails, UseCachedCopy, NoCachedCopy, DownloadSucceeds, Loading, Shape, TypeInv
  <1>b. /\ NextFilter \in Filters /\ job.loaded \in Lists /\ Len(job.loaded) \in Nat
        /\ NextFilter = job.config.filters[Len(job.loaded) + 1]
    BY <1>a, NextFilterType DEF NextFilter, Jobs, Lists
  <1>c. Downloaded \in Contents /\ FileOf(NextFilter) \in Contents \cup {NoFile}
    BY <1>b, DownloadedType, FileType DEF TypeInv
  <1>1. CASE job.mode = "CacheFirst"
    <2>1. FetchCached
      BY <1>1, <1>a DEF Fetch, FetchCached, DownloadSame, DownloadNew, CacheRefused,
           WriteCompletes, WriteFails, UseCachedCopy, NoCachedCopy, DownloadSucceeds,
           Shape, TypeInv
    <2>2. /\ cache' = cache /\ job'.mode = job.mode /\ job'.config = job.config
          /\ job'.loaded = Append(job.loaded, FileOf(NextFilter))
          /\ Len(job'.loaded) = Len(job.loaded) + 1
      BY <2>1, <1>a, <1>c, LoadedFacts DEF FetchCached
    <2>3. \A i : FileOf(job.config.filters[i])' = FileOf(job.config.filters[i])
      BY <2>2 DEF FileOf, CacheKey
    <2>4. ASSUME NEW i \in 1..Len(job'.loaded), job'.loaded[i] = NoFile
          PROVE  FileOf(job.config.filters[i]) = NoFile
      <3>1. CASE i \in 1..Len(job.loaded)
        <4>1. job.loaded[i] = NoFile
          BY <3>1, <2>2, <2>4, <1>b, <1>c, AppendFacts
        <4> QED  BY <3>1, <4>1, <1>a DEF LoadedMissing
      <3>2. CASE i = Len(job.loaded) + 1
        <4>1. job'.loaded[i] = FileOf(NextFilter)
          BY <3>2, <2>2, <1>b, <1>c, AppendFacts
        <4> QED  BY <3>2, <4>1, <2>4, <1>b
      <3> QED  BY <3>1, <3>2, <2>2, <2>4, <1>b
    <2> QED  BY <1>1, <2>2, <2>3, <2>4 DEF LoadedMissing
  <1>2. CASE job.mode = "Refresh"
    <2>1. \A i \in 1..Len(job.loaded) : job.loaded[i] # NoFile
      BY <1>2, <1>a DEF LoadedMissing
    <2>2. CASE job'.loaded = job.loaded
      BY <2>1, <2>2 DEF LoadedMissing
    <2>3. ASSUME NEW x \in Contents \cup {NoFile}, x # NoFile, Loaded(x)
          PROVE  LoadedMissing'
      <3>1. /\ job'.loaded = Append(job.loaded, x)
            /\ Len(job'.loaded) = Len(job.loaded) + 1
        BY <2>3, <1>a, LoadedFacts
      <3>2. \A i \in 1..Len(job'.loaded) : job'.loaded[i] # NoFile
        BY <3>1, <2>1, <2>3, <1>b, AppendFacts
      <3> QED  BY <3>2 DEF LoadedMissing
    <2>4. CASE DownloadSame
      BY <2>4, <2>3, <1>c, NullsAssumption DEF DownloadSame, Contents
    <2>5. CASE DownloadNew
      BY <2>5, <2>2, <1>a DEF DownloadNew, Jobs
    <2>6. CASE WriteCompletes
      <3>1. [url |-> NextFilter.url, rev |-> job.rev] \in Contents
        BY <1>a, <1>b DEF Jobs, Filters, Contents
      <3> QED  BY <3>1, <2>6, <2>3, NullsAssumption DEF WriteCompletes, Contents
    <2>7. CASE UseCachedCopy
      BY <2>7, <2>3, <1>c DEF UseCachedCopy
    <2> QED  BY <1>2, <2>4, <2>5, <2>6, <2>7
             DEF Fetch, FetchCached, CacheRefused, WriteFails, NoCachedCopy, ReloadFails,
                 EndReload
  <1> QED  BY <1>1, <1>2, <1>a DEF Jobs, Modes

LEMMA LoadedMissingStep == TypeInv /\ LoadedMissing /\ [Next]_vars => LoadedMissing'
  <1> SUFFICES ASSUME TypeInv, LoadedMissing, [Next]_vars PROVE LoadedMissing'
    OBVIOUS
  <1>1. CASE Startup
    BY <1>1 DEF Startup, Boot, Bootable, BootFails, Halt, LoadedMissing
  <1>2. CASE Select
    <2>1. ASSUME NEW mode \in Modes, ReadConfig(mode) PROVE LoadedMissing'
      <3>1. CASE pc' = "select"
        BY <3>1 DEF LoadedMissing
      <3>2. CASE pc' = "fetch"
        <4>1. job'.loaded = <<>>
          BY <2>1, <3>2 DEF ReadConfig, EndReload
        <4> QED  BY <4>1 DEF LoadedMissing
      <3> QED  BY <2>1, <3>1, <3>2 DEF ReadConfig, EndReload
    <2>2. CASE HandleHup \/ TimerElapses
      BY <2>1, <2>2 DEF HandleHup, TimerElapses, Modes
    <2>3. CASE ReadPanics \/ HandleTerm \/ HandleServerDone
      BY <2>3 DEF ReadPanics, HandleTerm, HandleServerDone, Halt, LoadedMissing
    <2> QED  BY <1>2, <2>2, <2>3 DEF Select
  <1>3. CASE Fetch
    BY <1>3, LoadedMissingFetch
  <1>4. CASE Finish
    BY <1>4 DEF Finish, RejectList, RejectReload, CompleteReload, ReloadFails, EndReload, LoadedMissing
  <1>5. CASE Serve
    BY <1>5, LoadedMissingKept DEF Serve, BeginRequest, EndRequest, loopVars
  <1>6. CASE \E k \in Volatile : LoseCache(k)
    BY <1>6, LoadedMissingKept DEF LoseCache, loopVars
  <1>7. CASE Crash
    BY <1>7 DEF Crash, Halt, LoadedMissing
  <1>8. CASE Environment /\ ~Crash /\ ~(\E k \in Volatile : LoseCache(k))
    BY <1>8, LoadedMissingKept DEF Environment, EditYaml, Publish, SendHup, SendTerm,
       ListenerStops, Tick, loopVars
  <1>9. CASE UNCHANGED vars
    BY <1>9, LoadedMissingKept DEF vars, loopVars
  <1> QED  BY <1>1, <1>2, <1>3, <1>4, <1>5, <1>6, <1>7, <1>8, <1>9 DEF Next

LEMMA MissingFlaggedStep ==
    TypeInv /\ MissingInv /\ [Next]_vars => MissingFlagged'
  <1> SUFFICES ASSUME TypeInv, MissingInv, [Next]_vars PROVE MissingFlagged'
    OBVIOUS
  <1>1. CASE UNCHANGED activeVars /\ (Up' <=> Up)
    BY <1>1 DEF MissingInv, MissingFlagged, ListMissing, activeVars
  <1>2. CASE ~Up'
    BY <1>2 DEF MissingFlagged
  <1>3. CASE Boot
    <2>1. yaml \in Configs /\ settings' = FromConfig(yaml)
      BY <1>3 DEF Boot, Bootable
    <2>2. serving'.lists = [i \in 1..Len(yaml.filters) |-> FileOf(yaml.filters[i])]
      BY <1>3 DEF Boot, Bootable
    <2>3. DOMAIN yaml.filters = 1..Len(yaml.filters)
      BY <2>1, ConfigFacts
    <2>4. \A i \in 1..Len(yaml.filters) : serving'.lists[i] = FileOf(yaml.filters[i])
      BY <2>2
    <2>5. DOMAIN serving'.lists = 1..Len(yaml.filters)
      BY <2>2
    <2>6. ListMissing' <=> HasUncachedFilters(yaml)
      BY <2>3, <2>4, <2>5 DEF ListMissing, HasUncachedFilters
    <2>7. settings'.missing = HasUncachedFilters(yaml)
      BY <2>1, FromConfigType DEF FromConfig
    <2> QED  BY <2>6, <2>7 DEF MissingFlagged
  <1>4. CASE CompleteReload
    <2>1. /\ job \in Jobs /\ job.config \in Configs /\ job.loaded \in Lists
          /\ Len(job.loaded) = Len(job.config.filters) /\ pc = "fetch"
      BY <1>4 DEF CompleteReload, AllLoaded, TypeInv, Shape, Jobs
    <2>2. serving'.lists = job.loaded /\ settings' = FromConfig(job.config)
      BY <1>4 DEF CompleteReload
    <2>3. /\ DOMAIN job.loaded = 1..Len(job.loaded)
          /\ DOMAIN job.config.filters = 1..Len(job.loaded)
      BY <2>1, ConfigFacts DEF Lists
    <2>4. ASSUME NEW i \in DOMAIN job.loaded, job.loaded[i] = NoFile
          PROVE  HasUncachedFilters(job.config)
      BY <2>1, <2>3, <2>4 DEF MissingInv, LoadedMissing, HasUncachedFilters
    <2> QED  BY <2>1, <2>2, <2>4, FromConfigType DEF MissingFlagged, ListMissing
  <1> QED  BY <1>1, <1>2, <1>3, <1>4, InForceChanges

LEMMA MissingArmedStep == TypeInv /\ MissingArmed /\ [Next]_vars => MissingArmed'
  <1> SUFFICES ASSUME TypeInv, MissingArmed, [Next]_vars, Up' PROVE MissingArmed'
    BY DEF MissingArmed
  <1> USE DEF TypeInv
  <1>a. Up => settings \in Settings
    BY DEF Shape
  <1>b. ASSUME Up, NEW mode, NEW ok, NEW s \in Settings, EndReload(mode, ok, s),
               settings' = s
        PROVE  MissingArmed'
    BY <1>b, EndReloadType DEF MissingArmed
  <1>c. ASSUME Up, settings' = settings, timer' <= timer, timer' \in Nat
        PROVE  MissingArmed'
    BY <1>c, RetryMaxAssumption DEF MissingArmed, TypeOK
  <1>d. timer \in Nat /\ timer <= timer
    BY DEF TypeOK
  <1>1. CASE Startup
    <2>1. Boot
      BY <1>1 DEF Startup, BootFails, Halt, Up
    <2>2. yaml \in Configs /\ settings' = FromConfig(yaml)
          /\ timer' = NextFilterRefresh(settings', 1)
      BY <2>1 DEF Boot, Bootable
    <2>3. 1 \in 1..RetryMax
      BY RetryMaxAssumption
    <2> QED  BY <2>2, <2>3, FromConfigType, DelayBounds DEF MissingArmed
  <1>2. CASE Select
    <2>1. PICK mode \in Modes : ReadConfig(mode) /\ settings' = settings /\ pc = "select"
      BY <1>2 DEF Select, HandleHup, TimerElapses, ReadPanics, HandleTerm,
                  HandleServerDone, Halt, Up, Modes, activeVars
    <2>2. CASE EndReload(mode, FALSE, settings)
      BY <2>1, <2>2, <1>a, <1>b DEF Up
    <2>3. CASE UNCHANGED <<retry, timer>>
      BY <2>1, <2>3, <1>c, <1>d DEF Up
    <2> QED  BY <2>1, <2>2, <2>3 DEF ReadConfig
  <1>3. CASE Fetch
    <2>1. Up /\ settings' = settings
      BY <1>3 DEF Fetch, FetchCached, DownloadSame, DownloadNew, CacheRefused,
             WriteCompletes, WriteFails, UseCachedCopy, NoCachedCopy, ReloadFails,
             DownloadSucceeds, Loading, Up, activeVars
    <2>2. timer' = timer \/ EndReload(job.mode, FALSE, settings)
      BY <1>3 DEF Fetch, FetchCached, DownloadSame, DownloadNew, CacheRefused,
             WriteCompletes, WriteFails, UseCachedCopy, NoCachedCopy, ReloadFails
    <2> QED  BY <2>1, <2>2, <1>a, <1>b, <1>c, <1>d
  <1>4. CASE Finish
    <2>1. CASE RejectList \/ RejectReload
      BY <2>1, <1>a, <1>b DEF RejectList, RejectReload, AllLoaded, ReloadFails, activeVars, Up
    <2>2. CASE CompleteReload
      <3>1. Up /\ job.config \in Configs
        BY <2>2 DEF CompleteReload, AllLoaded, Shape, Jobs, Up
      <3>2. settings' \in Settings /\ EndReload(job.mode, TRUE, settings')
        BY <2>2, <3>1, FromConfigType DEF CompleteReload
      <3> QED  BY <3>1, <3>2, <1>b
    <2> QED  BY <1>4, <2>1, <2>2 DEF Finish
  <1>5. CASE Serve
    BY <1>5, <1>c, <1>d DEF Serve, BeginRequest, EndRequest, loopVars, activeVars, Up
  <1>6. CASE Environment
    <2>1. CASE Tick
      BY <2>1, <1>c, <1>d DEF Tick, activeVars, Up
    <2>2. CASE ~Tick
      BY <1>6, <2>2, <1>c, <1>d DEF Environment, EditYaml, Publish, LoseCache, SendHup,
         SendTerm, ListenerStops, Crash, Halt, loopVars, activeVars, Up
    <2> QED  BY <2>1, <2>2
  <1>7. CASE UNCHANGED vars
    BY <1>7, <1>c, <1>d DEF vars, loopVars, activeVars, Up
  <1> QED  BY <1>1, <1>2, <1>3, <1>4, <1>5, <1>6, <1>7 DEF Next

\* While the catalog in service lacks an enabled list, the loop knows it and the
\* next attempt to download it is at most RetryMax away: has_uncached_filters,
\* which looks at the disk again after the lists were read, cannot disagree.
THEOREM MissingScheduled == Spec => []MissingListIsScheduled
  <1>1. Init => MissingInv
    BY DEF Init, MissingInv, LoadedMissing, MissingFlagged, MissingArmed, Up
  <1>2. TypeInv /\ MissingInv /\ [Next]_vars => MissingInv'
    BY LoadedMissingStep, MissingFlaggedStep, MissingArmedStep DEF MissingInv
  <1>3. MissingInv => MissingListIsScheduled
    BY DEF MissingInv, MissingFlagged, MissingArmed, MissingListIsScheduled
  <1> QED  BY <1>1, <1>2, <1>3, InitType, NextType, PTL DEF Spec

\* A refresh that completes has every enabled list: build_with_fetch_mode
\* returns the first error it meets, so no refresh costs the service a list.
THEOREM RefreshComplete == Spec => RefreshIsComplete
  <1>1. Init => LoadedMissing
    BY DEF Init, LoadedMissing
  <1>2. TypeInv /\ LoadedMissing /\ [Next]_vars =>
          [Swapping /\ job.mode = "Refresh" =>
              \A i \in DOMAIN serving'.lists : serving'.lists[i] # NoFile]_vars
    <2> SUFFICES ASSUME TypeInv, LoadedMissing, [Next]_vars, Swapping,
                        job.mode = "Refresh", NEW i \in DOMAIN serving'.lists
                 PROVE  serving'.lists[i] # NoFile
      OBVIOUS
    <2>1. CompleteReload
      BY InForceChanges DEF Swapping, activeVars, Boot
    <2>2. /\ job \in Jobs /\ job.loaded \in Lists /\ pc = "fetch"
      BY <2>1 DEF CompleteReload, AllLoaded, TypeInv, Shape, Jobs
    <2>3. serving'.lists = job.loaded /\ DOMAIN job.loaded = 1..Len(job.loaded)
      BY <2>1, <2>2 DEF CompleteReload, Lists
    <2> QED  BY <2>2, <2>3 DEF LoadedMissing
  <1>3. TypeInv /\ LoadedMissing /\ [Next]_vars => TypeInv' /\ LoadedMissing'
    BY NextType, LoadedMissingStep
  <1> QED  BY <1>1, <1>2, <1>3, InitType, PTL DEF Spec, RefreshIsComplete

-----------------------------------------------------------------------------
\* What the loop does between two ends of the process, nobody outside sees; and it
\* ends because of SIGTERM, of its listeners or of a kill, or because the
\* configuration file is absent: every other failure of a reload comes back to the
\* loop as an Err that is logged.
LEMMA ProcessStep ==
  ASSUME TypeInv, [Next]_vars
  PROVE  ReadsNoFile \/ [Proc!Next]_(Proc!vars)
  <1> USE DEF TypeInv, TypeOK, Shape, Proc!Next, Proc!vars, Up
  <1>1. CASE Startup
    BY <1>1 DEF Startup, Boot, BootFails, Halt, Proc!Start, Proc!StartFails, Proc!Down,
                signalVars
  <1>2. CASE Select
    BY <1>2 DEF Select, HandleHup, TimerElapses, ReadConfig, EndReload, ReadPanics,
                ReadsNoFile, HandleTerm, HandleServerDone, Halt, signalVars,
                Proc!StopsCleanly, Proc!GivesUp, Proc!Down
  <1>3. CASE Fetch \/ Finish
    BY <1>3 DEF Fetch, FetchCached, DownloadSame, DownloadNew, CacheRefused,
           WriteCompletes, WriteFails, UseCachedCopy, NoCachedCopy, DownloadSucceeds,
           Loading, Finish, RejectList, RejectReload, CompleteReload, AllLoaded,
           ReloadFails, EndReload, signalVars
  <1>4. CASE Serve \/ UNCHANGED vars
    BY <1>4 DEF Serve, BeginRequest, EndRequest, vars, loopVars, signalVars
  <1>5. CASE Environment
    BY <1>5 DEF Environment, EditYaml, Publish, LoseCache, SendHup, SendTerm,
                ListenerStops, Crash, Halt, Tick, loopVars, signalVars,
                Proc!Tell, Proc!Lose, Proc!Killed, Proc!Down
  <1> QED  BY <1>1, <1>2, <1>3, <1>4, <1>5 DEF Next

\* To whoever started it the daemon, reloading and restarted as often as may be, is
\* the process of module Process.
THEOREM IsAProcess == Spec => ImplementsProcess
  <1>1. Init => Proc!Init
    BY DEF Init, Proc!Init, Up
  <1>2. TypeInv /\ [Next]_vars => ReadsNoFile \/ [Proc!Next]_(Proc!vars)
    BY ProcessStep
  <1> QED  BY <1>1, <1>2, InitType, NextType, PTL DEF Spec, ImplementsProcess

-----------------------------------------------------------------------------
(***************************************************************************)
(* Refinement.                                                             *)
(***************************************************************************)
LEMMA HotSwapInit == Init => HS!Init
  BY DEF Init, HS!Init

LEMMA HotSwapStep == TypeInv /\ OneConfigInForce /\ [Next]_vars => [HS!Next]_HS!vars
  <1> SUFFICES ASSUME TypeInv, OneConfigInForce, [Next]_vars
               PROVE  HS!Next \/ UNCHANGED <<serving, pinned>>
    BY DEF HS!vars
  <1> USE DEF TypeInv
  <1>0. /\ Up => serving \in Catalog /\ serving # NoCatalog
        /\ ~Up => serving = NoCatalog
    BY NoCatalogAssumption DEF Shape
  <1>1. CASE Startup
    <2>1. CASE Boot
      <3>1. serving' \in Catalog
        BY <2>1, StartupType, <1>1 DEF Shape, Up, Boot
      <3> QED  BY <2>1, <3>1, <1>0 DEF Boot, Bootable, HS!Next, HS!Start
    <2>2. CASE BootFails
      BY <2>2 DEF BootFails, Halt, HS!Next, HS!Stop
    <2> QED  BY <1>1, <2>1, <2>2 DEF Startup
  <1>2. CASE Select
    BY <1>2 DEF Select, HandleHup, TimerElapses, ReadPanics, HandleTerm, HandleServerDone,
                Halt, activeVars, HS!Next, HS!Stop
  <1>3. CASE Fetch
    BY <1>3 DEF Fetch, FetchCached, DownloadSame, DownloadNew, CacheRefused,
                WriteCompletes, WriteFails, UseCachedCopy, NoCachedCopy, ReloadFails,
                activeVars
  <1>4. CASE Finish
    <2>1. CASE RejectList \/ RejectReload
      BY <2>1 DEF RejectList, RejectReload, ReloadFails, activeVars
    <2>2. CASE CompleteReload
      <3>1. Up /\ job.config \in Configs
        BY <2>2 DEF CompleteReload, AllLoaded, Shape, Jobs, Up
      <3>2. serving' \in Catalog
        BY <1>4, <2>2, FinishType DEF Shape, Up, CompleteReload, EndReload
      <3>3. TransportOf(serving') = TransportOf(serving)
        BY <2>2, <3>1, FromConfigType
        DEF CompleteReload, TransportOf, EnsureReloadSafe, OneConfigInForce
      <3> QED  BY <2>2, <3>1, <3>2, <3>3, <1>0 DEF CompleteReload, HS!Next, HS!Swap
    <2> QED  BY <1>4, <2>1, <2>2 DEF Finish
  <1>5. CASE Serve
    <2>1. PICK r \in Requests : BeginRequest(r) \/ EndRequest(r)
      BY <1>5 DEF Serve
    <2>2. CASE BeginRequest(r)
      BY <2>2, <1>0 DEF BeginRequest, activeVars, HS!Next, HS!Begin
    <2>3. CASE EndRequest(r)
      <3>1. pinned' = [q \in Requests |-> IF q \in {r} THEN NoCatalog ELSE pinned[q]]
        BY <2>3 DEF EndRequest, TypeOK
      <3>2. {r} \in SUBSET Requests
        OBVIOUS
      <3> QED  BY <2>3, <3>1, <3>2 DEF EndRequest, activeVars, HS!Next, HS!End
    <2> QED  BY <2>1, <2>2, <2>3
  <1>6. CASE Environment
    <2>1. CASE ListenerStops
      <3>1. pinned' = [q \in Requests |->
                         IF q \in Requests THEN NoCatalog ELSE pinned[q]]
        BY <2>1 DEF ListenerStops
      <3> QED  BY <2>1, <3>1 DEF ListenerStops, activeVars, HS!Next, HS!End
    <2>2. CASE Crash
      BY <2>2 DEF Crash, Halt, HS!Next, HS!Stop
    <2>3. CASE ~ListenerStops /\ ~Crash
      BY <1>6, <2>3 DEF Environment, EditYaml, Publish, LoseCache, SendHup, SendTerm,
                        Tick, activeVars
    <2> QED  BY <2>1, <2>2, <2>3
  <1>7. CASE UNCHANGED vars
    BY <1>7 DEF vars, activeVars
  <1> QED  BY <1>1, <1>2, <1>3, <1>4, <1>5, <1>6, <1>7 DEF Next

\* Requests see ReloadableCatalog as an atomic register of complete catalogs for
\* the sockets that are bound: nothing a reload does on the way, and no failure
\* of it, is visible to them, and a request keeps the catalog it began with.
THEOREM ImplementsHotSwap == Spec => HotSwapSpec
  <1> QED  BY HotSwapInit, HotSwapStep, InitType, NextType, OneConfig, PTL
           DEF Spec, HotSwapSpec, HS!Spec

=============================================================================
