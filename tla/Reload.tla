------------------------------- MODULE Reload -------------------------------
(***************************************************************************)
(* The main loop of bin/astra-dns.rs: boot, the tokio::select! over        *)
(* SIGTERM, SIGHUP, the filter refresh timer and the listener task, the    *)
(* configuration reload each of them runs, the filter cache files those    *)
(* reloads read and write, and the catalog that requests are served from.  *)
(*                                                                         *)
(* A reload is a sequence of steps because it awaits one download after    *)
(* another; every other actor (requests, signals, the clock, the operator, *)
(* the list publishers, the disk) may move between two of them, but the    *)
(* loop itself polls nothing else until the reload has returned.           *)
(*                                                                         *)
(* A definition whose comment begins with "Mutant" is the next one with a  *)
(* plausible bug in it: no action uses it, it shows that a property fails  *)
(* when the code is wrong.                                                 *)
(***************************************************************************)
EXTENDS Integers, Sequences

CONSTANTS
    Configs,      \* the YAML files that parse: [filters, interval, transport, builds]
    Urls, Ids,    \* addresses of filter lists; numeric ids a filter entry may carry
    Transports,   \* listener and process settings, those a reload may not change
    RetryMax,     \* the cap of filter_retry_secs (30 in the code)
    Requests,     \* slots for requests in flight
    Dead,         \* lists whose download never succeeds
    Malformed,    \* contents with a line that is an error: a bad regex or modifier
    Volatile,     \* cache files something outside the program may delete
    MaxRev,       \* bound: how often a publisher may change its list
    Budget,       \* bound: how often each environment event may happen (or Unlimited)
    NoId, NoFile, NoCatalog, NoJob, NoSettings, NoTransport, Broken, Absent,
    Garbled       \* a cache file that is no text: its last character is cut in two

\* An enabled entry of `filters`; disabled entries are never looked at.
Filters == [id : Ids \cup {NoId}, url : Urls]
CacheKeys == Ids \cup Urls
Event == {"edit", "disk", "crash", "lose", "hup", "term", "listener"}
Unlimited == -1

ASSUME ConfigsAssumption ==
    Configs \subseteq [filters : Seq(Filters), interval : Nat,
                       transport : Transports, builds : BOOLEAN]
ASSUME RetryMaxAssumption == RetryMax \in Nat \ {0}
ASSUME BoundsAssumption == MaxRev \in Nat \ {0} /\ Budget \in [Event -> Nat \cup {Unlimited}]
ASSUME FaultsAssumption ==
    /\ Dead \subseteq Urls /\ Volatile \subseteq CacheKeys
    /\ Malformed \subseteq [url : Urls, rev : Nat]
ASSUME NullsAssumption ==
    /\ Broken \notin Configs /\ Absent \notin Configs /\ Broken # Absent
    /\ NoId \notin Ids
    /\ Ids \cap Urls = {}     \* no id reads like the hash of a URL
    /\ NoTransport \notin Transports
    /\ NoFile \notin [url : Urls, rev : Nat] /\ Garbled \notin [url : Urls, rev : Nat]
    /\ Garbled # NoFile

VARIABLES
    yaml,         \* the configuration file: a member of Configs, Broken or Absent
    published,    \* the revision each publisher serves
    cache,        \* the filter cache directory
    budget,       \* what the environment may still do
    exit,         \* why the process last ended, "none" while it runs
    serverDone,   \* server_task is ready: the listeners are gone
    hup, term,    \* a SIGHUP, a SIGTERM is pending
    pc,           \* "off", "select", "fetch" (a list) or "write" (its cache file)
    job,          \* the reload under way
    retry,        \* filter_retry_secs
    timer,        \* ticks until filter_refresh_timer elapses
    serving,      \* ReloadableCatalog.current
    settings,     \* reload_settings
    bound,        \* the transport settings the sockets were bound with
    pinned        \* the catalog each request in flight has cloned

envVars == <<yaml, published, budget>>
signalVars == <<hup, term, serverDone>>
loopVars == <<pc, job, retry, timer>>
activeVars == <<serving, settings, bound>>
vars == <<envVars, cache, exit, signalVars, loopVars, activeVars, pinned>>

-----------------------------------------------------------------------------
\* Lists and catalogs.  Revision 0 of a list is a truncated copy of it.
Contents == [url : Urls, rev : Nat]
Lists == Seq(Contents \cup {NoFile})
Catalog == {c \in [config : Configs, lists : Lists] :
                Len(c.lists) = Len(c.config.filters)}

ASSUME NoCatalogAssumption == NoCatalog \notin Catalog

\* Mutant: the file name does not tell two lists apart.
CacheKeyShared(f) == CHOOSE u \in Urls : TRUE

\* fetch.rs: the file name is the id where there is one, else a hash of the URL.
CacheKey(f) == IF f.id # NoId THEN f.id ELSE f.url

\* What read_to_string makes of the file.
FileOf(f) == IF cache[CacheKey(f)] = Garbled THEN NoFile ELSE cache[CacheKey(f)]

Entries == UNION {{c.filters[i] : i \in DOMAIN c.filters} : c \in Configs}

\* rules.rs: some enabled list has no readable cache file.
HasUncachedFilters(c) == \E i \in DOMAIN c.filters : FileOf(c.filters[i]) = NoFile

Settings == [transport : Transports, interval : Nat, missing : BOOLEAN]

FromConfig(c) == [transport |-> c.transport, interval |-> c.interval,
                  missing |-> HasUncachedFilters(c)]

\* Mutant: the configured interval wins over the retry of a missing list.
NextFilterRefreshByInterval(s, r) == IF s.interval > 0 THEN s.interval ELSE r

NextFilterRefresh(s, r) ==
    LET wanted == IF s.missing THEN r ELSE s.interval
    IN  IF wanted < 1 THEN 1 ELSE wanted

\* Mutant: no setting is compared.
EnsureReloadSafeSkipped(new) == TRUE

EnsureReloadSafe(new) == new.transport = settings.transport

\* Mutant: the retry delay has no ceiling.
DoubledRetryUncapped == 2 * retry

DoubledRetry == IF 2 * retry < RetryMax THEN 2 * retry ELSE RetryMax

Modes == {"CacheFirst", "Refresh"}
Jobs == [mode : Modes, config : Configs, loaded : Lists, rev : Nat]

Up == pc # "off"

\* Mutant: a refresh skips the lines it cannot compile, and only a start rejects them.
CompilesLeniently ==
    job.loaded # <<>> /\ job.mode = "CacheFirst" => job.loaded[Len(job.loaded)] \notin Malformed

\* The list loaded last compiled; compiling follows the load without an await.
Compiles == job.loaded # <<>> => job.loaded[Len(job.loaded)] \notin Malformed
Loading == pc = "fetch" /\ Compiles /\ Len(job.loaded) < Len(job.config.filters)
NextFilter == job.config.filters[Len(job.loaded) + 1]

Spend(e) ==
    /\ budget[e] # 0
    /\ budget' = [budget EXCEPT ![e] = IF @ = Unlimited THEN @ ELSE @ - 1]

TypeOK ==
    /\ yaml \in Configs \cup {Broken, Absent}
    /\ published \in [Urls -> 1..MaxRev]
    /\ cache \in [CacheKeys -> Contents \cup {NoFile, Garbled}]
    /\ budget \in [Event -> Nat \cup {Unlimited}]
    /\ exit \in {"none", "clean", "error", "panic", "killed"}
    /\ serverDone \in BOOLEAN /\ hup \in BOOLEAN /\ term \in BOOLEAN
    /\ pc \in {"off", "select", "fetch", "write"}
    /\ job \in Jobs \cup {NoJob}
    /\ retry \in 1..RetryMax
    /\ timer \in Nat
    /\ serving \in Catalog \cup {NoCatalog}
    /\ settings \in Settings \cup {NoSettings}
    /\ bound \in Transports \cup {NoTransport}
    /\ pinned \in [Requests -> Catalog \cup {NoCatalog}]

-----------------------------------------------------------------------------
\* The process ends: everything but the disk is gone.
Halt(reason) ==
    /\ exit' = reason
    /\ pc' = "off" /\ job' = NoJob /\ retry' = 1 /\ timer' = 0
    /\ hup' = FALSE /\ term' = FALSE /\ serverDone' = FALSE
    /\ serving' = NoCatalog /\ settings' = NoSettings /\ bound' = NoTransport
    /\ pinned' = [r \in Requests |-> NoCatalog]

\* The lists an earlier run may have left in the cache directory.
Leftovers(k) ==
    {NoFile} \cup {[url |-> f.url, rev |-> 1] : f \in {e \in Entries : CacheKey(e) = k}}

Init ==
    /\ yaml \in Configs
    /\ published = [u \in Urls |-> 1]
    /\ cache \in [CacheKeys -> [url : Urls, rev : {1}] \cup {NoFile}]
    /\ \A k \in CacheKeys : cache[k] \in Leftovers(k)
    /\ budget = Budget
    /\ exit = "none"
    /\ serverDone = FALSE /\ hup = FALSE /\ term = FALSE
    /\ pc = "off" /\ job = NoJob /\ retry = 1 /\ timer = 0
    /\ serving = NoCatalog /\ settings = NoSettings /\ bound = NoTransport
    /\ pinned = [r \in Requests |-> NoCatalog]

\* The configuration file, with the lists in the cache, makes a catalog.
Bootable ==
    /\ yaml \in Configs
    /\ yaml.builds
    /\ \A i \in DOMAIN yaml.filters : FileOf(yaml.filters[i]) \notin Malformed

\* Startup loads what is cached, binds the sockets and arms the timer.
Boot ==
    /\ ~Up
    /\ Bootable
    /\ serving' = [config |-> yaml,
                   lists |-> [i \in 1..Len(yaml.filters) |-> FileOf(yaml.filters[i])]]
    /\ settings' = FromConfig(yaml)
    /\ bound' = yaml.transport
    /\ exit' = "none" /\ pc' = "select" /\ retry' = 1
    /\ timer' = NextFilterRefresh(settings', 1)
    /\ UNCHANGED <<envVars, cache, signalVars, job, pinned>>

\* A bad configuration, or a socket that cannot be bound, ends startup; an
\* absent file does so through the unwrap of read_config.
BootFails ==
    /\ ~Up
    /\ Halt(IF yaml = Absent THEN "panic" ELSE "error")
    /\ UNCHANGED <<envVars, cache>>

-----------------------------------------------------------------------------
\* What both select! branches do once reload_runtime_config has returned;
\* s are the settings then in force.
EndReload(mode, ok, s) ==
    /\ retry' = IF mode = "CacheFirst" \/ ok THEN 1 ELSE DoubledRetry
    /\ timer' = NextFilterRefresh(s, retry')
    /\ pc' = "select"
    /\ job' = NoJob

ReloadFails(mode) ==
    /\ EndReload(mode, FALSE, settings)
    /\ UNCHANGED <<envVars, exit, signalVars, activeVars, pinned>>

ReadConfig(mode) ==
    \/ /\ yaml \in Configs
       /\ pc' = "fetch"
       /\ job' = [mode |-> mode, config |-> yaml, loaded |-> <<>>, rev |-> 0]
       /\ UNCHANGED <<retry, timer>>
    \/ /\ yaml = Broken
       /\ EndReload(mode, FALSE, settings)

HandleHup ==
    /\ pc = "select"
    /\ hup
    /\ hup' = FALSE
    /\ ReadConfig("CacheFirst")
    /\ UNCHANGED <<envVars, cache, exit, term, serverDone, activeVars, pinned>>

\* Mutant: an interval of 0 also switches off the first download of a list.
TimerBranchEnabledByInterval == settings.interval > 0

TimerBranchEnabled == settings.missing \/ settings.interval > 0

TimerElapses ==
    /\ pc = "select"
    /\ timer = 0
    /\ TimerBranchEnabled
    /\ ReadConfig("Refresh")
    /\ UNCHANGED <<envVars, cache, exit, signalVars, activeVars, pinned>>

\* Mutant: a file that does not parse panics like an absent one.
ReadPanicsOnBroken ==
    /\ pc = "select"
    /\ hup \/ (timer = 0 /\ TimerBranchEnabled)
    /\ yaml \in {Absent, Broken}
    /\ Halt("panic")
    /\ UNCHANGED <<envVars, cache>>

\* Either branch reads the configuration file with File::open(..).unwrap().
ReadPanics ==
    /\ pc = "select"
    /\ hup \/ (timer = 0 /\ TimerBranchEnabled)
    /\ yaml = Absent
    /\ Halt("panic")
    /\ UNCHANGED <<envVars, cache>>

\* Mutant: the precondition of the timer branch stands on this branch too.
HandleTermIfScheduled ==
    /\ pc = "select"
    /\ term /\ TimerBranchEnabled
    /\ Halt(IF serverDone THEN "error" ELSE "clean")
    /\ UNCHANGED <<envVars, cache>>

HandleTerm ==
    /\ pc = "select"
    /\ term
    /\ Halt(IF serverDone THEN "error" ELSE "clean")
    /\ UNCHANGED <<envVars, cache>>

\* server_task returned while nobody asked it to stop.
HandleServerDone ==
    /\ pc = "select"
    /\ serverDone
    /\ Halt("error")
    /\ UNCHANGED <<envVars, cache>>

-----------------------------------------------------------------------------
\* fetch_filter for the next enabled entry.
Loaded(x) == job' = [job EXCEPT !.loaded = Append(@, x), !.rev = 0]

FetchCached ==
    /\ Loading
    /\ job.mode = "CacheFirst"
    /\ Loaded(FileOf(NextFilter))
    /\ UNCHANGED <<envVars, cache, exit, signalVars, pc, retry, timer,
                   activeVars, pinned>>

Downloaded == [url |-> NextFilter.url, rev |-> published[NextFilter.url]]
DownloadSucceeds == Loading /\ job.mode = "Refresh" /\ NextFilter.url \notin Dead

\* The list is what the file already holds: nothing is written.
DownloadSame ==
    /\ DownloadSucceeds
    /\ FileOf(NextFilter) = Downloaded
    /\ Loaded(Downloaded)
    /\ UNCHANGED <<envVars, cache, exit, signalVars, pc, retry, timer,
                   activeVars, pinned>>

\* Mutant: the list is used without being written to its file.
DownloadNewUnsaved ==
    /\ DownloadSucceeds
    /\ FileOf(NextFilter) # Downloaded
    /\ Loaded(Downloaded)
    /\ UNCHANGED <<envVars, cache, exit, signalVars, pc, retry, timer,
                   activeVars, pinned>>

\* Mutant: a list that has a file is not downloaded again.
DownloadNewIfMissing ==
    /\ DownloadSucceeds
    /\ FileOf(NextFilter) = NoFile
    /\ cache' = [cache EXCEPT ![CacheKey(NextFilter)] = [Downloaded EXCEPT !.rev = 0]]
    /\ pc' = "write"
    /\ job' = [job EXCEPT !.rev = Downloaded.rev]
    /\ UNCHANGED <<envVars, exit, signalVars, retry, timer, activeVars, pinned>>

\* fs::write truncates the file before it writes the new contents.
DownloadNew ==
    /\ DownloadSucceeds
    /\ FileOf(NextFilter) # Downloaded
    /\ cache' = [cache EXCEPT ![CacheKey(NextFilter)] = [Downloaded EXCEPT !.rev = 0]]
    /\ pc' = "write"
    /\ job' = [job EXCEPT !.rev = Downloaded.rev]
    /\ UNCHANGED <<envVars, exit, signalVars, retry, timer, activeVars, pinned>>

\* The cache directory or file cannot be created: the reload fails.
CacheRefused ==
    /\ DownloadSucceeds
    /\ FileOf(NextFilter) # Downloaded
    /\ Spend("disk")
    /\ EndReload(job.mode, FALSE, settings)
    /\ UNCHANGED <<yaml, published, cache, exit, signalVars, activeVars, pinned>>

\* A file deleted meanwhile stays deleted: the write goes to the open file.
WriteCompletes ==
    /\ pc = "write"
    /\ cache' = [cache EXCEPT ![CacheKey(NextFilter)] =
                    IF @ = NoFile THEN NoFile ELSE [url |-> NextFilter.url, rev |-> job.rev]]
    /\ Loaded([url |-> NextFilter.url, rev |-> job.rev])
    /\ pc' = "fetch"
    /\ UNCHANGED <<envVars, exit, signalVars, retry, timer, activeVars, pinned>>

\* A write that ends early leaves a shorter list, or no text at all.
Cut ==
    \/ UNCHANGED cache
    \/ /\ cache[CacheKey(NextFilter)] # NoFile
       /\ cache' = [cache EXCEPT ![CacheKey(NextFilter)] = Garbled]

\* The disk fills up half way: what was written stays.
WriteFails ==
    /\ pc = "write"
    /\ Spend("disk")
    /\ Cut
    /\ EndReload(job.mode, FALSE, settings)
    /\ UNCHANGED <<yaml, published, exit, signalVars, activeVars, pinned>>

\* A failed download falls back on the cached copy.
UseCachedCopy ==
    /\ Loading
    /\ job.mode = "Refresh"
    /\ FileOf(NextFilter) # NoFile
    /\ Loaded(FileOf(NextFilter))
    /\ UNCHANGED <<envVars, cache, exit, signalVars, pc, retry, timer,
                   activeVars, pinned>>

\* Mutant: warn and go on without the list, as a reload from the cache does.
NoCachedCopySkipped ==
    /\ Loading
    /\ job.mode = "Refresh"
    /\ FileOf(NextFilter) = NoFile
    /\ Loaded(NoFile)
    /\ UNCHANGED <<envVars, cache, exit, signalVars, pc, retry, timer,
                   activeVars, pinned>>

\* Without one the whole refresh fails, whatever was downloaded before.
NoCachedCopy ==
    /\ Loading
    /\ job.mode = "Refresh"
    /\ FileOf(NextFilter) = NoFile
    /\ ReloadFails(job.mode)
    /\ UNCHANGED cache

\* One erroneous line makes the whole reload fail, after the list was saved.
RejectList ==
    /\ pc = "fetch" /\ ~Compiles
    /\ ReloadFails(job.mode)
    /\ UNCHANGED cache

-----------------------------------------------------------------------------
\* Every list is loaded: build the zones, check the settings, swap.
AllLoaded == pc = "fetch" /\ Compiles /\ Len(job.loaded) = Len(job.config.filters)

\* Mutant: the catalog is replaced before the settings are compared.
RejectReloadTooLate ==
    /\ AllLoaded
    /\ ~job.config.builds \/ ~EnsureReloadSafe(FromConfig(job.config))
    /\ serving' = [config |-> job.config, lists |-> job.loaded]
    /\ EndReload(job.mode, FALSE, settings)
    /\ UNCHANGED <<envVars, cache, exit, signalVars, settings, bound, pinned>>

RejectReload ==
    /\ AllLoaded
    /\ ~job.config.builds \/ ~EnsureReloadSafe(FromConfig(job.config))
    /\ ReloadFails(job.mode)
    /\ UNCHANGED cache

CompleteReload ==
    /\ AllLoaded
    /\ job.config.builds
    /\ EnsureReloadSafe(FromConfig(job.config))
    /\ serving' = [config |-> job.config, lists |-> job.loaded]
    /\ settings' = FromConfig(job.config)
    /\ EndReload(job.mode, TRUE, settings')
    /\ UNCHANGED <<envVars, cache, exit, signalVars, bound, pinned>>

-----------------------------------------------------------------------------
\* A listener task clones the catalog under the read lock, then awaits with it.
BeginRequest(r) ==
    /\ Up /\ ~serverDone
    /\ pinned[r] = NoCatalog
    /\ pinned' = [pinned EXCEPT ![r] = serving]
    /\ UNCHANGED <<envVars, cache, exit, signalVars, loopVars, activeVars>>

EndRequest(r) ==
    /\ pinned[r] # NoCatalog
    /\ pinned' = [pinned EXCEPT ![r] = NoCatalog]
    /\ UNCHANGED <<envVars, cache, exit, signalVars, loopVars, activeVars>>

-----------------------------------------------------------------------------
\* The environment.
EditYaml ==
    /\ Spend("edit")
    /\ yaml' \in (Configs \cup {Broken, Absent}) \ {yaml}
    /\ UNCHANGED <<published, cache, exit, signalVars, loopVars, activeVars, pinned>>

Publish(u) ==
    /\ published[u] < MaxRev
    /\ published' = [published EXCEPT ![u] = @ + 1]
    /\ UNCHANGED <<yaml, budget, cache, exit, signalVars, loopVars, activeVars, pinned>>

LoseCache(k) ==
    /\ Spend("lose")
    /\ cache[k] # NoFile
    /\ cache' = [cache EXCEPT ![k] = NoFile]
    /\ UNCHANGED <<yaml, published, exit, signalVars, loopVars, activeVars, pinned>>

SendHup ==
    /\ Up /\ ~hup
    /\ Spend("hup")
    /\ hup' = TRUE
    /\ UNCHANGED <<yaml, published, cache, exit, term, serverDone, loopVars,
                   activeVars, pinned>>

SendTerm ==
    /\ Up /\ ~term
    /\ Spend("term")
    /\ term' = TRUE
    /\ UNCHANGED <<yaml, published, cache, exit, hup, serverDone, loopVars, activeVars, pinned>>

\* A listener dies; the supervisor cancels the others and returns the error.
ListenerStops ==
    /\ Up /\ ~serverDone
    /\ Spend("listener")
    /\ serverDone' = TRUE
    /\ pinned' = [r \in Requests |-> NoCatalog]
    /\ UNCHANGED <<yaml, published, cache, exit, hup, term, loopVars, activeVars>>

Crash ==
    /\ Up
    /\ Spend("crash")
    /\ Halt("killed")
    /\ IF pc = "write" THEN Cut ELSE UNCHANGED cache
    /\ UNCHANGED <<yaml, published>>

Tick ==
    /\ Up /\ timer > 0
    /\ timer' = timer - 1
    /\ UNCHANGED <<envVars, cache, exit, signalVars, pc, job, retry, activeVars, pinned>>

-----------------------------------------------------------------------------
Startup == Boot \/ BootFails

Select == HandleHup \/ TimerElapses \/ ReadPanics \/ HandleTerm \/ HandleServerDone

Fetch ==
    \/ FetchCached \/ DownloadSame \/ DownloadNew \/ CacheRefused
    \/ WriteCompletes \/ WriteFails \/ UseCachedCopy \/ NoCachedCopy

Finish == RejectList \/ RejectReload \/ CompleteReload

Serve == \E r \in Requests : BeginRequest(r) \/ EndRequest(r)

Environment ==
    \/ EditYaml
    \/ \E u \in Urls \ Dead : Publish(u)     \* nobody would see a dead one change
    \/ \E k \in Volatile : LoseCache(k)
    \/ SendHup \/ SendTerm \/ ListenerStops \/ Crash \/ Tick

Next == Startup \/ Select \/ Fetch \/ Finish \/ Serve \/ Environment

Spec == Init /\ [][Next]_vars

-----------------------------------------------------------------------------
(***************************************************************************)
(* Properties.                                                             *)
(***************************************************************************)
\* The catalog, the reload settings and the sockets always belong together:
\* no sequence of edits and reloads, failed ones included, leaves the process
\* with settings of one file and the catalog of another, or with a catalog
\* meant for sockets it has not bound (reload_runtime_config swaps last).
OneConfigInForce ==
    Up => /\ settings.transport = serving.config.transport
          /\ settings.interval = serving.config.interval
          /\ bound = serving.config.transport

\* While an enabled list is missing from the catalog in service, its download
\* is scheduled, at most RetryMax ahead: the flag is computed from the disk
\* after the lists were read, and must not disagree with them.
ListMissing == \E i \in DOMAIN serving.lists : serving.lists[i] = NoFile

MissingListIsScheduled ==
    Up /\ ListMissing => settings.missing /\ timer <= RetryMax

\* Whatever list is in service is still on disk after a crash: a refresh
\* persists each list before the catalog that holds it is swapped in, and no
\* later refresh, failed or interrupted, takes its file back to an older revision
\* of that list.  Other than whole are only files whose write was cut short, since
\* fs::write is not atomic: rev = 0, or no text.  (That a file also compiles is
\* RestartWorks; it may hold another list by now if its id was given to one.)
NoOlderThan(file, list) ==
    /\ file # NoFile
    /\ file.url = list.url /\ file.rev # 0 => file.rev >= list.rev

ListsSurviveCrash ==
    Up => \A i \in DOMAIN serving.lists :
             LET f == serving.config.filters[i]
             IN  serving.lists[i] # NoFile /\ CacheKey(f) \notin Volatile
                    => \/ NoOlderThan(FileOf(f), serving.lists[i])
                       \/ cache[CacheKey(f)] = Garbled

\* The URLs whose list an entry may be served: its own and, since files are named by
\* ids, those an operator gave the same id before, or in another entry.
AskedFor(f) == {f.url} \cup {g.url : g \in {e \in Entries : f.id # NoId /\ e.id = f.id}}

\* No entry is ever served a list somebody else asked for, whatever the operator
\* edits (the URL of an id included) and wherever refreshes and writes are cut short:
\* one without an id has the list of its own URL, one with an id that of a URL the id
\* was given to.
NoForeignLists ==
    Up => \A i \in DOMAIN serving.lists :
             serving.lists[i] # NoFile =>
                 serving.lists[i].url \in AskedFor(serving.config.filters[i])

\* A refresh swaps in a new catalog only with every enabled list in it; it may
\* never cost the service a list it had.
Swapping == Up /\ Up' /\ pc' = "select" /\ serving' # serving

RefreshIsComplete ==
    [][Swapping /\ job.mode = "Refresh" =>
          \A i \in DOMAIN serving'.lists : serving'.lists[i] # NoFile]_vars

\* No reload, from the network or from the cache, takes a list back: the next
\* catalog has every list of this one that it asks for and whose file nothing else
\* deletes, in no older revision.  The exceptions are those of ListsSurviveCrash.
ListsNeverGoBack ==
    [][Swapping =>
          \A i \in DOMAIN serving.lists, j \in DOMAIN serving'.lists :
              LET f == serving.config.filters[i]
              IN  serving'.config.filters[j] = f
                     /\ serving.lists[i] # NoFile /\ CacheKey(f) \notin Volatile
                  => \/ NoOlderThan(serving'.lists[j], serving.lists[i])
                     \/ serving'.lists[j] = NoFile /\ cache[CacheKey(f)] = Garbled]_vars

\* Whoever started the process sees that of module Process, restarts included: no
\* failure of a reload ends it, whatever the configuration file holds, other than the
\* panic of read_config where there is none.
Proc == INSTANCE Process WITH
            phase <- IF Up THEN "up" ELSE "off",
            listens <- TRUE, told <- term, lost <- serverDone,
            exit <- IF exit = "panic" THEN "error" ELSE exit

ReadsNoFile == yaml = Absent /\ exit' = "panic"

ImplementsProcess == Proc!Init /\ [][ReadsNoFile \/ [Proc!Next]_(Proc!vars)]_vars

\* Requests see ReloadableCatalog as an atomic register (module HotSwap).
TransportOf(c) == c.config.transport
HS == INSTANCE HotSwap WITH Catalog <- Catalog, TransportOf <- TransportOf,
                            Requests <- Requests, NoCatalog <- NoCatalog,
                            serving <- serving, pinned <- pinned
HotSwapSpec == HS!Spec

-----------------------------------------------------------------------------
(***************************************************************************)
(* Fairness.  tokio polls a future that is ready, and select! starts each  *)
(* poll at a random branch, so a branch that stays ready is taken in the   *)
(* end whatever the others do: SF per branch.  Every await of a reload     *)
(* ends (connect and read timeouts): WF.  A publisher that is not Dead     *)
(* answers one attempt in the end, and a write succeeds in the end.        *)
(***************************************************************************)
DownloadOf(u) ==
    Loading /\ NextFilter.url = u /\ (DownloadSame \/ DownloadNew)

Fairness ==
    /\ WF_vars(Tick)
    /\ SF_vars(HandleHup) /\ SF_vars(TimerElapses)
    /\ SF_vars(HandleTerm) /\ SF_vars(HandleServerDone)
    /\ WF_vars(Fetch) /\ WF_vars(Finish)
    /\ \A u \in Urls : SF_vars(DownloadOf(u))
    /\ SF_vars(WriteCompletes)

FairSpec == Spec /\ Fairness

\* A termination signal, or the loss of the listeners, ends the process even
\* though neither is looked at while a reload is under way.
StopsWhenTold == term \/ serverDone ~> ~Up

\* A list the configuration asks for is missing from the catalog in service.
ListOut(u) ==
    /\ Up /\ yaml = serving.config
    /\ \E i \in DOMAIN serving.lists :
          serving.lists[i] = NoFile /\ serving.config.filters[i].url = u

\* No refresh can complete: a list has no readable file and cannot be downloaded, or
\* does not compile.
Blocked ==
    /\ yaml \in Configs
    /\ \E i \in DOMAIN yaml.filters :
          LET f == yaml.filters[i]
          IN  \/ f.url \in Dead /\ FileOf(f) = NoFile
              \/ {FileOf(f), [url |-> f.url, rev |-> published[f.url]]} \cap Malformed # {}

\* A list that its publisher does serve arrives without a restart or a signal, unless
\* another one stands in its way: the whole refresh fails for that (rules.rs:166; see
\* ReachableListsArrive).
MissingListsArrive == \A u \in Urls \ Dead : ListOut(u) ~> ~ListOut(u) \/ Blocked

\* With scheduled refreshes on, a reloadable file in place and nothing in their way,
\* the catalog in service ends up being that file's, with the newest revision of every
\* list that is served at all, and each from the URL the file now has for it.
Refreshing ==
    /\ Up /\ yaml \in Configs
    /\ yaml.builds /\ yaml.transport = bound /\ yaml.interval > 0
    /\ TimerBranchEnabled
    /\ ~Blocked

Current ==
    /\ serving.config = yaml
    /\ \A i \in DOMAIN serving.lists :
          LET u == yaml.filters[i].url
          IN  /\ serving.lists[i] # NoFile
              /\ u \notin Dead => serving.lists[i] = [url |-> u, rev |-> published[u]]

RefreshesCatchUp == <>[]Refreshing => <>[](Up /\ Current)

-----------------------------------------------------------------------------
(***************************************************************************)
(* What the documentation says and the code does not do (see the README).  *)
(***************************************************************************)
\* README: "Missing lists are downloaded after DNS starts serving, with retry delays
\* growing up to 30 seconds if the network is unavailable."
ReachableListsArrive == \A u \in Urls \ Dead : ListOut(u) ~> ~ListOut(u)

\* "remote filter refresh failed; existing rules remain active": what is in service
\* can be brought back by a restart, refreshes that failed notwithstanding.
RestartWorks == pc = "select" /\ yaml = serving.config => Bootable

\* The only way for it to fail: a file that no longer holds the list in service,
\* which compiled, but a malformed one.
RestartFailsForAReason ==
    pc = "select" /\ yaml = serving.config /\ ~Bootable =>
        \E i \in DOMAIN serving.lists :
            /\ serving.lists[i] \notin Malformed
            /\ FileOf(serving.config.filters[i]) \in Malformed

\* README: "If a download fails, the cached list remains active."
CompleteListsStay ==
    [][Swapping /\ job.mode = "Refresh" /\ serving'.config = serving.config =>
          \A i \in DOMAIN serving.lists :
              serving.lists[i] # NoFile /\ serving.lists[i].rev > 0
                  => serving'.lists[i].rev > 0]_vars

\* The only way for it to fail: a write cut short, by the disk or by a crash.
WriteCut == WriteFails \/ (pc = "write" /\ Crash)

=============================================================================
