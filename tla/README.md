# TLA+ models of astra-dns

astra-dns is an ad-blocking DNS forwarder for routers: it answers queries over
UDP and TCP from local rewrites, LAN leases and filter lists, and forwards the
rest to DNS-over-HTTPS upstreams. These modules model its core logic, TLC checks
them on small instances, and TLAPS proves the main invariants for every value of
the constants. Paths below are relative to the repository.

    tlc -config MCReloadEdits.cfg MCReload      # any run: <run>.cfg and its module
    tlapm ReloadProofs.tla                      # any *Proofs.tla

## 1. The system

| component | source | state | operations |
|---|---|---|---|
| main loop | `src/bin/astra-dns.rs` 154-540 | `reload_settings`, `filter_retry_secs`, `filter_refresh_timer`, the current catalog | `select!` over SIGTERM, SIGHUP, timer, listener task; reload of the configuration |
| catalog register | `src/bin/astra-dns.rs` 590-626 | `ReloadableCatalog.current` | `replace`, clone per request |
| filter cache | `src/adblock/fetch.rs` | one file per list | fetch from cache, download and persist |
| filter rules | `src/adblock/rules.rs` | `RuleSets`, `disabled_rules` | parse lines, apply badfilters, compile rewrites |
| query chain | `src/adblock/mod.rs`, `authority.rs` | the compiled rules, LAN leases | override, lease, rewrite, block, forward, rewrite the answer |
| LAN hosts | `authority.rs` 83-130, `rules.rs` 519-690 | lease table behind an `RwLock` | periodic re-read of the lease file |
| recovery worker | `src/upstream.rs` 217-285 | slot (resolver, addresses), backoff, `Notify` permit | bootstrap lookup, install, sleep |
| forwarding lookup | `src/upstream.rs` 286-360 | a `JoinSet` per query | ask every filled slot, join in order of arrival |
| forwarder registry | `src/upstream.rs` 81-98 | `Weak` map by key | share forwarders across catalogs |
| UDP listener | `src/udp/mod.rs`, `pktinfo.rs` | task set, sockets | receive, spawn, reply |
| startup, shutdown | `src/bin/astra-dns.rs` 166-354, 412-445, `prometheus_server.rs` | sockets, privileges, tokens | bind, drop privileges, cancel, join |
| configuration | `src/lib.rs`, `src/adblock/config.rs` | none | parse YAML, check settings |

How they interact. Listener tasks clone the current catalog and run the query
chain in it; the chain ends in the forwarding lookup, which reads the slots that
the recovery workers fill and notifies them of failures. The main loop builds a
new catalog (reading and writing the filter cache on the way) and replaces the
register. A catalog owns its forwarders, the last owner's drop aborts their
workers. Signals and the timer reach the main loop only between two reloads.

What is hard about it:

- a reload is awaited inside a `select!` branch: many steps, with requests, edits,
  signals, publishers and the disk moving in between, each of which may fail;
- settings, catalog, sockets, cache files and the retry timer must stay together
  through failed, rejected and interrupted reloads, crashes and restarts;
- the worker is driven by a clock, a one-permit `Notify`, an abort and a weak
  reference, any of which may strike at each of its awaits;
- answers of several upstreams arrive in any order, and NXDOMAIN must not be
  given away because of an outage;
- catalogs overlap: a request keeps its old one alive, two of them share forwarders
  through weak references, and each brings background tasks that must neither die
  with a sibling nor outlive the last of them;
- while a query walks down the chain the lease table is replaced under it, and what
  is local must not slip through to an upstream in between;
- sockets answer before startup is over; a listener may die at any moment, startup
  and shutdown included, and the process must not linger without it;
- the rule indexes forget which line put a name into them, while allow lines,
  block lines and `$badfilter` lines come in any order.

What makes each part correct is stated by the properties of section 3; every
hazard is listed with its line in `PROJECT.json`.

## 2. Modules

| module | models | composed with |
|---|---|---|
| `HotSwap` | abstract: an atomic catalog register whose transport never changes while the process runs | - |
| `Process` | abstract: what the exit codes of the daemon tell whoever started it | - |
| `Slot` | abstract: what a recovery worker and the lookups may rely on about the slot they share | - |
| `Reload` | main loop, reload, filter cache, requests in flight, crash and restart | implements `HotSwap` and `Process` |
| `Recovery` | one worker and its slot | implements `Slot` |
| `Lookup` | one client query over N upstreams, with slots filled and permits consumed by the workers | implements one `Slot` per upstream |
| `QueryChain` | how the chain of authorities is built and walked, rewrites and leases included | extends and implements `Lookup` |
| `RuleSets` | lines into indexes, badfilters, the verdict on a query, and its reference meaning | gives the verdict that `QueryChain` takes as a constant |
| `Catalogs` | which catalogs live, what they share and own: registry, workers, lease tables and their tasks | the catalogs of `Reload`, the workers of `Recovery` |
| `Daemon` | startup, listeners, UDP requests, supervisor, SIGTERM, Prometheus, exit code | startup and shutdown of `Reload` in detail; implements `Process` |
| `MC*` | instances | extend their module |
| `*Proofs` | theorems | extend their module and TLAPS |

A definition commented "Mutant" is the code with a plausible bug; no action uses
it. `PROJECT.json` pairs each property with the mutant it catches.

### Reload

The state is that of `async_run` plus what lies outside it: the YAML file (one
of `Configs`, `Broken`, `Absent`), the cache directory, what each publisher
serves, pending signals. `pc` is where the task is: `select`, or inside a reload
(`fetch`, `write`), or `off`. `HandleHup` and `TimerElapses` start a reload in
mode CacheFirst or Refresh; `FetchCached`, `DownloadSame`, `DownloadNew`,
`UseCachedCopy`, `NoCachedCopy`, `CacheRefused`, `WriteCompletes`, `WriteFails`
are the outcomes of `fetch_filter` for the next enabled list; `RejectList`,
`RejectReload` and `CompleteReload` end it; `ReadPanics` is the `unwrap` in
`Config::read_config`. `Halt` is the end of the process: everything but the disk
is reset. Abstractions:

- a list is its URL and revision; revision 0 is the truncated file `fs::write`
  leaves between truncating and writing. A write that is cut (`Cut`) leaves that or, when
  it ends within a UTF-8 character, `Garbled`: a file `read_to_string` refuses, so that it
  counts as uncached (`FileOf`);
- the cache an earlier run left (`Leftovers`) holds lists under the names some
  configuration gives them, also the list of a URL an id had before: a file is found by
  its name alone, so a reload after such an edit serves the old URL's list until a refresh
  has downloaded the new one, with scheduled refreshes off for ever (`fetch.rs` 40);
- the settings a reload may not change (`ensure_reload_safe`) are one value, the
  transport; a configuration with adblock disabled is one without lists;
- errors in user rules, rewrites or the log level are `builds = FALSE`, found
  after the downloads as in the code; an erroneous line in a list is `Malformed`,
  found right after the list was loaded, without an await in between;
- the cache is one directory for all configurations, which `BootFails` leaves
  alone (failing to bind is part of it); a process with both UDP and TCP off ends
  at once and is left out;
- requests touch only their own pin, so one slot for a request shows all there is.

### Recovery

A step is the code between two awaits of `recover_upstream`, cut again where
another thread can see the difference: at the `strong_count` check (`Check`), at
the upgrade (`Upgrade`) and at the release of the weak reference (`Install*`).
Time is in ticks (`Tick`); a clock stops at the longest duration it is compared
with. `QueryFails` stores the permit, `DropForwarder` aborts, `WorldChanges` moves
the name to other addresses or starts and ends an outage.

### Lookup

`Begin`, `Ask` (one slot after the other, each read under its own lock),
`AllAsked`, the four `Join*` and `Exhausted` are the body of
`RecoveringForwarder::lookup`; `QueryEnds` is a spawned query, which may also
never end. `Fill` and `Consume` are what `Recovery` does to slot and permit.

The two models meet in `Slot`: a slot that was filled stays filled, an empty one is never
notified, a permit is taken once. `Recovery` shows `worker and failing queries => Slot`
(also through the drop of the forwarder), `Lookup` the same for every slot it reads, each
taking the other side's steps from `Slot`.

### RuleSets

`Lines` are the lines the lists and the user rules may hold; they are read in any
order, lists first. `ParseDomain`, `ParseName`, `ParseHosts`, `ParseBadfilter` and
`ParsePattern` are the branches of `parse_rule_line`, `ApplyBadfilters` the end of
the build, `Verdict` what `OverrideAuthority` and `BlockAuthority` do with a query.
A rule is a record (disposition, shape, name or pattern, modifiers) instead of
text; what a compiled regex matches is a constant. `Meaning` states next to it the
README's precedence (README.md:82-92) over the lines in force. A line is out of force when
a whole-modifier `$badfilter` names its rule; with other modifiers beside it `$badfilter`
makes a rule of its own, as in the code (section 3 records how that differs from the
README). The indexes forget which line an entry came from: `SharesEntry` and
`UnderWithdrawn` say which block lines taking another line out may cost.

### QueryChain

`todo` is the rest of the chain that `build_authorities` made for this query, `reply`
what the client gets, `order` the order in which the HashMap of
`compile_domain_rewrites` came out, any order. `LookupOverride`, `LookupHosts`,
`LookupPointers`, `LookupRewrite`, `LookupBlock`, `Forward`, `TakeVerdict` and
`Consult` are the members' steps; hickory's `Catalog` is what `Skip` and `Break` do.
Each read of the lease table is a step of its own, as each takes the lock anew, so
`RefreshLanHosts` may come between the name and the pointer of one query. `Rebuild` is
a reload of the same file: a new hash seed, a new lease table. Abstractions: names,
addresses and record types are model values, a record is its type and datum, and TTLs
are left out; the networks of an answer rewrite are the addresses in them; which
queries the block rules block is part of the configuration (`RuleSets` says which);
`kept` remembers which lease entries were in every table since the query arrived, for
the properties. The override authority's own pointer table is always empty in the
running program and left out.

### Catalogs

`main` walks through `Zone::load`: `Retain`, `Share` or `New` or `NewFails`, then
`BuildChain`, `Swap` or `Discard`. The registry's lock is held from `Retain` to `Share` or
`New`, and no other thread takes it, so what comes in between is only what needs no lock:
requests that drop the last reference to an old catalog (`EndRequest`), workers ending,
lease refreshes. `DropUnreferenced` is what a weak reference shows of that. `Wake` and
`Store` are the two halves of a refresh: the task reads the file with a strong reference
in its hand, then takes the lock. A handler or a table is a place in memory, reused once
free. `startup` is the reference `async_run` itself keeps to the first catalog
(`loaded.catalog`, of which the handler gets a clone): `Held` are all catalogs somebody
refers to, `InUse` those that are served, built or pinned by a request. Configurations
with zones of their own share no forwarders and are left out.

### Daemon

`main` is where `async_run` is, one value for each step of startup that may fail;
`BindUdp` puts a socket into service at once, as the code spawns its loop before the
next one is bound. `Receives` states the biased `select!`: shutdown first, then finished
tasks, then the socket. A datagram has a kind (what `decode_info`, `safe_peer` and the
header say of it), a peer and a local address; `Spawned` is what its task owns. `Abort`
is a dropped `JoinSet`, `TaskDropped` the moment a task is really gone: until then it
may still send. `JoinListener` and `AllJoined` are the supervisor, `Exit` the return of
`async_run`, with which everything goes. `owed` remembers which received datagrams have
not been replied to yet. Reloads are in `Reload`; a SIGTERM before its handler is
registered kills the process as any signal does, and is left out.

`Process` is what `Daemon` and `Reload` have in common: off or up, told to stop, listeners
lost, and an exit code that says why. `Reload` treats startup and shutdown as one step each,
`Daemon` leaves reloads and restarts out; both map to `Process`, the panic of `read_config`
being the one step of `Reload` that does not.

## 3. Runs

| run | question | answer |
|---|---|---|
| `MCReloadEdits` | any edits, SIGHUPs, refreshes, lost files, requests | `OneConfigInForce`, `MissingListIsScheduled`, refinement of `HotSwap` and `Process` |
| `MCReloadDisk` | disk failures, malformed lists, crashes and edits of an id's URL at every step of a refresh | `ListsSurviveCrash`, `NoForeignLists`, `RefreshIsComplete`, `ListsNeverGoBack`, `RestartFailsForAReason` |
| `MCReloadLive` | what eventually happens while one publisher is never reached | `StopsWhenTold`, `MissingListsArrive`, `RefreshesCatchUp` |
| `MCRecovery` | outages, moves, failed queries, a drop at any await | rate limit, backoff, resolver kept, recovery, end of the worker, refinement of `Slot` |
| `MCQueryChain` | answers in any order or never, slots filling, leases replaced and catalogs rebuilt while a query is in the chain | what is local stays local and needs no upstream; verdicts are earned; whoever answers, nobody before it could (`RepliesInTurn`); rewrites are whole; queries end; slots are used as `Slot` says |
| `MCCatalogs` | reloads and failed builds against requests that outlive their catalog, a lease file that comes and goes | `OneForwarderPerKey`, `TasksRunWhileUsed`, `ObsoleteTasksEnd`, `LanTableCatchesUp` |
| `MCDaemon` | startup failing at every step, concurrent requests, listeners dying, SIGTERM, open metrics connections | `ListenersStopTogether`, `RepliesMatchRequests`, `ExitIsHonest`, `ProcessEnds` |
| `MCRuleSets` | every order of 15 lines that interfere | `PrecedenceHonoured` |
| `MCCatalogsStartup` | upstream.rs:82-83, obsolete workers are not kept alive | `ReplacedTasksEnd` violated |
| `MCReloadUnreachable` | README.md:130-132 | `ReachableListsArrive` violated |
| `MCReloadTruncated` | README.md:136-138 | `CompleteListsStay` violated |
| `MCReloadMalformed` | the message "existing rules remain active" | `RestartWorks` violated |

Bounds. Two lists (one named by id, one by URL), because what can go wrong is one list
against another: the order of downloads, a shared file. Four files to edit between: a list
more, a restart needed, a build that fails, no refresh interval. In `MCReloadDisk` and
`MCReloadLive` one of the files gives the id of the first list to the second list's URL.
In `MCReloadLive` the first publisher is `Dead`, with or without a cached copy at the
start, so a refresh may be blocked, fall back on the copy, or be freed by an edit.
`RetryMax` is 2, so the cap is reached; in `MCReloadLive` 1, as the backoff is covered by
`MCReloadEdits`. Each publisher changes its list once (`MaxRev`), enough for old and new.
`Budget` counts edits, crashes and so on; most are `Unlimited` in the safety runs, and
finite where a liveness property speaks of a world that settles. `MCRecovery`: `RetryMin`
1, `RetryMax` 4 and `RefreshInterval` 5 give every step of the doubling and a pause longer
than the cap; two addresses, two changes of the world. `MCRuleSets`: a name, one below,
one below that, a pattern across them, two types, and a `$badfilter` of each form.
`MCQueryChain`: two upstreams, one trusted, so a trusted answer can race an untrusted one
and either may hang; four configurations (leases only; everything; overlapping patterns
with an override of a blocked name; none), three contents of the lease file, queries of
each kind a member can answer or pass on. `MCCatalogs`: three handlers, as the one in
service, the one an old request holds and the one being built may all differ; two tables
and one request to hold an old one; a section by name, one by address, one that cannot be
set up. One handler is the startup catalog's for good. `MCDaemon`: one UDP socket and TCP,
two requests at a time from one client to two local addresses, one metrics connection;
four configurations, from all listeners with privileges to none at all.

Deadlock is not checked in four runs: `MCReloadLive`, where the environment has
spent its budget and a loop with interval 0 idles; `MCRecovery`, where the worker
has ended; `MCRuleSets`, where the build is done; `MCDaemon`, where the process has
exited.

Fairness. tokio polls what is ready, and `select!` polls its branches in random
order: strong fairness per branch of the main loop, weak fairness for a reload's own
steps (every await has a timeout) and for time. A publisher not in `Dead` answers
one of infinitely many attempts, a write succeeds likewise. In `Recovery`, a lookup
repeated for ever is answered before its deadline in the end. In `Lookup`, only the
lookup's own task is fair: nothing is assumed of an upstream, and `QueryChain` adds the
task that walks the chain. In `Catalogs` the main loop finishes what it builds (it waits
for no one there), and tokio wakes sleepers and collects aborted tasks; requests may
last for ever. In `Daemon` the steps of startup, the supervisor, the receive loops'
shutdown and the Prometheus server are weakly fair, the SIGTERM branch strongly, as the
`select!` it is in polls at random; a TCP server that was told to stop does; nothing is
assumed of handlers or of the clients of Prometheus. The restart of a
stopped process is not fair; nothing is claimed to happen after a stop.

### What the violations show

- `MCCatalogsStartup`: `async_run` hands out a clone of `loaded.catalog` (`astra-dns.rs`
  242) and keeps the original until it returns. After a reload to another dns section the
  first catalog's forwarder is therefore never dropped: its workers go on resolving, its
  lease table is still refreshed. `ObsoleteTasksEnd`, checked in `MCCatalogs`, says that
  this reference is all that is in the way: what neither it nor a catalog in use refers to
  does end.
- `MCReloadUnreachable`: a refresh gives up at the first list it can neither download nor
  read (`rules.rs` 166), so a list behind it never arrives although its publisher answers.
  `MissingListsArrive` says that nothing but such a list, or one that does not compile,
  keeps it out.
- `MCReloadTruncated`: a truncated cache file counts as a cached copy; the next
  refresh whose download fails puts it into service as a success. `CompleteUnlessCut`
  proves that a write cut short, by the disk or a crash, is the only way there.
- `MCReloadMalformed`: a list is saved before it is compiled; one bad line fails
  that refresh, every later reload from the cache and the next start.
  `RestartFailsForAReason`, checked and proved, says that nothing else keeps the
  catalog in service from being started again.

Other divergences need no run, as the code states them plainly. `Config::read_config`
unwraps `File::open` (`lib.rs` 124), so a configuration file that is absent for the moment
of a reload or refresh ends the process by a panic, where its callers expect an error
(`astra-dns.rs` 465); `ImplementsProcess` names this step as its one exception.
`$badfilter` is seen only as the whole modifier part (`rules.rs` 289): with other modifiers
the line becomes a rule of its own and the rule it repeats stays in force, unlike
README.md:264-266. Taking a rule out with `$badfilter` may take out other block lines with
it (`PrecedenceHonoured` says which). The retry for a missing list is a refresh of all of
them (`astra-dns.rs` 380), also with scheduled refreshes off, unlike README.md:135 and
351-353. README.md:287-288 lists periodic refresh and hot reload as not supported; both are
implemented, and modelled.

## 4. Proofs

Nothing is assumed beyond the named assumptions on the constants (types of the
parameters, `RetryMin <= RetryMax`, suffixes of names reflexive and transitive,
null values distinct), which TLC evaluates in the runs.

- `ReloadProofs`: `Shape` adds to `TypeOK` which variables hold a value at each `pc`.
  `OneConfigInForce` is inductive with it. `MissingListIsScheduled` is not: the flag
  `missing` is computed from the disk after the lists were loaded, so `LoadedMissing` says
  that what a running reload found missing is still missing there (only a refresh writes
  files, and it fails as soon as it finds a list missing). `TypeCorrect`, `OneConfig`,
  `MissingScheduled`, `RefreshComplete` follow, and `ImplementsHotSwap` and `IsAProcess`
  map every step to one of `HotSwap`, of `Process`, or a stutter.
- `ReloadDiskProofs`: `DiskInv` compares every list the process holds, in the catalog or
  in the reload under way, with its file, and the file with its publisher, who only moves
  forward; while a file is being written its final revision stands for it; a file cut
  within a character stands for nothing. `OwnLists` follows from which names a file may be
  asked for under (`AskedFor`), `Survive` from the comparison, both through edits of an
  id's URL. `JobAhead` compares the reload under way with the catalog in service (what it
  has loaded of a list is no older), which gives `NeverBack`. For `RestartCause`,
  `LoadedCompile` and `ServingCompiles` say that what is loaded, and so what is served,
  compiled. `CompleteUnlessCut` assumes that no write is cut short and proves with `Whole`
  that then no truncated file is ever left behind; its negation is what the violated run
  shows.
- `RecoveryProofs`: the invariant ties the sleep's remaining time to the backoff and
  the time since the last start: `TypeCorrect`, `EmptySlots`, `Spacing`, `Kept`, for all
  durations. `Backoff`, whose bound doubles with each failure, needs an induction over the
  number of failures (`Backed`); it is done by a least counterexample in the natural
  numbers. `RecoveryIsASlot` is the refinement of `Slot`.
- `LookupProofs`: which slots can be in which state at each `pc`, that what is joined has
  ended, and what the remembered negative answer stands for: `TypeCorrect`,
  `NegativesEarned`, `ServFailsEarned`, for any number of upstreams; `LookupUsesSlots` maps
  every step to at most one step of each `Slot`.
- `QueryChainProofs`: `ChainImplementsLookup` shows every step of the chain to be one of
  `Lookup` or none, so that `ChainKeepsLookup` takes the theorems about verdicts and slots
  over as they are. The invariant of the composition, `ChainInv`, adds to that of
  `LookupProofs` that `todo` keeps to the order of the chain (`Ordered`), which replies can
  be there at which step (`ReplyInv`), that `kept` only names entries of the present table
  (`TableInv`), and that whoever could answer a query that is known here is still ahead of
  it, so that upstreams are asked only when nobody could (`AskInv`) - this is why a refresh
  between the two lease reads is harmless. `ChainTypeCorrect`, `LocalNamesStay`, `InTurn`,
  `RewritesWhole` and `AnswersRewritten` follow for any names, rules, leases, answers and
  number of upstreams.
- `CatalogsProofs`: `IInv` adds to the types that the forwarder of every live catalog is the one
  registered under its key (`Registered`), that a registered reference which can be
  upgraded belongs to a live catalog (`WeakOnly`), and that no handler is under two keys
  (`OneKeyEach`): `TypeCorrect`, `OnePerKey`, `TasksRun`. `NoRevival` (`ObsoleteStaysObsolete`)
  is the safety half of `ObsoleteTasksEnd`: what nobody refers to is only wound up.
- `DaemonProofs`: `Supervised` says that while no listener was found dead, all those
  joined ended properly and after the token was cancelled, which only SIGTERM does, and
  that a supervisor is done only when it has joined them all; `Owned` that a task's peer
  and local address are those of its datagram, that what may still be replied to is owed,
  and that no two tasks have one datagram of one socket: `TypeCorrect`, `HonestExit`,
  `RepliesMatch`. `Bound` adds that only configured listeners are bound, and each once
  startup is past it, and that a supervisor that gave up has cancelled the token:
  `StopTogether`, the safety half of `ProcessEnds`. `IsAProcess` is the refinement of
  `Process`, where a clean exit needs what `Supervised` says.
- `RuleSetsProofs`: while lines are read, the allow index is exactly the allowed trees,
  the block index holds nothing unasked for and lacks only what is allowed, the
  pattern lists and overrides are exactly their lines (`Index`). At the last step a
  block line dropped under an allowed name is still allowed unless the allow line itself is
  taken out (`UnderWithdrawn`), and the entries removed are those of disabled lines unless
  shared (`SharesEntry`); allow lines, important rules and overrides are never lost.
  `Precedence` follows for any names, lines and order. TLC refutes the property when either
  of the two exceptions is left out.

Only model-checked: every liveness property (`StopsWhenTold`, `MissingListsArrive`,
`RefreshesCatchUp`, `FollowsAddresses`, `WorkerEnds`, `LookupsEnd`,
`LocalAnswersNeedNoUpstream`, `ObsoleteTasksEnd`, `LanTableCatchesUp`, `ProcessEnds`), which
the prover does not reach. Only proved: the type invariants of `RuleSets`, `Catalogs` and
`Daemon`, `CompleteUnlessCut`, `NoRevival` and `Daemon`'s refinement of `Process`; the
instances of section 3 satisfy them as well.

## 5. Not modelled, and what could follow

Out of reach or without interest here: YAML parsing, the byte layout of socket control
messages (`pktinfo.rs`; `Daemon` knows only whether a datagram's are usable), hickory's
resolver and server (used through the answers they give), regex matching, DNSSEC and EDNS
options, logging, benchmarks and packaging. Two listeners of different address families do
not interact and are one socket in the instance. That a swap may put back a lease table
read a moment before the one it replaces, until its first refresh, follows from the code
and is part of the behaviours of `QueryChain` (`Rebuild`); nothing promises otherwise.

Next, in this order:

1. `QueryChain` over `RuleSets`' verdict instead of a constant; nothing proved of the chain
   depends on which queries are blocked.
2. `Catalogs` and `Reload` over one register, so that a failed or rejected reload is one and
   the same step of both.
3. The safety half of `LanTableCatchesUp`: a table never goes back to what the file no
   longer held when its refresh began.
