-------------------------- MODULE ReloadDiskProofs --------------------------
(***************************************************************************)
(* Theorems about Reload and the filter cache files: whatever is in        *)
(* service can be loaded again, and no entry is served a foreign list.     *)
(*                                                                         *)
(* The argument follows the lists the process holds, in the catalog or in  *)
(* a reload under way, and compares each with its file.  A refresh that is *)
(* writing a file will leave a revision there that no held copy of the     *)
(* list exceeds, because publishers only move forward.                     *)
(***************************************************************************)
EXTENDS ReloadProofs

\* The process holds list x for entry f: in the catalog, or loaded by a reload.
ServingHolds(f, x) ==
    /\ Up
    /\ \E i \in 1..Len(serving.lists) :
          serving.config.filters[i] = f /\ serving.lists[i] = x

JobHolds(f, x) ==
    /\ pc \in {"fetch", "write"}
    /\ \E i \in 1..Len(job.loaded) : job.config.filters[i] = f /\ job.loaded[i] = x

Holds(f, x) == ServingHolds(f, x) \/ JobHolds(f, x)

Raw(f) == cache[CacheKey(f)]

\* A file holds a list that was asked for under its name, in a revision that the
\* publisher has reached.
FilesOwn ==
    \A f \in Entries :
        FileOf(f) # NoFile => /\ FileOf(f).url \in AskedFor(f)
                              /\ FileOf(f).rev <= published[FileOf(f).url]

\* A file being written is there, unless something deletes it meanwhile.
WriteOwn ==
    pc = "write" =>
        /\ \/ Raw(NextFilter) = [url |-> NextFilter.url, rev |-> 0]
           \/ Raw(NextFilter) = NoFile /\ CacheKey(NextFilter) \in Volatile
        /\ job.rev <= published[NextFilter.url]

\* What is held can be loaded again, also when the write under way completes.
Saved(f, x) == NoOlderThan(FileOf(f), x) \/ Raw(f) = Garbled

HeldOwn ==
    \A f \in Entries, x \in Contents : Holds(f, x) =>
        /\ x.url \in AskedFor(f) /\ x.rev <= published[x.url]
        /\ CacheKey(f) \notin Volatile => Saved(f, x)
        /\ pc = "write" /\ CacheKey(f) = CacheKey(NextFilter) /\ x.url = NextFilter.url
              => x.rev <= job.rev

DiskInv == FilesOwn /\ WriteOwn /\ HeldOwn

-----------------------------------------------------------------------------
(***************************************************************************)
(* Facts about entries and their file names.                               *)
(***************************************************************************)
LEMMA EntryOfConfig ==
    ASSUME NEW c \in Configs, NEW i \in 1..Len(c.filters)
    PROVE  c.filters[i] \in Entries
  BY ConfigFacts DEF Entries

LEMMA EntryType == Entries \subseteq Filters
  BY ConfigFacts DEF Entries

LEMMA AskedForType == ASSUME NEW f \in Entries PROVE AskedFor(f) \subseteq Urls /\ f.url \in AskedFor(f)
  BY EntryType DEF AskedFor, Filters

\* Entries that share a file are those of one id or of one URL: no id reads like the
\* hash of a URL.
LEMMA SameFile ==
    ASSUME NEW f \in Entries, NEW g \in Entries, CacheKey(f) = CacheKey(g)
    PROVE  g.url \in AskedFor(f)
  BY EntryType, NullsAssumption DEF AskedFor, CacheKey, Filters

\* What is read of a file.
LEMMA FileFacts ==
    ASSUME TypeOK, NEW f \in Entries
    PROVE  /\ CacheKey(f) \in CacheKeys
           /\ Raw(f) \in Contents \cup {NoFile, Garbled}
           /\ FileOf(f) = IF Raw(f) = Garbled THEN NoFile ELSE Raw(f)
           /\ FileOf(f) \in Contents \cup {NoFile}
  BY EntryType, CacheKeyType, FileType DEF TypeOK, FileOf, Raw

LEMMA ListFacts ==
    ASSUME NEW u \in Urls, NEW n \in Nat
    PROVE  /\ [url |-> u, rev |-> n] \in Contents
           /\ [url |-> u, rev |-> n] # NoFile /\ [url |-> u, rev |-> n] # Garbled
  BY NullsAssumption DEF Contents

\* During a reload the entry looked at next is one of a configuration.
LEMMA NextEntry ==
    ASSUME TypeInv, Fetch
    PROVE  /\ NextFilter \in Entries /\ job \in Jobs /\ pc \in {"fetch", "write"}
           /\ Len(job.loaded) < Len(job.config.filters) /\ Up
  <1>1. /\ pc \in {"fetch", "write"} /\ job \in Jobs /\ Up
        /\ Len(job.loaded) < Len(job.config.filters)
    BY DEF Fetch, FetchCached, DownloadSame, DownloadNew, CacheRefused, WriteCompletes,
           WriteFails, UseCachedCopy, NoCachedCopy, DownloadSucceeds, Loading, Shape, Up,
           TypeInv
  <1>2. Len(job.loaded) + 1 \in 1..Len(job.config.filters) /\ job.config \in Configs
    BY <1>1, NextFilterType DEF Jobs
  <1> QED  BY <1>1, <1>2, EntryOfConfig DEF NextFilter

-----------------------------------------------------------------------------
(***************************************************************************)
(* What a step can change.                                                 *)
(***************************************************************************)
\* Only these steps touch the cache directory.
LEMMA CacheChanges ==
    ASSUME [Next]_vars
    PROVE  \/ UNCHANGED cache
           \/ \E k \in Volatile : LoseCache(k)
           \/ DownloadNew
           \/ WriteCompletes
           \/ WriteCut /\ pc = "write" /\ Cut
  BY DEF Next, Startup, Boot, Bootable, BootFails, Select, HandleHup, TimerElapses, ReadPanics,
     HandleTerm, HandleServerDone, Fetch, FetchCached, DownloadSame, CacheRefused,
     WriteFails, UseCachedCopy, NoCachedCopy, Finish, RejectList, RejectReload, CompleteReload,
     Serve, BeginRequest, EndRequest, Environment, EditYaml, Publish, SendHup, SendTerm,
     ListenerStops, Crash, Tick, vars, WriteCut

\* Publishers only move forward.
LEMMA PublishedGrows ==
    ASSUME TypeInv, [Next]_vars, NEW u \in Urls
    PROVE  published[u] \in Nat /\ published'[u] \in Nat /\ published[u] <= published'[u]
  <1>1. published \in [Urls -> 1..MaxRev] /\ published' \in [Urls -> 1..MaxRev]
    BY NextType DEF TypeInv, TypeOK
  <1>2. MaxRev \in Nat
    BY BoundsAssumption
  <1>3. UNCHANGED published \/ \E v \in Urls \ Dead : Publish(v)
    BY DEF Next, Startup, Boot, Bootable, BootFails, Select, HandleHup, TimerElapses, ReadPanics,
       HandleTerm, HandleServerDone, Fetch, FetchCached, DownloadSame, DownloadNew,
       WriteCompletes, CacheRefused, WriteFails, UseCachedCopy, NoCachedCopy, ReloadFails,
       Finish, RejectList, RejectReload, CompleteReload, Serve, BeginRequest, EndRequest, Environment,
       EditYaml, LoseCache, SendHup, SendTerm, ListenerStops, Crash, Tick, vars, envVars
  <1> QED  BY <1>1, <1>2, <1>3 DEF Publish

\* A write begins with DownloadNew and keeps its job until it ends.
LEMMA WritingJob ==
    ASSUME [Next]_vars, pc' = "write"
    PROVE  DownloadNew \/ (pc = "write" /\ UNCHANGED job)
  BY DEF Next, Startup, Boot, Bootable, BootFails, Select, HandleHup, TimerElapses, ReadPanics,
     HandleTerm, HandleServerDone, ReadConfig, EndReload, Halt, Fetch, FetchCached,
     DownloadSame, CacheRefused, WriteCompletes, WriteFails, UseCachedCopy, NoCachedCopy,
     ReloadFails, Loading, DownloadSucceeds, Finish, RejectList, RejectReload, CompleteReload,
     AllLoaded, Serve, BeginRequest, EndRequest, Environment, EditYaml, Publish, LoseCache,
     SendHup, SendTerm, ListenerStops, Crash, Tick, vars, loopVars

\* A list newly held by a reload was read from its file or is the one that has
\* just been written.
Gained(f, x) ==
    \/ x = FileOf(f) /\ UNCHANGED cache
    \/ WriteCompletes /\ f = NextFilter /\ x = [url |-> NextFilter.url, rev |-> job.rev]

LEMMA LoadedHolds ==
    ASSUME TypeInv, Fetch, NEW y \in Contents \cup {NoFile}, Loaded(y),
           NEW f \in Entries, NEW x \in Contents \cup {NoFile}, JobHolds(f, x)'
    PROVE  JobHolds(f, x) \/ (f = NextFilter /\ x = y)
  <1>1. /\ job \in Jobs /\ job.loaded \in Lists /\ Len(job.loaded) \in Nat
        /\ pc \in {"fetch", "write"} /\ Len(job.loaded) < Len(job.config.filters)
    BY NextEntry DEF Jobs, Lists
  <1>2. /\ job'.loaded = Append(job.loaded, y) /\ job'.config = job.config
        /\ Len(job'.loaded) = Len(job.loaded) + 1
    BY <1>1, LoadedFacts
  <1>3. PICK i \in 1..Len(job'.loaded) :
             job.config.filters[i] = f /\ job'.loaded[i] = x
    BY <1>2 DEF JobHolds
  <1>4. CASE i \in 1..Len(job.loaded)
    BY <1>1, <1>2, <1>3, <1>4, AppendFacts DEF JobHolds
  <1>5. CASE i = Len(job.loaded) + 1
    BY <1>1, <1>2, <1>3, <1>5, AppendFacts DEF NextFilter
  <1> QED  BY <1>1, <1>2, <1>3, <1>4, <1>5

LEMMA JobGains ==
    ASSUME TypeInv, [Next]_vars, NEW f \in Entries, NEW x \in Contents \cup {NoFile},
           JobHolds(f, x)'
    PROVE  JobHolds(f, x) \/ Gained(f, x)
  <1>1. CASE UNCHANGED <<pc, job>>
    BY <1>1 DEF JobHolds
  <1>2. CASE Fetch
    <2>1. /\ NextFilter \in Filters /\ job \in Jobs
          /\ FileOf(NextFilter) \in Contents \cup {NoFile}
      BY <1>2, NextEntry, EntryType, FileType DEF TypeInv
    <2>2. CASE FetchCached \/ UseCachedCopy
      BY <1>2, <2>1, <2>2, LoadedHolds DEF FetchCached, UseCachedCopy, Gained
    <2>3. CASE DownloadSame
      BY <1>2, <2>1, <2>3, LoadedHolds DEF DownloadSame, Gained
    <2>4. CASE DownloadNew
      BY <2>1, <2>4 DEF DownloadNew, DownloadSucceeds, Loading, JobHolds, Jobs
    <2>5. CASE WriteCompletes
      <3>1. [url |-> NextFilter.url, rev |-> job.rev] \in Contents
        BY <2>1 DEF Filters, Jobs, Contents
      <3> QED  BY <1>2, <2>5, <3>1, LoadedHolds DEF WriteCompletes, Gained
    <2>6. CASE CacheRefused \/ WriteFails \/ NoCachedCopy
      BY <2>6 DEF CacheRefused, WriteFails, NoCachedCopy, ReloadFails, EndReload, JobHolds
    <2> QED  BY <1>2, <2>2, <2>3, <2>4, <2>5, <2>6 DEF Fetch
  <1>3. CASE HandleHup \/ TimerElapses
    <2>1. PICK mode : ReadConfig(mode)
      BY <1>3 DEF HandleHup, TimerElapses
    <2>2. pc' = "fetch"
      BY <2>1 DEF ReadConfig, EndReload, JobHolds
    <2>3. job'.loaded = <<>>
      BY <2>1, <2>2 DEF ReadConfig, EndReload
    <2> QED  BY <2>3 DEF JobHolds
  <1>4. CASE pc' \notin {"fetch", "write"}
    BY <1>4 DEF JobHolds
  <1> QED
    BY <1>1, <1>2, <1>3, <1>4
    DEF Next, Startup, Boot, Bootable, BootFails, Select, ReadPanics, HandleTerm, HandleServerDone,
        Halt, Finish, RejectList, RejectReload, CompleteReload, ReloadFails, EndReload, Serve,
        BeginRequest, EndRequest, Environment, EditYaml, Publish, LoseCache, SendHup,
        SendTerm, ListenerStops, Crash, Tick, vars, loopVars

LEMMA ServingGains ==
    ASSUME TypeInv, [Next]_vars, NEW f \in Entries, NEW x \in Contents, ServingHolds(f, x)'
    PROVE  Holds(f, x) \/ Gained(f, x)
  <1>1. CASE UNCHANGED activeVars /\ (Up' <=> Up)
    BY <1>1 DEF ServingHolds, Holds, activeVars
  <1>2. CASE ~Up'
    BY <1>2 DEF ServingHolds
  <1>3. CASE Boot
    <2>1. /\ serving'.config = yaml /\ yaml \in Configs /\ UNCHANGED cache
          /\ serving'.lists = [i \in 1..Len(yaml.filters) |-> FileOf(yaml.filters[i])]
      BY <1>3 DEF Boot, Bootable
    <2>2. Len(serving'.lists) = Len(yaml.filters)
      BY <2>1, ConfigFacts
    <2> QED  BY <2>1, <2>2 DEF ServingHolds, Gained
  <1>4. CASE CompleteReload
    <2>1. pc = "fetch" /\ serving' = [config |-> job.config, lists |-> job.loaded]
      BY <1>4 DEF CompleteReload, AllLoaded
    <2> QED  BY <2>1 DEF ServingHolds, JobHolds, Holds
  <1> QED  BY <1>1, <1>2, <1>3, <1>4, InForceChanges

LEMMA Gains ==
    ASSUME TypeInv, [Next]_vars, NEW f \in Entries, NEW x \in Contents, Holds(f, x)'
    PROVE  Holds(f, x) \/ Gained(f, x)
  BY JobGains, ServingGains DEF Holds

-----------------------------------------------------------------------------
(***************************************************************************)
(* The invariant.                                                          *)
(***************************************************************************)
LEMMA InitDisk == Init => DiskInv
  <1> SUFFICES ASSUME Init PROVE DiskInv
    OBVIOUS
  <1>1. ASSUME NEW f \in Entries, FileOf(f) # NoFile
        PROVE  FileOf(f).url \in AskedFor(f) /\ FileOf(f).rev <= published[FileOf(f).url]
    <2>1. CacheKey(f) \in CacheKeys
      BY EntryType, CacheKeyType
    <2>2. FileOf(f) \in Leftovers(CacheKey(f))
      BY <1>1, <2>1 DEF Init, FileOf
    <2>3. PICK g \in Entries : CacheKey(g) = CacheKey(f) /\ FileOf(f) = [url |-> g.url, rev |-> 1]
      BY <1>1, <2>2 DEF Leftovers
    <2>4. g.url \in AskedFor(f) /\ g.url \in Urls
      BY <2>3, SameFile, EntryType DEF Filters
    <2> QED  BY <2>3, <2>4 DEF Init
  <1>2. FilesOwn
    BY <1>1 DEF FilesOwn
  <1> QED  BY <1>2 DEF Init, DiskInv, WriteOwn, HeldOwn, Holds, ServingHolds, JobHolds, Up

\* How one step changes the file of an entry.
LEMMA FileChanges ==
    ASSUME TypeInv, [Next]_vars, NEW f \in Entries
    PROVE  \/ Raw(f)' = Raw(f)
           \/ Raw(f)' = NoFile /\ CacheKey(f) \in Volatile
           \/ /\ DownloadNew /\ CacheKey(f) = CacheKey(NextFilter)
              /\ Raw(f)' = [url |-> NextFilter.url, rev |-> 0]
           \/ /\ WriteCompletes /\ CacheKey(f) = CacheKey(NextFilter)
              /\ Raw(f) # NoFile
              /\ Raw(f)' = [url |-> NextFilter.url, rev |-> job.rev]
           \/ WriteCut /\ pc = "write" /\ Raw(f)' = Garbled
  <1>1. /\ CacheKey(f) \in CacheKeys /\ CacheKey(f)' = CacheKey(f)
        /\ cache \in [CacheKeys -> Contents \cup {NoFile, Garbled}]
    BY FileFacts DEF TypeInv, TypeOK, CacheKey
  <1>2. CASE UNCHANGED cache
    BY <1>1, <1>2 DEF Raw
  <1>3. CASE \E k \in Volatile : LoseCache(k)
    BY <1>1, <1>3 DEF Raw, LoseCache
  <1>4. CASE DownloadNew
    <2>1. cache' = [cache EXCEPT ![CacheKey(NextFilter)] = [Downloaded EXCEPT !.rev = 0]]
      BY <1>4 DEF DownloadNew
    <2>2. [Downloaded EXCEPT !.rev = 0] = [url |-> NextFilter.url, rev |-> 0]
      BY DEF Downloaded
    <2> QED  BY <1>1, <1>4, <2>1, <2>2 DEF Raw
  <1>5. CASE WriteCompletes
    BY <1>1, <1>5 DEF WriteCompletes, Raw
  <1>6. CASE WriteCut /\ pc = "write" /\ Cut
    BY <1>1, <1>6 DEF Cut, Raw
  <1> QED  BY <1>2, <1>3, <1>4, <1>5, <1>6, CacheChanges

LEMMA FilesOwnStep == TypeInv /\ DiskInv /\ [Next]_vars => FilesOwn'
  <1> SUFFICES ASSUME TypeInv, DiskInv, [Next]_vars, NEW f \in Entries, FileOf(f)' # NoFile
               PROVE  /\ FileOf(f)'.url \in AskedFor(f)
                      /\ FileOf(f)'.rev <= published'[FileOf(f)'.url]
    BY DEF FilesOwn, AskedFor, Entries
  <1>1. FileOf(f)' = Raw(f)' /\ Raw(f)' # NoFile /\ Raw(f)' # Garbled
    BY DEF FileOf, Raw
  <1>2. FileOf(f) = IF Raw(f) = Garbled THEN NoFile ELSE Raw(f)
    BY FileFacts DEF TypeInv
  <1>3. CASE Raw(f)' = Raw(f)
    <2>1. FileOf(f)' = FileOf(f) /\ FileOf(f) \in Contents
      BY <1>1, <1>2, <1>3, FileFacts DEF TypeInv
    <2>2. FileOf(f).url \in AskedFor(f) /\ FileOf(f).rev <= published[FileOf(f).url]
      BY <2>1, NullsAssumption DEF DiskInv, FilesOwn, Contents
    <2> QED  BY <2>1, <2>2, PublishedGrows DEF Contents
  <1>4. CASE /\ DownloadNew /\ CacheKey(f) = CacheKey(NextFilter)
             /\ Raw(f)' = [url |-> NextFilter.url, rev |-> 0]
    <2>1. NextFilter \in Entries /\ NextFilter.url \in Urls
      BY <1>4, NextEntry, EntryType DEF Fetch, Filters
    <2> QED  BY <1>1, <1>4, <2>1, SameFile, PublishedGrows
  <1>5. CASE /\ WriteCompletes /\ CacheKey(f) = CacheKey(NextFilter)
             /\ Raw(f)' = [url |-> NextFilter.url, rev |-> job.rev]
    <2>1. NextFilter \in Entries /\ NextFilter.url \in Urls /\ pc = "write" /\ job.rev \in Nat
      BY <1>5, NextEntry, EntryType DEF Fetch, Filters, WriteCompletes, Jobs
    <2>2. job.rev <= published[NextFilter.url]
      BY <2>1 DEF DiskInv, WriteOwn
    <2> QED  BY <1>1, <1>5, <2>1, <2>2, SameFile, PublishedGrows
  <1> QED  BY <1>1, <1>3, <1>4, <1>5, FileChanges

LEMMA WriteOwnStep == TypeInv /\ DiskInv /\ [Next]_vars => WriteOwn'
  <1> SUFFICES ASSUME TypeInv, DiskInv, [Next]_vars, pc' = "write"
               PROVE  WriteOwn'
    BY DEF WriteOwn
  <1>0. ASSUME NextFilter \in Entries, NextFilter' = NextFilter,
               \/ Raw(NextFilter)' = [url |-> NextFilter.url, rev |-> 0]
               \/ Raw(NextFilter)' = NoFile /\ CacheKey(NextFilter) \in Volatile,
               job'.rev \in Nat, job'.rev <= published[NextFilter.url]
        PROVE  WriteOwn'
    <2>1. NextFilter.url \in Urls /\ CacheKey(NextFilter)' = CacheKey(NextFilter)
      BY <1>0, EntryType DEF Filters, CacheKey
    <2>2. job'.rev <= published'[NextFilter.url]
      BY <1>0, <2>1, PublishedGrows
    <2> QED  BY <1>0, <2>1, <2>2 DEF WriteOwn
  <1>1. CASE DownloadNew
    <2>1. /\ NextFilter \in Entries /\ job \in Jobs /\ NextFilter.url \in Urls
          /\ job' = [job EXCEPT !.rev = published[NextFilter.url]]
      BY <1>1, NextEntry, EntryType DEF Fetch, DownloadNew, Downloaded, Filters
    <2>2. NextFilter' = NextFilter /\ job'.rev = published[NextFilter.url]
      BY <2>1 DEF NextFilter, Jobs
    <2>3. Raw(NextFilter)' = [url |-> NextFilter.url, rev |-> 0]
      <3>1. cache' = [cache EXCEPT ![CacheKey(NextFilter)] = [url |-> NextFilter.url, rev |-> 0]]
        <4>1. [Downloaded EXCEPT !.rev = 0] = [url |-> NextFilter.url, rev |-> 0]
          BY DEF Downloaded
        <4> QED  BY <1>1, <4>1 DEF DownloadNew
      <3>2. CacheKey(NextFilter) \in DOMAIN cache /\ CacheKey(NextFilter)' = CacheKey(NextFilter)
        BY <2>1, <2>2, FileFacts DEF TypeInv, TypeOK, CacheKey
      <3> QED  BY <3>1, <3>2 DEF Raw
    <2> QED  BY <1>0, <2>1, <2>2, <2>3, PublishedGrows
  <1>2. CASE pc = "write" /\ UNCHANGED job
    <2>1. /\ job \in Jobs /\ Len(job.loaded) < Len(job.config.filters)
          /\ Len(job.loaded) + 1 \in 1..Len(job.config.filters)
      BY <1>2, NextFilterType DEF TypeInv, Shape
    <2>2. NextFilter \in Entries /\ NextFilter' = NextFilter
      BY <1>2, <2>1, EntryOfConfig DEF NextFilter, Jobs
    <2>3. /\ \/ Raw(NextFilter) = [url |-> NextFilter.url, rev |-> 0]
             \/ Raw(NextFilter) = NoFile /\ CacheKey(NextFilter) \in Volatile
          /\ job'.rev \in Nat /\ job'.rev <= published[NextFilter.url]
      BY <1>2, <2>1 DEF DiskInv, WriteOwn, Jobs
    <2>4. ~DownloadNew /\ ~WriteCompletes /\ ~WriteCut
      BY <1>2 DEF DownloadNew, DownloadSucceeds, Loading, WriteCompletes, WriteCut, WriteFails,
                  EndReload, Crash, Halt
    <2>5. /\ \/ Raw(NextFilter)' = [url |-> NextFilter.url, rev |-> 0]
             \/ Raw(NextFilter)' = NoFile /\ CacheKey(NextFilter) \in Volatile
      <3>1. \A f \in Entries : Raw(f)' = Raw(f) \/ (Raw(f)' = NoFile /\ CacheKey(f) \in Volatile)
        BY <2>4, FileChanges
      <3>2. CacheKey(NextFilter)' = CacheKey(NextFilter)
        BY <2>2 DEF CacheKey
      <3>3. CASE cache'[CacheKey(NextFilter)] = cache[CacheKey(NextFilter)]
        BY <3>2, <3>3, <2>3 DEF Raw
      <3> QED  BY <3>1, <3>2, <3>3, <2>2 DEF Raw
    <2> QED  BY <1>0, <2>2, <2>3, <2>5
  <1> QED  BY <1>1, <1>2, WritingJob

\* A list held before the step stays replaceable.
LEMMA HeldOwnKept ==
    ASSUME TypeInv, DiskInv, [Next]_vars, NEW f \in Entries, NEW x \in Contents, Holds(f, x)
    PROVE  /\ x.url \in AskedFor(f) /\ x.rev <= published'[x.url]
           /\ CacheKey(f) \notin Volatile => Saved(f, x)'
           /\ pc' = "write" /\ CacheKey(f) = CacheKey(NextFilter)' /\ x.url = NextFilter'.url
                 => x.rev <= job'.rev
  <1>1. /\ x.url \in Urls /\ x.rev \in Nat /\ published[x.url] \in Nat
        /\ published'[x.url] \in Nat /\ published[x.url] <= published'[x.url]
    BY PublishedGrows DEF Contents
  <1>2. /\ x.url \in AskedFor(f) /\ x.rev <= published[x.url]
        /\ CacheKey(f) \notin Volatile => Saved(f, x)
        /\ pc = "write" /\ CacheKey(f) = CacheKey(NextFilter) /\ x.url = NextFilter.url
              => x.rev <= job.rev
    BY DEF DiskInv, HeldOwn
  <1>3. ASSUME CacheKey(f) \notin Volatile PROVE Saved(f, x)'
    <2>0. x' = x /\ f' = f /\ FileOf(f)' = IF Raw(f)' = Garbled THEN NoFile ELSE Raw(f)'
      BY DEF FileOf, Raw
    <2>1. CASE Raw(f)' = Raw(f)
      <3>1. FileOf(f)' = FileOf(f)
        BY <2>0, <2>1, FileFacts DEF TypeInv
      <3> QED  BY <1>2, <1>3, <2>1, <3>1 DEF Saved, NoOlderThan
    <2>2. ASSUME NEW u \in Urls, NEW n \in Nat, Raw(f)' = [url |-> u, rev |-> n],
                 u = x.url /\ n # 0 => n >= x.rev
          PROVE  Saved(f, x)'
      <3>1. FileOf(f)' = [url |-> u, rev |-> n] /\ FileOf(f)' # NoFile
        BY <2>0, <2>2, ListFacts
      <3> QED  BY <2>2, <3>1 DEF Saved, NoOlderThan
    <2>3. CASE DownloadNew /\ Raw(f)' = [url |-> NextFilter.url, rev |-> 0]
      BY <2>2, <2>3, NextEntry, EntryType DEF Fetch, Filters
    <2>4. CASE /\ WriteCompletes /\ CacheKey(f) = CacheKey(NextFilter)
               /\ Raw(f)' = [url |-> NextFilter.url, rev |-> job.rev]
      <3>1. pc = "write" /\ job.rev \in Nat /\ NextFilter.url \in Urls
        BY <2>4, NextEntry, EntryType DEF Fetch, WriteCompletes, Jobs, Filters
      <3> QED  BY <1>1, <1>2, <2>2, <2>4, <3>1
    <2>5. CASE Raw(f)' = Garbled
      BY <2>5 DEF Saved
    <2> QED  BY <1>3, <2>1, <2>3, <2>4, <2>5, FileChanges
  <1>4. ASSUME pc' = "write", CacheKey(f) = CacheKey(NextFilter)', x.url = NextFilter'.url
        PROVE  x.rev <= job'.rev
    <2>1. CASE DownloadNew
      <3>1. job \in Jobs /\ job' = [job EXCEPT !.rev = published[NextFilter.url]]
        BY <2>1, NextEntry DEF Fetch, DownloadNew, Downloaded
      <3>2. job'.rev = published[NextFilter.url] /\ NextFilter' = NextFilter
        BY <3>1 DEF NextFilter, Jobs
      <3> QED  BY <1>2, <1>4, <3>2
    <2>2. CASE pc = "write" /\ UNCHANGED job
      <3>1. NextFilter' = NextFilter /\ CacheKey(NextFilter)' = CacheKey(NextFilter)
        BY <2>2 DEF NextFilter, CacheKey
      <3> QED  BY <1>2, <1>4, <2>2, <3>1
    <2> QED  BY <1>4, <2>1, <2>2, WritingJob
  <1> QED  BY <1>1, <1>2, <1>3, <1>4

\* A list gained by the step has just been read from, or written to, its file.
LEMMA HeldOwnGained ==
    ASSUME TypeInv, DiskInv, [Next]_vars, NEW f \in Entries, NEW x \in Contents, Gained(f, x)
    PROVE  /\ x.url \in AskedFor(f) /\ x.rev <= published'[x.url]
           /\ CacheKey(f) \notin Volatile => Saved(f, x)'
  <1>1. /\ x.url \in Urls /\ published[x.url] \in Nat /\ published'[x.url] \in Nat
        /\ published[x.url] <= published'[x.url] /\ x.rev \in Nat /\ x # NoFile
    BY PublishedGrows, NullsAssumption DEF Contents
  <1>2. ASSUME FileOf(f)' = x PROVE Saved(f, x)'
    BY <1>1, <1>2 DEF Saved, NoOlderThan
  <1>3. CASE x = FileOf(f) /\ UNCHANGED cache
    <2>1. FileOf(f)' = x
      BY <1>3 DEF FileOf, CacheKey
    <2>2. x.url \in AskedFor(f) /\ x.rev <= published[x.url]
      BY <1>1, <1>3 DEF DiskInv, FilesOwn
    <2> QED  BY <1>1, <1>2, <2>1, <2>2
  <1>4. CASE WriteCompletes /\ f = NextFilter /\ x = [url |-> NextFilter.url, rev |-> job.rev]
    <2>1. pc = "write" /\ job.rev <= published[f.url]
      BY <1>4 DEF WriteCompletes, DiskInv, WriteOwn
    <2>2. ASSUME CacheKey(f) \notin Volatile PROVE Saved(f, x)'
      <3>1. Raw(f) # NoFile
        BY <1>4, <2>1, <2>2, ListFacts, EntryType DEF DiskInv, WriteOwn, Filters
      <3>2. cache'[CacheKey(f)] = x
        BY <1>4, <3>1, FileFacts DEF WriteCompletes, Raw, TypeInv, TypeOK
      <3>3. x # Garbled
        BY NullsAssumption DEF Contents
      <3>4. FileOf(f)' = x
        BY <3>2, <3>3 DEF FileOf, CacheKey
      <3> QED  BY <1>2, <3>4
    <2>3. x.url = f.url
      BY <1>4
    <2> QED  BY <1>1, <1>4, <2>1, <2>2, <2>3, AskedForType
  <1> QED  BY <1>3, <1>4 DEF Gained

LEMMA HeldOwnStep == TypeInv /\ DiskInv /\ [Next]_vars => HeldOwn'
  <1> SUFFICES ASSUME TypeInv, DiskInv, [Next]_vars, NEW f \in Entries, NEW x \in Contents,
                      Holds(f, x)'
               PROVE  /\ x.url \in AskedFor(f) /\ x.rev <= published'[x.url]
                      /\ CacheKey(f) \notin Volatile => Saved(f, x)'
                      /\ pc' = "write" /\ CacheKey(f) = CacheKey(NextFilter)'
                            /\ x.url = NextFilter'.url
                               => x.rev <= job'.rev
    BY DEF HeldOwn, Entries, Contents, AskedFor, CacheKey
  <1>1. CASE Holds(f, x)
    BY <1>1, HeldOwnKept
  <1>2. CASE Gained(f, x)
    <2>1. /\ x.url \in AskedFor(f) /\ x.rev <= published'[x.url]
          /\ CacheKey(f) \notin Volatile => Saved(f, x)'
      BY <1>2, HeldOwnGained
    <2>2. ~(pc' = "write" /\ ~Holds(f, x))
      <3>1. SUFFICES ASSUME pc' = "write", ~Holds(f, x) PROVE FALSE
        OBVIOUS
      <3>2. UNCHANGED activeVars /\ (Up' <=> Up) /\ job'.loaded = job.loaded
            /\ job'.config = job.config /\ pc \in {"fetch", "write"}
        <4>1. CASE DownloadNew
          BY <4>1, NextEntry DEF Fetch, DownloadNew, DownloadSucceeds, Loading, Jobs, Up
        <4>2. CASE pc = "write" /\ UNCHANGED job
          <5>1. ~Boot /\ ~CompleteReload /\ Up'
            BY <4>2, <3>1 DEF Boot, Bootable, CompleteReload, AllLoaded, Up
          <5> QED  BY <4>2, <5>1, InForceChanges
        <4> QED  BY <3>1, <4>1, <4>2, WritingJob
      <3> QED  BY <3>1, <3>2 DEF Holds, ServingHolds, JobHolds, activeVars
    <2> QED  BY <2>1, <2>2, <1>1
  <1> QED  BY <1>1, <1>2, Gains

LEMMA Disk == Spec => []DiskInv
  <1>1. TypeInv /\ DiskInv /\ [Next]_vars => DiskInv'
    BY FilesOwnStep, WriteOwnStep, HeldOwnStep DEF DiskInv
  <1> QED  BY <1>1, InitDisk, InitType, NextType, PTL DEF Spec

-----------------------------------------------------------------------------
LEMMA ServingEntry ==
    ASSUME TypeInv, Up, NEW i \in DOMAIN serving.lists, serving.lists[i] # NoFile
    PROVE  /\ serving.config.filters[i] \in Entries /\ serving.lists[i] \in Contents
           /\ Holds(serving.config.filters[i], serving.lists[i])
  <1>1. serving \in Catalog
    BY DEF TypeInv, Shape
  <1>2. /\ serving.lists \in Lists /\ serving.config \in Configs
        /\ DOMAIN serving.lists = 1..Len(serving.lists)
        /\ Len(serving.lists) = Len(serving.config.filters)
    BY <1>1 DEF Catalog, Lists
  <1> QED  BY <1>2, EntryOfConfig DEF Lists, Holds, ServingHolds

\* Whatever is edited, published, lost, cut short or killed, an entry without an id is
\* served the list of its own URL and one with an id that of a URL the operator gave
\* this id: cache_path_for keeps the files of all others apart.
THEOREM OwnLists == Spec => []NoForeignLists
  <1>1. TypeInv /\ DiskInv => NoForeignLists
    BY ServingEntry DEF DiskInv, HeldOwn, NoForeignLists
  <1> QED  BY <1>1, Disk, InitType, NextType, PTL DEF Spec

\* Every list in service can be loaded again after a crash, from a file no other
\* program deletes and in no older revision (unless its write was cut short): a
\* refresh persists each list before it swaps, and no failure undoes that.
THEOREM Survive == Spec => []ListsSurviveCrash
  <1>1. TypeInv /\ DiskInv => ListsSurviveCrash
    BY ServingEntry DEF DiskInv, HeldOwn, ListsSurviveCrash, Saved, Raw
  <1> QED  BY <1>1, Disk, InitType, NextType, PTL DEF Spec

-----------------------------------------------------------------------------
(***************************************************************************)
(* No reload takes a list back.                                            *)
(***************************************************************************)
\* What a reload has loaded for an entry is no older than what is in service for
\* it: the file was no older when it was read, and stays so while the download of
\* a newer list is written.  A file that was no text when it was read still is none.
Ahead(f, y, x) == NoOlderThan(y, x) \/ (y = NoFile /\ Raw(f) = Garbled)

JobAhead ==
    \A f \in Entries, x \in Contents, y \in Contents \cup {NoFile} :
        ServingHolds(f, x) /\ JobHolds(f, y) /\ CacheKey(f) \notin Volatile => Ahead(f, y, x)

\* The catalog in service stays while a reload loads its lists.
LEMMA ServingKept ==
    ASSUME TypeInv, [Next]_vars, pc' \in {"fetch", "write"}
    PROVE  UNCHANGED activeVars /\ Up
  <1>1. Up' /\ ~Boot /\ ~CompleteReload
    BY DEF Up, Boot, Bootable, CompleteReload, EndReload
  <1> QED  BY <1>1, InForceChanges

\* A reload that went on without a list reads the cache only, and writes no file.
LEMMA GarbledStays ==
    ASSUME TypeInv, LoadedMissing, [Next]_vars, NEW f \in Entries, JobHolds(f, NoFile),
           CacheKey(f) \notin Volatile, Raw(f) = Garbled
    PROVE  Raw(f)' = Garbled
  <1>1. job.mode = "CacheFirst"
    BY DEF JobHolds, LoadedMissing
  <1>2. ~DownloadNew /\ ~WriteCompletes
    BY <1>1 DEF DownloadNew, DownloadSucceeds, WriteCompletes, TypeInv, Shape
  <1> QED  BY <1>2, FileChanges

LEMMA JobAheadStep ==
    TypeInv /\ DiskInv /\ LoadedMissing /\ JobAhead /\ [Next]_vars => JobAhead'
  <1> SUFFICES ASSUME TypeInv, DiskInv, LoadedMissing, JobAhead, [Next]_vars, NEW f \in Entries,
                      NEW x \in Contents, NEW y \in Contents \cup {NoFile},
                      ServingHolds(f, x)', JobHolds(f, y)', CacheKey(f) \notin Volatile
               PROVE  Ahead(f, y, x)'
    BY DEF JobAhead, Entries, Contents, CacheKey
  <1>1. ServingHolds(f, x)
    BY ServingKept DEF JobHolds, ServingHolds, activeVars
  <1>2. Saved(f, x)
    BY <1>1 DEF DiskInv, HeldOwn, Holds
  <1>3. CASE JobHolds(f, y)
    <2>1. Ahead(f, y, x)
      BY <1>1, <1>3 DEF JobAhead
    <2>2. CASE NoOlderThan(y, x)
      BY <2>2 DEF Ahead, NoOlderThan
    <2>3. CASE y = NoFile /\ Raw(f) = Garbled
      BY <1>3, <2>3, GarbledStays DEF Ahead
    <2> QED  BY <2>1, <2>2, <2>3 DEF Ahead
  <1>4. CASE y = FileOf(f) /\ UNCHANGED cache
    <2>1. Raw(f)' = Raw(f)
      BY <1>4 DEF Raw, CacheKey
    <2>2. Raw(f) = Garbled => y = NoFile
      BY <1>4, FileFacts DEF TypeInv
    <2> QED  BY <1>2, <1>4, <2>1, <2>2 DEF Ahead, Saved, NoOlderThan
  <1>5. CASE WriteCompletes /\ f = NextFilter /\ y = [url |-> NextFilter.url, rev |-> job.rev]
    <2>1. pc = "write" /\ job.rev \in Nat /\ f.url \in Urls
      BY <1>5, NextEntry, EntryType DEF Fetch, WriteCompletes, Jobs, Filters
    <2>2. x.url = f.url => x.rev <= job.rev
      BY <1>1, <1>5, <2>1 DEF DiskInv, HeldOwn, Holds
    <2>3. x.rev \in Nat /\ y # NoFile
      BY <1>5, <2>1, ListFacts DEF Contents
    <2> QED  BY <1>5, <2>1, <2>2, <2>3 DEF Ahead, NoOlderThan
  <1> QED  BY <1>3, <1>4, <1>5, JobGains DEF Gained

\* No reload, from the network or from the cache, replaces a list in service by an
\* older revision of it or by none, as long as the entry stays, nothing else deletes
\* its file and no write of it was cut short: fetch_filter reads, or has just written,
\* the file that the list in service was saved in.
THEOREM NeverBack == Spec => ListsNeverGoBack
  <1>1. Init => JobAhead /\ LoadedMissing
    BY DEF Init, JobAhead, JobHolds, LoadedMissing
  <1>2. TypeInv /\ DiskInv /\ JobAhead /\ [Next]_vars =>
          [Swapping =>
              \A i \in DOMAIN serving.lists, j \in DOMAIN serving'.lists :
                  LET f == serving.config.filters[i]
                  IN  serving'.config.filters[j] = f
                         /\ serving.lists[i] # NoFile /\ CacheKey(f) \notin Volatile
                      => \/ NoOlderThan(serving'.lists[j], serving.lists[i])
                         \/ serving'.lists[j] = NoFile /\ cache[CacheKey(f)] = Garbled]_vars
    <2> SUFFICES ASSUME TypeInv, DiskInv, JobAhead, [Next]_vars, Swapping,
                        NEW i \in DOMAIN serving.lists, NEW j \in DOMAIN serving'.lists,
                        serving'.config.filters[j] = serving.config.filters[i],
                        serving.lists[i] # NoFile,
                        CacheKey(serving.config.filters[i]) \notin Volatile
                 PROVE  \/ NoOlderThan(serving'.lists[j], serving.lists[i])
                        \/ /\ serving'.lists[j] = NoFile
                           /\ cache[CacheKey(serving.config.filters[i])] = Garbled
      OBVIOUS
    <2> DEFINE f == serving.config.filters[i]
    <2>1. CompleteReload /\ Up
      BY InForceChanges DEF Swapping, activeVars, Boot
    <2>2. /\ serving'.lists = job.loaded /\ serving'.config = job.config
          /\ pc = "fetch" /\ job.loaded \in Lists
      BY <2>1 DEF CompleteReload, AllLoaded, TypeInv, Shape, Jobs
    <2>3. /\ f \in Entries /\ serving.lists[i] \in Contents
          /\ serving \in Catalog
      BY <2>1, ServingEntry DEF TypeInv, Shape
    <2>4. ServingHolds(f, serving.lists[i])
      BY <2>1, <2>3 DEF ServingHolds, Catalog, Lists
    <2>5. /\ job.loaded[j] \in Contents \cup {NoFile}
          /\ JobHolds(f, job.loaded[j])
      BY <2>2 DEF JobHolds, Lists
    <2> QED  BY <2>2, <2>3, <2>4, <2>5 DEF JobAhead, Ahead, Raw
  <1> QED  BY <1>1, <1>2, JobAheadStep, LoadedMissingStep, Disk, InitType, NextType, PTL
           DEF Spec, ListsNeverGoBack

-----------------------------------------------------------------------------
(***************************************************************************)
(* What stands in the lists of a reload, and of the catalog it makes.      *)
(***************************************************************************)
\* A step that leaves a reload under way loads one list, begins to write one, or
\* leaves the reload alone; or the reload has just begun.
LEMMA JobMoves ==
    ASSUME TypeInv, [Next]_vars, pc' \in {"fetch", "write"}
    PROVE  \/ UNCHANGED <<pc, job>>
           \/ pc = "select" /\ pc' = "fetch" /\ job'.loaded = <<>> /\ UNCHANGED cache
           \/ Fetch /\ DownloadNew
           \/ Fetch /\ Loading /\ pc' = "fetch" /\ Loaded(FileOf(NextFilter))
                    /\ UNCHANGED cache
           \/ Fetch /\ WriteCompletes
  <1>1. CASE Fetch
    BY <1>1 DEF Fetch, FetchCached, DownloadSame, CacheRefused, WriteFails, UseCachedCopy,
                NoCachedCopy, DownloadSucceeds, ReloadFails, EndReload, Loading
  <1>2. CASE Select
    BY <1>2 DEF Select, HandleHup, TimerElapses, ReadPanics, HandleTerm, HandleServerDone,
                Halt, ReadConfig, EndReload
  <1>3. CASE Startup \/ Finish
    BY <1>3 DEF Startup, Boot, Bootable, BootFails, Halt, Finish, RejectList, RejectReload,
                CompleteReload, ReloadFails, EndReload
  <1>4. CASE Serve \/ Environment \/ UNCHANGED vars
    BY <1>4 DEF Serve, BeginRequest, EndRequest, Environment, EditYaml, Publish, LoseCache,
                SendHup, SendTerm, ListenerStops, Crash, Halt, Tick, vars, loopVars
  <1> QED  BY <1>1, <1>2, <1>3, <1>4 DEF Next

\* How the lists of a reload grow.
LEMMA LoadedGrows ==
    ASSUME TypeInv, Fetch, NEW x \in Contents \cup {NoFile}, Loaded(x)
    PROVE  /\ Len(job.loaded) \in Nat /\ Len(job'.loaded) = Len(job.loaded) + 1
           /\ job'.loaded[Len(job.loaded) + 1] = x
           /\ \A i \in 1..Len(job.loaded) : job'.loaded[i] = job.loaded[i]
  <1>1. job \in Jobs /\ job.loaded \in Lists /\ Len(job.loaded) < Len(job.config.filters)
    BY NextEntry DEF Jobs
  <1> QED  BY <1>1, LoadedFacts, AppendFacts DEF Lists

\* Only the list loaded last may fail to compile, and no file is being written then.
LoadedCompile ==
    pc \in {"fetch", "write"} =>
        \A i \in 1..Len(job.loaded) :
            job.loaded[i] \in Malformed => i = Len(job.loaded) /\ pc = "fetch"

\* The catalog in service was built, from lists that compile.
ServingCompiles ==
    Up => /\ serving.config.builds
          /\ \A i \in DOMAIN serving.lists : serving.lists[i] \notin Malformed

LEMMA LoadedCompileStep == TypeInv /\ LoadedCompile /\ [Next]_vars => LoadedCompile'
  <1> SUFFICES ASSUME TypeInv, LoadedCompile, [Next]_vars, pc' \in {"fetch", "write"},
                      NEW i \in 1..Len(job'.loaded), job'.loaded[i] \in Malformed
               PROVE  i = Len(job'.loaded) /\ pc' = "fetch"
    BY DEF LoadedCompile
  <1>1. CASE UNCHANGED <<pc, job>>
    BY <1>1 DEF LoadedCompile
  <1>2. CASE job'.loaded = <<>>
    BY <1>2
  <1>3. CASE Fetch /\ DownloadNew
    <2>1. pc = "fetch" /\ Compiles /\ job'.loaded = job.loaded
      BY <1>3, NextEntry DEF DownloadNew, DownloadSucceeds, Loading, Jobs
    <2> QED  BY <2>1, NextEntry, <1>3 DEF LoadedCompile, Compiles, Jobs, Lists
  <1>4. ASSUME NEW x \in Contents \cup {NoFile}, Fetch, Loaded(x), pc' = "fetch",
               pc = "write" \/ Compiles
        PROVE  i = Len(job'.loaded) /\ pc' = "fetch"
    <2>1. ASSUME i \in 1..Len(job.loaded) PROVE FALSE
      <3>1. job.loaded[i] \in Malformed
        BY <1>4, <2>1, LoadedGrows
      <3>2. i = Len(job.loaded) /\ pc = "fetch"
        BY <1>4, <2>1, <3>1, NextEntry DEF LoadedCompile
      <3> QED  BY <1>4, <2>1, <3>1, <3>2, NextEntry DEF Compiles, Jobs, Lists
    <2> QED  BY <1>4, <2>1, LoadedGrows
  <1>5. CASE Fetch /\ Loading /\ pc' = "fetch" /\ Loaded(FileOf(NextFilter))
    BY <1>4, <1>5, NextEntry, EntryType, FileType DEF Loading, TypeInv
  <1>6. CASE Fetch /\ WriteCompletes
    <2>1. [url |-> NextFilter.url, rev |-> job.rev] \in Contents
      BY <1>6, NextEntry, EntryType DEF Filters, Jobs, Contents
    <2> QED  BY <1>4, <1>6, <2>1 DEF WriteCompletes
  <1> QED  BY <1>1, <1>2, <1>3, <1>5, <1>6, JobMoves

LEMMA ServingCompilesStep ==
    TypeInv /\ LoadedCompile /\ ServingCompiles /\ [Next]_vars => ServingCompiles'
  <1> SUFFICES ASSUME TypeInv, LoadedCompile, ServingCompiles, [Next]_vars
               PROVE  ServingCompiles'
    OBVIOUS
  <1>1. CASE UNCHANGED activeVars /\ (Up' <=> Up)
    BY <1>1 DEF ServingCompiles, activeVars
  <1>2. CASE ~Up'
    BY <1>2 DEF ServingCompiles
  <1>3. CASE Boot
    <2>1. /\ yaml \in Configs /\ yaml.builds /\ serving'.config = yaml
          /\ serving'.lists = [i \in 1..Len(yaml.filters) |-> FileOf(yaml.filters[i])]
          /\ \A i \in DOMAIN yaml.filters : FileOf(yaml.filters[i]) \notin Malformed
      BY <1>3 DEF Boot, Bootable
    <2> QED  BY <2>1, ConfigFacts DEF ServingCompiles
  <1>4. CASE CompleteReload
    <2>1. /\ pc = "fetch" /\ Compiles /\ job.config.builds /\ job.loaded \in Lists
          /\ serving' = [config |-> job.config, lists |-> job.loaded]
      BY <1>4 DEF CompleteReload, AllLoaded, TypeInv, Shape, Jobs
    <2>2. \A i \in 1..Len(job.loaded) : job.loaded[i] \notin Malformed
      BY <2>1 DEF LoadedCompile, Compiles, Lists
    <2> QED  BY <2>1, <2>2 DEF ServingCompiles, Lists
  <1> QED  BY <1>1, <1>2, <1>3, <1>4, InForceChanges

\* A restart with the configuration in service fails only because of a file that
\* does not compile and is not what is in service: a refresh saved it before it
\* was compiled, or cut it short.
THEOREM RestartCause == Spec => []RestartFailsForAReason
  <1>1. Init => LoadedCompile /\ ServingCompiles
    BY DEF Init, LoadedCompile, ServingCompiles, Up
  <1>2. TypeInv /\ ServingCompiles => RestartFailsForAReason
    <2> SUFFICES ASSUME TypeInv, ServingCompiles, pc = "select", yaml = serving.config,
                        ~Bootable
                 PROVE  \E i \in DOMAIN serving.lists :
                           /\ serving.lists[i] \notin Malformed
                           /\ FileOf(serving.config.filters[i]) \in Malformed
      BY DEF RestartFailsForAReason
    <2>1. Up /\ serving \in Catalog
      BY DEF TypeInv, Shape, Up
    <2>2. yaml \in Configs /\ yaml.builds
      BY <2>1 DEF Catalog, ServingCompiles
    <2>3. PICK i \in DOMAIN yaml.filters : FileOf(yaml.filters[i]) \in Malformed
      BY <2>2 DEF Bootable
    <2>4. DOMAIN yaml.filters = DOMAIN serving.lists
      BY <2>1, <2>2, ConfigFacts DEF Catalog, Lists
    <2> QED  BY <2>1, <2>3, <2>4 DEF ServingCompiles
  <1> QED  BY <1>1, <1>2, LoadedCompileStep, ServingCompilesStep, InitType, NextType, PTL
           DEF Spec

-----------------------------------------------------------------------------
(***************************************************************************)
(* Truncated lists: without a write that is cut short, a file is truncated *)
(* only while the loop is writing it, and no reload reads it then.         *)
(***************************************************************************)
TruncatedWhileWritten ==
    \A k \in CacheKeys :
        cache[k] \notin {NoFile, Garbled} /\ cache[k].rev = 0 => pc = "write" /\ k = CacheKey(NextFilter)

WritesWhole == pc = "write" => job.rev > 0

LoadedWhole ==
    pc \in {"fetch", "write"} =>
        \A i \in 1..Len(job.loaded) : job.loaded[i] # NoFile => job.loaded[i].rev > 0

Whole == TruncatedWhileWritten /\ WritesWhole /\ LoadedWhole

\* A write that is not cut short goes on until it completes.
LEMMA WriteGoesOn ==
    ASSUME [Next]_vars, pc = "write", ~WriteCut
    PROVE  WriteCompletes \/ UNCHANGED <<pc, job>>
  BY DEF Next, Startup, Boot, BootFails, Up, Select, HandleHup, TimerElapses, ReadPanics,
     HandleTerm, HandleServerDone, Fetch, FetchCached, DownloadSame, DownloadNew, CacheRefused,
     UseCachedCopy, NoCachedCopy, Loading, DownloadSucceeds, Finish, RejectList, RejectReload,
     CompleteReload, AllLoaded, Serve, BeginRequest, EndRequest, Environment, EditYaml, Publish,
     LoseCache, SendHup, SendTerm, ListenerStops, Tick, vars, loopVars, WriteCut

LEMMA TruncatedStep ==
    TypeInv /\ Whole /\ [Next]_vars /\ ~WriteCut => TruncatedWhileWritten'
  <1> SUFFICES ASSUME TypeInv, Whole, [Next]_vars, ~WriteCut, NEW k \in CacheKeys,
                      cache'[k] \notin {NoFile, Garbled}, cache'[k].rev = 0
               PROVE  pc' = "write" /\ k = CacheKey(NextFilter)'
    BY DEF TruncatedWhileWritten, CacheKeys
  <1>0. cache \in [CacheKeys -> Contents \cup {NoFile, Garbled}]
    BY DEF TypeInv, TypeOK
  <1>1. CASE UNCHANGED cache \/ \E l \in Volatile : LoseCache(l)
    <2>1. cache'[k] = cache[k]
      BY <1>0, <1>1 DEF LoseCache
    <2>2. pc = "write" /\ k = CacheKey(NextFilter)
      BY <2>1 DEF Whole, TruncatedWhileWritten
    <2>3. CASE WriteCompletes
      <3>1. job.rev > 0 /\ job.rev \in Nat
        BY <2>2, <2>3, NextEntry DEF Whole, WritesWhole, Fetch, Jobs
      <3>2. cache'[k] = [url |-> NextFilter.url, rev |-> job.rev]
        BY <1>0, <2>1, <2>2, <2>3 DEF WriteCompletes
      <3> QED  BY <3>1, <3>2
    <2>4. CASE UNCHANGED <<pc, job>>
      BY <2>2, <2>4 DEF NextFilter, CacheKey
    <2> QED  BY <2>2, <2>3, <2>4, WriteGoesOn
  <1>2. CASE DownloadNew
    <2>1. pc = "fetch" /\ pc' = "write" /\ job \in Jobs
      BY <1>2, NextEntry DEF Fetch, DownloadNew, DownloadSucceeds, Loading
    <2>2. CacheKey(NextFilter)' = CacheKey(NextFilter)
      BY <1>2, <2>1 DEF DownloadNew, NextFilter, CacheKey, Jobs
    <2>3. k # CacheKey(NextFilter) => cache'[k] = cache[k]
      BY <1>0, <1>2 DEF DownloadNew
    <2> QED  BY <2>1, <2>2, <2>3 DEF Whole, TruncatedWhileWritten
  <1>3. CASE WriteCompletes
    <2>1. /\ job.rev > 0 /\ job.rev \in Nat
          /\ cache' = [cache EXCEPT ![CacheKey(NextFilter)] =
                         IF @ = NoFile THEN NoFile
                         ELSE [url |-> NextFilter.url, rev |-> job.rev]]
      BY <1>3, NextEntry DEF Whole, WritesWhole, Fetch, WriteCompletes, Jobs
    <2>2. CASE k = CacheKey(NextFilter)
      <3>1. cache'[k] = IF cache[k] = NoFile THEN NoFile
                        ELSE [url |-> NextFilter.url, rev |-> job.rev]
        BY <1>0, <2>1, <2>2
      <3> QED  BY <2>1, <3>1
    <2>3. CASE k # CacheKey(NextFilter)
      BY <1>0, <2>1, <2>3 DEF Whole, TruncatedWhileWritten
    <2> QED  BY <2>2, <2>3
  <1> QED  BY <1>1, <1>2, <1>3, CacheChanges

LEMMA WritesWholeStep == TypeInv /\ Whole /\ [Next]_vars => WritesWhole'
  <1> SUFFICES ASSUME TypeInv, Whole, [Next]_vars, pc' = "write" PROVE job'.rev > 0
    BY DEF WritesWhole
  <1>1. CASE DownloadNew
    <2>1. NextFilter \in Filters /\ job \in Jobs
      BY <1>1, NextEntry, EntryType DEF Fetch
    <2>2. Downloaded.rev > 0
      BY <2>1, DownloadedType, BoundsAssumption DEF TypeInv
    <2> QED  BY <1>1, <2>1, <2>2 DEF DownloadNew, Jobs
  <1> QED  BY <1>1, WritingJob DEF Whole, WritesWhole

LEMMA LoadedWholeStep == TypeInv /\ Whole /\ [Next]_vars => LoadedWhole'
  <1> SUFFICES ASSUME TypeInv, Whole, [Next]_vars, pc' \in {"fetch", "write"},
                      NEW i \in 1..Len(job'.loaded), job'.loaded[i] # NoFile
               PROVE  job'.loaded[i].rev > 0
    BY DEF LoadedWhole
  <1>1. CASE UNCHANGED <<pc, job>>
    BY <1>1 DEF Whole, LoadedWhole
  <1>2. CASE job'.loaded = <<>>
    BY <1>2
  <1>3. CASE Fetch /\ DownloadNew
    BY <1>3, NextEntry DEF DownloadNew, Jobs, Whole, LoadedWhole
  <1>4. ASSUME NEW x \in Contents \cup {NoFile}, Fetch, Loaded(x), x # NoFile => x.rev > 0
        PROVE  job'.loaded[i].rev > 0
    <2>1. CASE i \in 1..Len(job.loaded)
      BY <1>4, <2>1, LoadedGrows, NextEntry DEF Whole, LoadedWhole
    <2> QED  BY <1>4, <2>1, LoadedGrows
  <1>5. CASE Fetch /\ Loading /\ Loaded(FileOf(NextFilter))
    <2>1. /\ pc = "fetch" /\ CacheKey(NextFilter) \in CacheKeys
          /\ FileOf(NextFilter) \in Contents \cup {NoFile}
      BY <1>5, NextEntry, EntryType, FileType, CacheKeyType DEF Loading, TypeInv
    <2>2. FileOf(NextFilter) # NoFile => FileOf(NextFilter).rev > 0
      BY <2>1 DEF Whole, TruncatedWhileWritten, FileOf, Contents
    <2> QED  BY <1>4, <1>5, <2>1, <2>2
  <1>6. CASE Fetch /\ WriteCompletes
    <2>1. job.rev > 0 /\ [url |-> NextFilter.url, rev |-> job.rev] \in Contents
      BY <1>6, NextEntry, EntryType
      DEF WriteCompletes, Whole, WritesWhole, Filters, Jobs, Contents
    <2> QED  BY <1>4, <1>6, <2>1 DEF WriteCompletes
  <1> QED  BY <1>1, <1>2, <1>3, <1>5, <1>6, JobMoves

\* "If a download fails, the cached list remains active": true of every run in which
\* no write of a list is cut short by the disk or by a crash.  fs::write, which
\* truncates the file first, is the one way for a refresh to bring in a torn list.
THEOREM CompleteUnlessCut == Spec /\ [][~WriteCut]_vars => CompleteListsStay
  <1>1. Init => Whole /\ LoadedMissing
    <2>1. ASSUME Init, NEW k \in CacheKeys, cache[k] # NoFile PROVE cache[k].rev = 1
      BY <2>1 DEF Init
    <2> QED  BY <2>1 DEF Init, Whole, TruncatedWhileWritten, WritesWhole, LoadedWhole, LoadedMissing
  <1>2. TypeInv /\ Whole /\ [Next]_vars /\ [~WriteCut]_vars => Whole'
    <2>1. ASSUME UNCHANGED vars PROVE Whole => Whole'
      BY <2>1 DEF Whole, TruncatedWhileWritten, WritesWhole, LoadedWhole, NextFilter,
                  CacheKey, CacheKeys, vars, loopVars
    <2> QED  BY <2>1, TruncatedStep, WritesWholeStep, LoadedWholeStep DEF Whole
  <1>3. TypeInv /\ Whole /\ LoadedMissing /\ [Next]_vars =>
          [Swapping /\ job.mode = "Refresh" /\ serving'.config = serving.config =>
              \A i \in DOMAIN serving.lists :
                  serving.lists[i] # NoFile /\ serving.lists[i].rev > 0
                      => serving'.lists[i].rev > 0]_vars
    <2> SUFFICES ASSUME TypeInv, Whole, LoadedMissing, [Next]_vars, Swapping,
                        job.mode = "Refresh", serving'.config = serving.config,
                        NEW i \in DOMAIN serving.lists
                 PROVE  serving'.lists[i].rev > 0
      OBVIOUS
    <2>1. CompleteReload /\ Up
      BY InForceChanges DEF Swapping, activeVars, Boot
    <2>2. /\ serving'.lists = job.loaded /\ serving'.config = job.config
          /\ pc = "fetch" /\ job.loaded \in Lists
          /\ Len(job.loaded) = Len(job.config.filters)
      BY <2>1 DEF CompleteReload, AllLoaded, TypeInv, Shape, Jobs
    <2>3. i \in 1..Len(job.loaded)
      <3>1. serving \in Catalog
        BY <2>1 DEF TypeInv, Shape
      <3>2. serving.lists \in Lists /\ Len(serving.lists) = Len(job.config.filters)
        BY <2>2, <3>1 DEF Catalog
      <3> QED  BY <2>2, <3>2 DEF Lists
    <2>4. job.loaded[i] # NoFile
      BY <2>2, <2>3 DEF LoadedMissing
    <2> QED  BY <2>2, <2>3, <2>4 DEF Whole, LoadedWhole
  <1>4. Spec => [](TypeInv /\ LoadedMissing)
    BY <1>1, InitType, NextType, LoadedMissingStep, PTL DEF Spec
  <1> QED  BY <1>1, <1>2, <1>3, <1>4, PTL DEF Spec, CompleteListsStay

=============================================================================
