# A verification development for Dudu

Dudu is a language that compiles to C++. The repository holds the compiler and
its command line tools, a language server, a native macro system that runs
macros in worker processes, several on-disk caches, a CMake backend and a
toolchain manager. This directory holds TLA+ models of the parts of it that
keep state across steps, threads, processes or crashes, the TLC configurations
that model-check them, and proofs that TLAPS checks.

Contents:

1. The system's parts and what makes each correct
2. What is modelled, module by module
3. The runs, their bounds and what they show
4. Fairness
5. What is proved, from what, and how
6. Where the code disagrees with its documentation
7. What is only model-checked, and what is not modelled
8. The plan

Paths below are relative to `src/dudu/` of the repository unless they begin
with `docs/`.

## 1. The system's parts

Most of the compiler is a pipeline of pure functions (lexer, parser, semantic
analysis, C++ generation). The difficulties lie around the pipeline: who may
reuse an earlier result, which thread may publish, what a killed process
leaves on disk.

```
 editor ──messages──▶ dudu-lsp main thread ──jobs──▶ diagnostics worker thread
    ▲                     │  documents_, revisions       │
    └── publishDiagnostics┴──────────────────────────────┤
                                                         ▼
                          ProjectIndexCache ◀── both threads ask for indexes
                                │ miss
                                ▼
   duc / dudu ───────▶ ProjectIndex::load ──▶ module loader ─▶ sources on disk
      │                         │           ─▶ native header cache ─▶ clang
      │                         └──────────▶ macro expansion
      │                                        ├─ expansion cache
      │                                        ├─ worker build cache ─▶ c++
      │                                        └─ worker sessions ─▶ processes
      ▼
   emit-modules: artifacts, stamp file, manifest ◀── CMake backend (lock)
```

**A. LSP documents and diagnostics** (`lsp/language_server.cpp`,
`lsp/language_server_documents.cpp`). State: the open documents with their text
and version, a revision per document, the revision each document's native
report is ready for, a queue with one job per document, a stop flag, and what
the editor was last told. Operations: open, change, save, close, watched files
changed, workspace folders changed, exit; and the worker's wait, take, compute
and publish. Two threads share one object under two mutexes and a condition
variable; jobs carry snapshots and may be overtaken while they run. Correct
when: no report of an older text, of a closed document or of older imports
stays on the screen; versions never go back; `full_diagnostics_ready` is true
only of reports about the sources as they are; the worker always wakes; the
destructor returns.

**B. Project index cache** (`project/project_index_cache.cpp`, with the stamps
of `project/project_index.cpp` and `project/project_index_stamps.cpp`). State:
entries, the set of keys being loaded, a generation, counters. Operations:
`get_shared`, `clear`. Several threads call; a load runs unlocked and reads
files one after another; `clear()` may overtake it. Correct when: a key is
loaded once at a time, no waiter is forgotten, a failed load frees its key, and
no answer predates the last `clear()` before the question.

**C. Incremental emission** (`frontend/cli_compile_command.cpp`,
`project/project_index_stamps.cpp`, `codegen/cpp_emit_modules.cpp`). State: the
generated files, a stamp file and an artifact manifest beside them. Operations:
skip, load, stamp, check, write, record; interrupted by edits, kills, deletions,
a compiler that is replaced between two runs or under one. Correct when an
incremental build that succeeds is indistinguishable from one from nothing.

**D. Macro worker sessions** (`macro/macro_expansion.cpp`,
`macro/macro_worker_process.cpp`, `macro/macro_worker_runtime.cpp`). State: a
table of sessions under one mutex, a process and two pipes each. Operations:
launch, Hello, Describe, Expand, retire, shut down, and the worker's serving
loop. Workers crash, hang, answer nonsense, or are not the binary they were
launched as. Correct when: answers belong to their requests and to the build
asked for, failures to the exchange they happened in, no process is left
behind, every call returns.

**E. Worker build cache** (`macro/macro_worker_build.cpp`,
`macro/macro_worker_compile.cpp`). State: a cache directory with a file per
source key that names a binary, and the binaries, made in staging directories
and renamed. Several processes build the same package at once. Correct when a
worker found is one that a build from the present inputs would make.

**F. Macro expansion cache** (`macro/macro_expansion_cache.cpp`). State: an
entry per request and batches of them, valid while the hashes of the external
inputs they name are. Written by rename, removed when they do not decode.
Correct when an entry returned is what the worker would answer now.

**G. Native header cache** (`native/native_header_cache.cpp`,
`native/native_header_cache_deps.cpp`, `native/native_headers.cpp`). State: per
key three dumps and a file of dependency stamps, written one after another
into a directory that processes share, and an in-memory cache. Correct when a
hit equals a scan of the headers as they are.

**H. Module loader** (`project/module_loader.cpp`). Recursive and sequential;
its state lives for one load. Correct when every module is loaded once, in
dependency order, cycles are refused, and a recovering load loses no module
that a plain one finds.

**I. Last good indexes** (`lsp/language_server_support.cpp`). When a load fails
the server falls back to a recovering load, one without macros, the last good
index, one without native headers. Correct when a fallback is never newer than
what failed nor kept when the sources are good again.

**J. Dependencies** (`project/project_dependencies.cpp`). Git clones under a
cache directory and `dudu.lock`. Correct when the lock file says what was built
and a requested update happens.

**K. CMake backend** (`project/cmake_backend.cpp`,
`project/project_driver.cpp`). State: a lock directory, `CMakeLists.txt`, the
recorded configure command, CMake's cache. Correct when a build is configured
for the present manifest, one driver works at a time, and a crash does not lock
the project for good.

**L. Toolchain manager** (`install.sh`). State: versions, two symbolic links,
a metadata file. Correct when `current` always names a complete version and
`previous` the one before it, wherever an update or rollback is cut off, and
when no command leads to what an uninstall, whole or half done, has removed.

**M. The rest.** Lexer, parser, formatter, semantic analysis, code generation,
native header scanning, macro bridges and hygiene are large sequential
functions without state of their own; the LSP's read-only requests are queries
over A and B. Source text interning keeps two append-only tables, each under
its own mutex.

How the parts interact, where it matters here:

- A calls B from both threads. `didChangeWatchedFiles` calls `clear()` on B
  before it queues the open documents again. That is why A's model may let a
  job read the disk at the moment it computes: B's contract (`IndexService`)
  says the answer is no older than that `clear()`.
- B's load runs G, H and D to F. All of them may throw, and B must then free
  the key.
- C is started by CMake under K's lock, so one process works on an output
  directory at a time.
- D is called with its mutex held for the whole exchange; every package waits
  for the slowest worker, up to its deadline.
- F is keyed by the binary identity that E computes, and D launches the binary
  that E found: one call of the front end passes through E, F and D in turn.

## 2. What is modelled, module by module

Each module names in its comments the functions its actions translate;
`PROJECT.json` gives the lines. An action is the code between two points where
somebody else (another thread, process, the client, the disk) can step in.
Definitions marked as variants or mutants in a module are deliberate errors:
they show that a property notices the corresponding slip in the code.

### LspDiagnostics (A)

| code | model |
|---|---|
| `documents_` | `docText`, `docVersion`; `NoText` is no entry |
| `document_revisions_`, `native_ready_revisions_` | `revision`, `ready`; 0 is no entry |
| `pending_diagnostics_` | `pending`, a set of jobs with distinct documents |
| `diagnostics_stopping_` | `stopping` |
| program counters of the two threads | `main`, `worker`; `affected`, `todo`, `job` are their locals |
| what the client was sent last | `shown` |
| files, and a file event on its way | `disk`, `unnoticed` |

A handler is an action up to the first point the worker can see, then one per
further stretch: `DidOpen`, `DidChange` and `DidSave` bump the revision;
`PublishSyntax`; `FindAffected` (`affected_open_documents`);
`InvalidateAffected`, one document at a time; `QueueNext`, one job at a time.
`DidClose` is `DidClose`, `EraseDocument`, `FindAffected`,
`InvalidateAffected`, `PublishCleared`, `QueueNext`. `documents_` is touched by
the main thread only. `QueueNext` joins the two critical sections of
`queue_full_diagnostics(uri)`, the one that reads the revision and the one that
inserts the job: only the main thread writes revisions and documents, so
nothing the worker does in between can be told apart. `did_change`'s early
return for a version that is not newer is the guard of `DidChange`.

A report is identified with what it was computed from: the text of every
module the load visits (`SourcesOf`). A job's overlay is a snapshot of all open
documents; the files below it are read when the worker computes, in one
moment (the cache's contract, section 1, is what makes the files no older than
the last file event).

The client opens what is closed, and changes, saves and closes what is open,
as the protocol requires; versions of an open document increase.

### IndexService and ProjectIndexCache (B)

`IndexService` is the promise: a request is answered with an index each of
whose files was read after the last `clear()` that preceded the request and
before the answer, or it fails. `ProjectIndexCache` is the code, and
`Implements` states that it refines the promise (the variables of the service
are part of the cache's module, so the mapping is the identity).

`entries`, `loading`, `generation` and `stats` are the members with those
names; `pc`, `index`, `loadGeneration` are a caller's locals. Every stretch of
`get_shared` under `mutex_` is one action (`Lookup`, which is `Hit`,
`BeginLoad` or `Wait`; `WakeAndLookup`, `WakeAndSleep`; `Store`; `Rethrow`),
and so is `clear`. The load is not under it: `ReadSource` one file at a time,
`Analyze`, then `StampSource` one file at a time, in any order, as
`ProjectIndex::load` takes modification times after everything else.
`source_stamps_current` stats files one after another; because a file's
modification time does not return to an earlier value, its answer is the one a
single look at the disk would have given at some moment of that loop, and the
model takes it at once. An index is the version of each file that was read and
the version that was stamped, which may differ: that is the hazard.

### EmitModules (C)

| code | model |
|---|---|
| sources and their modification times | `text`, `mtime` |
| `dudu.toml`, the compiler's own file | `config`, `compiler` |
| generated files | `artifact`; `Missing`, `Torn` or what it was made from |
| `.dudu_sources.stamp`, `.dudu_test_sources.stamp` | `stampFile` by mode |
| `.dudu_artifacts.stamp`, `.dudu_test_artifacts.stamp` | `manifest` by mode |
| the run's locals | `pc`, `mode`, `using`, `loaded`, `stamps`, `todo`, `open` |

A run is `Begin` (skip or go on), `Load`, `Stamp`, `Analyze` (affected modules,
semantic check, what is to be written), the files in any order, each
`KeepArtifact`, or `TruncateArtifact` and `FillArtifact`, then the stamp file
and the manifest, each truncated and filled. The `.hpp` and `.cpp` of a module
depend on the same inputs and are one artifact, as are `dudu_runtime.hpp` and
`test_harness.cpp`, which depend on every module. An artifact's content is the
record of its inputs (`CleanArtifact`): the texts of the modules it reaches,
`dudu.toml`, the compiler, the mode. Which modules are emitted at all depends
on macros (`MacroHost`). All sources are read in one moment; `mtime`s are taken
later, in another, and `edit while loading` is the event between the two.

One run at a time: CMake starts the command under the backend's lock. A crash
leaves what was written. What happens besides may happen under a run: sources
are saved, `dudu.toml` is written, files are deleted (what a run then writes to
a file it has open is lost), the compiler is replaced. The manifest is stamped
with the compiler's file as it is when the manifest is written, after the
artifacts; `upgrade` is a compiler replaced between two runs and `upgrade during
run` one replaced under a run, which makes the code record the new compiler
beside what the old one has generated. `Events` says which events an instance
has and `Tolerated` which sets of them a build is promised to survive, so that
the properties are stated for those histories and the others are runs of their
own.

### MacroWorker (D)

| code | model |
|---|---|
| `WorkerSessions::mutex_` | `holder` |
| the call's progress | `at`, `kind`, `peer`, `victim` |
| `workers_` | `session` by package: identity and process |
| `WorkerProcess`, its pipes and `next_request_id_` | `process` by number: `inbox`, `outbox`, `nextId` |
| the callers and what they got | `wants`, `answer`, `blamed` |

The compiler's side: `Call` (after a miss of the expansion cache), `Reuse` or
`Launch` (the condition of `WorkerSessions::expand` under the mutex), `Send`,
and for each way an exchange can go on an action: `HelloAcked`, `Described`,
`Misidentified`, `ExpansionResult`, `MacroFailed` (a WorkerError frame: the
worker stays), `Reject`, `Closed`, `Timeout` (the worker is killed and waited
for, `Retire`). Replacing a session's worker stops the old one first: `Stop`
writes Shutdown and closes the pipe, `Replaced` is `waitpid`, which has no
deadline. `Exit`, `Destroy`, `Destroyed`, `Exited` are the static destructors,
`Kill` an editor that kills the server.

The worker's side is `serve_worker`: `Serve`, `Answer`, `EndOfInput`, and the
faults `Misbehave`, `Crash`, `Hang`. What a macro prints to standard output
goes where the frames go; it shares the stdio buffer with the frame that
follows it, so garbage precedes the answer and is read as the answer's header.
Only Expand is answered with WorkerError. SIGKILL followed by `waitpid` is one
step. The pipes are not close-on-exec, so a worker forked later holds the
compiler's ends of the pipes of the older ones: `Inherited`, `WriteEndOpen`,
`ReadEndOpen`. SIGPIPE has its default disposition, which nothing under `src/`
changes; were it inherited as ignored, the write would fail with `EPIPE` and
become a diagnostic, and that environment is not modelled.

### MacroCache (E and F)

One package whose invocations a call of `expand_module_macros` expands; several
compilers and servers share the cache directories without a lock.

| code | model |
|---|---|
| the package's module, its header, what macros read | `disk` |
| `workers/lookup/<source key>` | `lookup` |
| `workers/<identity>`, the binary in it | `entry`: what it was compiled from |
| the shared SDK entry | `sdk`, a subset of `{"objects", "pch"}` |
| `expansions/<key>` and batches | `single`, `batch`, by identity |
| a process's locals | `pc`, `source`, `scanned`, `key`, `identity`, `built`, `answer`, `storing`, `batchHit` |

`Begin` is the loader reading the sources, and `ScanHeaders` the merging of the
headers' declarations (`merge_native_headers_for_tree`, as section G promises
it) before `expand_module_macros` is called; the C++ that is generated depends
on both (`Emits`). `Lookup` is `source_identity` (the header is hashed now) and
the lookup file; `Refuse` and `Identify` are analysis, generation from what was
loaded and `build_identity` (the header is hashed again); `FindSdk`,
`PublishObjects`, `PublishPch` are `prepare_sdk`; `Compile` reads the header a
last time; `Publish` renames the staging directory unless the
entry exists; `Record` writes the lookup file. Then `ReadBatch`, `DropBatch`,
`ReadSingles` (`read_expansion_caches`), `Expand` and `StoreSingle` for each
miss, `StoreBatch`, `Return`. A source key, an identity and a worker are
records of what is hashed or compiled into them, so that an identity whose
header hash differs from the header that was scanned, or from the one that the
compiler saw, can be told. A file that is written under another name and renamed
is one step. What `window`, `begun`, `warm`, `ran`, `spoiled`, `staleKeys` and
`staleEntries` hold is history, for the properties only: a save of the header
between its scanning and its second hashing spoils the lookup that the call will
record, one between that and the compilation the entry that it publishes, and a
call that finds a spoiled lookup or entry of another's has spoiled answers.

The worker of an identity answers an invocation with a record of the binary and
of the external input it saw. `Volatile` invocations ask for the time, write
files or the like; their answers are not stored.

### HeaderService and NativeHeaderCache (G)

`HeaderService` is the promise: an answer says, for each of clang's three passes
and each header, what that header said at some moment between the question and
the answer. `NativeHeaderCache` is `scan_headers` for one import with the
directory it shares.

| code | model |
|---|---|
| headers, their sizes and mtimes | `version` |
| `.ast`, `.macros`, `.identities`, `.deps`, `.scan` of a key | `cache[key]`; `Absent`, `Empty` (truncated), or the versions it was made from |
| `process_native_header_scan_cache` | `memory` |
| locals | `pc`, `key`, `result`, `stamps`, `part` |

`Begin` computes the key from the import's own header. `LoadRaw` compares the
stamps, and takes the scan in memory if they are current; `LoadScan` is the
parsed scan, `LoadPayload` the raw dumps. `PassIdentities`, `PassAst`,
`PassMacros` each read the headers again; a scan that needed a prelude is kept
in memory only. `Truncate` and `Fill` are `write_text` of one file, in the
order of `Order`. `Fail`, `Kill`, `Clean`, `SaveHeader` are the surroundings.

The refinement mapping of `Implements`: a process is "idle" when `pc` is,
"answered" when `pc` is "done", "asked" otherwise; its answer is `result` while
it is "answered". `version` and `since` are the service's own.

### CMakeBackend (K)

| code | model |
|---|---|
| `.dudu.lock`, a directory | `lock` |
| `source/CMakeLists.txt` | `lists`; `Absent`, `Torn` or a text |
| `build/CMakeCache.txt`, the build tree, the target | `cmakeCache`, `tree`, `artifact`: what each was made from |
| `configure.command` | `recorded` |
| a driver's locals | `pc`, `want`, `attempts`, `changed` |

`Acquire`, `Wait`, `GiveUp` are `BackendLock`'s constructor, and `Leave` its
destructor, which also runs when an exception leaves `run_cmake_backend`.
`Generate` and `Fill` are `write_text_file`, which truncates the file if the
text differs; `Configure` asks `configure_is_current`; `Configured` or
`ConfigureFails` is CMake's configure step; `Record` and `FillRecord` are
`record_configure_command`; then `Build` or `BuildFails`, and `Return`. With
the user's own `CMakeLists.txt` (`scenario.owned`, `run_user_cmake_backend`)
the first two are left out. CMake is external: a configure step stores the
command's values in `CMakeCache.txt` even if it fails afterwards, and
`cmake --build` generates the tree again when it is out of date. `Kill` leaves
the lock directory; `Clean` is `clean_project`, `Unlock` the user who removes
the directory that the message names.

### Toolchain (L)

| code | model |
|---|---|
| `toolchains/<version>`: absent, whole, without some files but with `bin/dudu`, or without it | `toolchain` |
| the links `current` and `previous` | `current`, `previous` |
| the links in `bin/`; files of others in their place | `commands`; `foreign` |
| `installs.json` | `metadata` |
| variables of the script | `pc`, `operation`, `version`, `seen`, `todo` |

`install.sh` is a straight line of commands for each operation
(`InstallSteps`, `RollbackSteps`, `UninstallSteps`), and a script may die or be
killed between any two. `Build` installs a version: a staging directory, tried
and renamed; nothing if `bin/dudu` is there, which is all the script tests
(582); and a staging directory that `mv` puts inside what remains of the version
(601), if that has no `bin/dudu`. `ReadCurrent` is the first half of
`link_version`, `ReadBoth` of `perform_rollback`; `LinkCurrent` and
`LinkPrevious` are `atomic_link`; `LinkCommand` is one turn of `link_commands`
and `RefuseCommand` its refusal; `WriteMetadata`. An uninstall is
`UnlinkCommand` for each command and then `rm -rf`, which takes toolchains apart
(`RemoveFrom`) and removes the links and the metadata (`RemoveLink`) in any
order, until nothing is left (`Removed`), something cannot be removed
(`RemoveFails`) or the script is killed. `before`, `done` and `torn` (what
uninstalls that did not complete have taken files of) are history.

## 3. The runs, their bounds and what they show

Deadlock is checked in every run. Runs that "pass" are exhaustive.

| run | question | bounds and why they are enough |
|---|---|---|
| `lsp` | Do reports ever go stale, come back, or go backwards? Is the worker always woken, does shutdown return? | two documents, the second importing the first; versions 0 and 1; four client messages or file writes. Open, change, close and reopen of one document, or open both, change the import, and save or close, fit in four; the worker's steps, file events and shutdown interleave freely and are not counted. |
| `lsp_close_unsaved` | One disagreement with the documentation, section 6 | as `lsp`, with a document that has no file |
| `index_cache` | Does the cache implement `IndexService`? One load per key, nobody forgotten, every call returns? | three callers, two keys whose projects share a file, one write, three calls, one `clear()`. Three callers are a loader and two sleepers, which separates waking one from waking all; one write on either side of a read, a stamp and a clear gives every order. |
| `emit` | Is an incremental build that succeeds a build from nothing? | an entry, a library and a helper, two or three texts each, among them one that changes the import graph, ones that define and apply macros, ones that do not check together, a missing file; any three events of all eight kinds, an `upgrade` between runs and the others at any step. Three events are an edit that is refused, an edit that mends it elsewhere, and a kill in between. |
| `emit_deleted_and_edited` | One disagreement, section 6 | two events |
| `macro_worker` | Whose answer, whose failure, who is left behind, does every call return, do workers follow the compiler? | two threads, two packages, one of them in two builds; four calls and faults in all. A call whose worker hangs, a call of the other build, a fault in the replacement, and a call after it, fit in four. |
| `macro_worker_idle_death` | One disagreement, section 6 | as `macro_worker` |
| `macro_cache` | Do the caches ever answer for other inputs than the call's? May an identity change its binary, or half an SDK be used? Does a warm call run nothing? | two processes, two macros with an external input each, two sources that generate different C++, one of them different C++ for each of two headers, and one that is refused; three calls, two saves, failures or kills. Three calls are two that overlap and one that meets what both left; two events are a save and a kill, or a save and its undoing, on either side of any step. |
| `native_cache` | Does the cache implement `HeaderService`? Can a store cut short pass for a whole one? Are warm scans loaded? | two compilers and a server, a header and one it includes, a version that needs a prelude; two saves, one kill or clean, three calls, in four scenarios (below) |
| `native_cache_stale` | One disagreement, section 6 | a compiler and a server in turn |
| `cmake` | Are drivers kept apart, does each get what it asked for, does every call return? | two drivers, two texts, two commands, four calls, two failures, kills, cleans or edits; one attempt stands for the code's 2400, since what matters is that it gives up. A kill, the call that gives up, the unlocking and a call after it fit in four calls. |
| `toolchain` | Do the commands always lead to a whole toolchain? What does a completed operation leave? | two scripts, three versions, three tools, any of them in a foreign file's place; four operations, one kill, any number of failures. Install, update, a killed rollback and one more operation fit, as do an install, an uninstall killed while it removes, and two installs after it; with three versions `previous` can be neither the old nor the new one. |

The properties, and what each would catch:

- `SettledFresh`: when nothing is left to do, every open document shows a full
  report of its present text and imports. Catches a dependent that was not
  queued, a queued job that an invalidation missed, a lost replacement.
- `ClosedCleared`, `VersionsNeverGoBack`, `FullReportsAreCurrent`: the
  worker's late result against close, reopen and edit. Forgetting the revision
  with the document breaks the last: a reopened document reaches the number an
  old job carries.
- `ReadyIsFresh`: `full_diagnostics_ready` against invalidation by an import.
- `EventuallyFresh`, `ShutdownCompletes`: the lost wake-up.
- `SingleFlight`, `NobodyForgotten`, `Implements`, `GetsReturn`: failing loads,
  `clear()` during loads, wake-ups.
- `EmitMatchesClean`, `SuccessMeansChecked`: what a run leaves equals a clean
  build's output, and no module escapes the semantic check because only the
  affected ones were checked. `NoOpIsSkipped`: the run after it has nothing to
  do. `KilledRunIsRedone`: before the stamps and the manifest are both
  recorded, a run for changed sources cannot be taken for finished.
- `AnswersAreOwn`, `FailuresAreOwn`, `NoStrays`, `CallsReturn`,
  `WorkersFollow`: late answers, rebuilt packages, impostors, replaced and
  failed workers, hung macros, a killed compiler.

- `AnswersAreCurrent`: a cached expansion that outlived the file it read, a
  batch that is trusted though one of its members is stale, a lookup file that
  names a worker of another source or of another header, a worker found while
  another process publishes, an identity or a key that leaves the header out. A
  header that is saved under a call is no excuse for that call: its answers are
  those of some text of the header that was there during it.
  `IdentitiesAreStable`: a publication that replaces a binary under which
  expansions are stored and sessions run. `SdkIsWhole`: an SDK entry seen before
  its precompiled header is in it. `WarmCallsRunNothing`: an entry that is
  stored but never found again.
- `TrustedIsWhole`: stamps that say "current" beside a dump that a killed
  process never filled, or an older scan's. `Implements`: answers mixed from
  memory, parsed scans and dumps that show a header as it was before the
  question. `WarmScansAreLoaded`: scans that are made again and again.
- `OneAtATime`, `BuildsAreOwn`, `CallsEnd`: the lock that survives its owner,
  the configure step that is skipped on the strength of files another driver,
  or a killed or failed run, has left.
- `CommandsRun`, `CompletedIsConsistent`: links and metadata, replaced one
  after another by scripts that die or overlap; commands that outlive the
  toolchain an uninstall takes apart.

Each module has one type invariant; where the code keeps a simple structural
rule (one job per document, a thread has a request while it is in
`get_shared`, the mutex's holder is in a call) it stands there.

What the instances leave out, because the promise does not hold there or is
nobody's promise:

- `emit`: `configure`, `edit while loading` and `upgrade during run` are in no
  tolerated set, and `delete` is not together with `edit` or `crash`. Section 6
  says what happens with the first three and with `delete` and `edit`. A
  deletion and a crash together leave a truncated file that the manifest
  accepts, because it only asks that artifacts exist. A macro's helper that
  becomes ordinary target code is not among the edits (section 6).
- `lsp`: modules are on disk and never import each other in a cycle.
- `macro_cache`: `AnswersAreCurrent` is not claimed of a call that found a
  lookup or an entry another call had made while the header was saved: it was
  scanned, hashed, hashed again and compiled at four moments, and what was then
  stored stays wrong for those who come after (section 6). C++ sources listed
  in a package's manifest, the headers that the imported one includes, and
  imports that are not paths, are in no key and are fixed.
- `native_cache`: a scenario says who calls, whether calls overlap, whether
  processes are killed, and which headers are saved while a scan runs
  (`during`) and while none does (`between`). The included header is never
  saved during a scan, for the stamps are taken after the passes and would
  vouch for an older text; nor are there kills with saves of it, for a process
  that dies between `.deps` and `.scan` leaves an old parsed scan beside current
  stamps; nor saves of it between calls of two processes one of which lives
  on, which is `native_cache_stale`. While calls overlap, headers are at rest,
  and no more than two overlap: of three, one may have written `.deps` and not
  yet `.scan`, another truncate `.ast`, and the third, which hit before that,
  take the empty dump for an answer and store it as `.scan`.
  The import's own header is in the key, so the scenarios save it during scans
  and in behaviours with kills as well.
- `cmake`: commands do not change in behaviours where configuring fails. A
  command that fails leaves its values in `CMakeCache.txt` but not in
  `configure.command`; going back to the command of before then skips
  configuring and builds with the failed one's values. `clean` and edits of a
  user's `CMakeLists.txt` happen while nobody builds.
- `toolchain`: nobody uninstalls while another script runs. Of a version that
  an uninstall has taken files of without completing, and that nobody has built
  since, `CommandsRun` does not say that it is whole (section 6): `torn` has
  these versions, and only these are excepted. A rollback killed
  between its two links leaves `current` and `previous` on one version;
  `CompletedIsConsistent` judges the operations that complete after it.

## 4. Fairness

Liveness is checked under weak fairness of what the operating system and the
code itself make certain, and nothing else.

- `LspDiagnostics`: both threads run when they can; each of their steps is
  ordinary code that ends (analysis terminates). The editor's file watcher
  reports a change in the end. The client need not send anything, and nothing
  makes it exit. No exception leaves the worker (section 7).
- `ProjectIndexCache`: a thread inside `get_shared` runs, and a load returns or
  throws. A thread woken from the condition variable competes for the mutex
  like any other; nobody needs strong fairness because a key that is loading
  is finished by its loader.
- `MacroWorker`: threads run, deadlines pass (`Timeout` is part of the holder's
  step), a worker that has not hung goes on. `std::mutex` promises no order
  among the threads that wait for it; with finitely many calls each of them
  gets it, and a program that calls for ever without pause is outside the
  model. Faults, calls and exits are never forced.
- `CMakeBackend`: each driver goes on by itself; the commands it starts end,
  and so does its sleep. Kills, failures, edits and calls are never forced, and
  nobody is obliged to remove a dead driver's lock: `CallsEnd` holds because the
  others give up.
- `EmitModules`, `MacroCache`, `NativeHeaderCache` and `Toolchain` have safety
  properties only: each call is a straight line of steps that wait for nobody,
  and nothing obliges a user to make one.

## 5. What is proved, from what, and how

TLAPS checks these for every value of the constants that satisfies the named
assumptions of the modules: documents numbered by naturals and finitely many,
text and file sets of the right shape, natural bounds (`UrisAssumption`,
`TextsAssumption`, `BoundsAssumption`); finitely many threads, `ReadBy` total,
`None` distinct (`ServiceAssumption`, `NoneAssumption`, `CacheAssumption`);
for the newer modules, that the constants are tables of the right shape, that
the markers (`None`, `Absent`, `Torn`) are no values, and that the bounds are
natural (`CMakeAssumption`, `ToolchainAssumption`, `EmitAssumption`,
`MacroCacheAssumption` and its `NoneAssumption`); that every worker binary
belongs to a package (`PackageOfAssumption`, `MaxEventsAssumption` and
`NoneAssumption` of `MacroWorker`); that `Absent`, `Empty` and `None` differ and
are no versions (`HeaderCacheAssumption`). TLC evaluates the assumptions in
every run. No theorem bounds the number of processes, drivers, scripts, files,
versions or macros.

**LspDiagnosticsProofs.** `TypeCorrect`, `Invariance`,
`ClosedDocumentsShowNothing` (`ClosedCleared`), `FullReportsCurrent`
(`FullReportsAreCurrent`), `VersionsMonotone` (`VersionsNeverGoBack`). None of
the properties is inductive: a late job can only be judged by its revision. The
invariant `IInv` is the type invariant with four conjuncts. `JobsMatch`: a job,
queued or held by the worker, is no newer than its document's revision, and at
the same revision it is a snapshot of the document as it is: open, at this
version, with this text. `HandlerTargetsOpen`: what a handler is about to
publish or queue is open, except the document `did_close` closed.
`ClosedShowNothing` adds the window between the erasure and the final
publication to `ClosedCleared`. `ShownNotNewer`: what is shown is no newer than
the document. Every handler that changes a document raises its revision and
none lowers it, so `JobsMatch` holds step by step, and the check in
`WorkerPublish` turns it into the three properties.

`FreshInvariance`, `SettledFreshHolds` and `ReadyIsFreshHolds` have two
hypotheses. `FilesExist`: every module is a file, whether or not it is open; a
document that exists only in the editor is the finding `lsp_close_unsaved`,
whose instance is the one that does not satisfy it. `ImportsAreAcyclic`: no text
that clients or the disk may have closes an import cycle, for then loading
throws (section 6); TLC evaluates it in both runs. `FreshInv` says of each open
document that it is `Awaited` (a file event is to come, or the handler that runs
will find it affected, or has, and will queue it) or `Covered`: its report is
fresh, or a job of its revision is queued or held, and every such job would
publish what the sources are now. A change of a document leaves the report of
another as it was if it is not in its import closure (`CoveredKept`); if it is,
the search finds it, because where every import is a file and there is no cycle
an index loads (`FoundIfLoaded`), and `BumpedInv` says that what a handler is
about to queue has been invalidated, so that no older job counts when it is
queued.

**ProjectIndexCacheProofs.** `TypeCorrect` (`TypeOK`), `Invariance`, `OneLoadPerKey`
(`SingleFlight`), `SleepersHaveLoaders` (`NobodyForgotten`), `Refinement`
(`Implements`). The invariant adds `LoadsAreRecent`: what a load has read is no
older than the `clear()` before its call, and if it is for the current
generation no older than the last `clear()`; `EntriesAreRecent`: so is what is
cached; and that the disk and the generation only move on. A `clear()` makes
the second half of the first void by raising the generation and the second by
emptying the entries; `Store` restores it by its test of the generation. Every
step is then a step of `IndexService` or a stutter. The stamps play no part in
it: a hit whose stamps agree may hold older text than the file, but never older
than the last `clear()`.

**MacroCacheProofs.** `TypeCorrect`, `IdentitiesAreStableHolds`,
`SdkIsWholeHolds`, `AnswersAreCurrentHolds`, `WarmCallsRunNothingHolds`. `Core`
is the part of the types that the others need. `SdkInv`: an SDK entry with a
precompiled header has its objects, whoever is past a part finds it there, and
no part is ever removed; so whoever compiles has found the entry whole or made
it so. `HaveInv`: a process past `publish` has an identity whose binary is
there, and says which answers a process has at which place of a call; binaries
are never replaced, which is also why identities are stable.
`ExpansionsNameTheirWorker`: every cached expansion was made by that binary.
`WindowInv`: what a process has read, hashed or compiled was on the disk at some
moment of its call. `NamedInv`: unless a save of the header has spoiled it, a
binary is made from what its identity hashes, and a lookup file's identity is
that of its key's source and header; and so it is with what a process has yet to
publish or to record, which is how a save in the wrong place is noticed.
`ServedInv`: the worker that a process has, will publish or has published is made
of texts that were there during its call, whatever was saved meanwhile, unless
it took a spoiled one. What a hit returns can then be followed back through the
expansion, the binary, the identity and the key to the call's own inputs.

`WarmCallsRunNothingHolds` has no hypothesis. It relates two calls with any
others between and beside them. The state is `Quiet` while some call that began
with all others idle has seen no save. Then (`SameWorker`) everybody in a call
reads the same inputs, and leads to the same identity as the lookup file; and
(`AnswersAreKept`) what anybody holds is stored, or about to be. `Safe` says
what stored means, with two places to store in: every response on its own, or
the batch, which counts only while nobody is about to remove it. A call that
ends while the state is quiet leaves it `Prepared`; that survives failures and
kills of others, which remove at most a batch that they then have rewritten as
single responses; and `WarmCall` follows the next call from there, place by
place.

**CMakeBackendProofs.** `TypeCorrect`, `OneAtATimeHolds`, `BuildsAreOwnHolds`.
The last needs, as the run does, that a behaviour in which configuring may fail
uses one command (its hypothesis `StableCommands`). `LockInv` is one driver behind
the lock. `RecordInv`: unless a driver is about to record it, a recorded
command is the one whose values CMake's cache has; a torn or absent file agrees
with no command. `ProgressInv` follows the driver's wish through
`CMakeLists.txt`, the skipped or performed configure step and CMake's cache to
the target. `WantsInv`: commands are those in use, and a user's own
`CMakeLists.txt` is what the drivers at work want.

**ToolchainProofs.** `TypeCorrect`, `CommandsRunHolds`,
`CompletedIsConsistentHolds`. `LinkInv`: a toolchain that is there is whole, or
known to be torn; links lead to whole or torn ones, commands are linked only
while `current` is there, and so is what a script has read and will link, as
only an uninstall that runs alone, and after it has unlinked the commands, takes
toolchains apart. `AloneInv`: unless scripts overlap, all but one are
idle. `PlanInv`: which commands belong to which operation. `AimInv`: what a
script that is alone has done of its operation so far, in terms of the links it
found, and therefore what is done when its last command is over.

**EmitModulesProofs.** `TypeCorrect`, `KilledRunIsRedoneHolds`,
`SuccessMeansCheckedHolds`, `NoOpIsSkippedHolds`, `EmitMatchesCleanHolds`.
`StampsInv`, unless a source was saved between being read and being stamped: a
run's stamps are those of the graph it loaded, agree with its texts as long as
they are current, and are no older than the stamp file's. `Listed`, of each
stamp file: no stamp is from the future, and while all of them are current,
every module a listed one imports is listed. So a stamp file that passes for
current is closed under imports and has the entry: it contains the whole graph,
of which `GraphIsLeast` says it is the least such set, and no stamp in it has
moved. Then no source of the run has changed, which is what the theorem says of
a run that is killed before it has recorded its sources. Recursion plays no
part: reachability is the least fixed point.

The other three rest on `EmissionInv`, and on the hypothesis `DomainsAreStable`:
a module and what it imports decide whether only macros need it. Where an edit
elsewhere moves it into the build, the code neither checks nor emits it (section
6); TLC evaluates the hypothesis in both runs. `RecordInv`: to each stamp file
belong sources it `Vouches` for, those of the last run that wrote it, all of
whose modules were accepted; a module whose stamp has not moved has the text it
had there. If the edits are all that happened, an artifact whose module and
imports have not moved is what a clean build would write (`Intact`), as two
sources that agree on what a module reaches have the same artifact
(`SameArtifact`). `WrittenInv` carries this through a run: its modules are
checked, and every artifact it is done with is right, rewritten or `Intact`.
`UneditedInv` and `ReplacedInv` are the counterpart where only deletions and
upgrades between runs happen: the sources are the first ones, and the manifest
decides. A file that is deleted under a run is then missing, or the run writes
it again; it is never wrong. `OkInv` is what a success leaves. The hypotheses on
`Tolerated` are those of the properties: no save while the index loads (a
finding of section 6); for the last two, no deletion together with an edit
(`emit_deleted_and_edited`); and `EmitMatchesClean` for one of the two commands
(`OneMode`), as in the run, since both write the same files.

**MacroWorkerProofs.** `TypeCorrect`, `NoStraysHolds`, `FailuresAreOwnHolds`,
`AnswersAreOwnHolds`. The invariant follows the mutex. `Held`: who holds it is
in a call and talks to a process that has not been waited for. `Served`: a
session names a process of its build; a request to expand goes to the process
of the session, a greeting to one that no session names. `Mail`: while the
compiler lives, every process rests with empty pipes but the one that was asked,
whose pipes hold the request in flight or its answer, and the one that was told
to stop. This is why a late answer is never read: `Retire` reaps the process
with its pipes. `Blame`: an exchange whose process is dead, hung, of another
build or has written nonsense is blamed already, so when `request` or `expand`
fail there is somebody to blame (`Answers`). `NoStrays` is inductive on top of
it.

**NativeHeaderCacheProofs.** `TypeCorrect`, `TrustedIsWholeHolds`,
`WarmScansAreLoadedHolds`, `ImplementsHolds`. The second and the third have the
hypothesis `Calm` of every scenario: only the import's own header is saved
during a scan, and a behaviour has kills or overlapping calls, not both. All
scenarios of the run satisfy it. `Past`: keys and stamps are no newer than the
headers, so that a save makes all stamps on disk old. `Sound`: as long as a
process's key is current, every dump it has was made from the headers as they
are, and the files it has written before the one it writes are whole or being
written again; if it is alone, it scans because the stamps are not current, and
they are not before it writes them itself. `Whole` is `TrustedIsWhole` without
the test for the files, which follows: `.deps` comes last but one in `Order`,
when `Sound` has all three dumps. A process that is killed in the middle was
alone, so the stamps it leaves are not current.

`WarmScansAreLoadedHolds` adds what spans calls. `Served`: if the headers as they
are have been served, their files exist and their stamps are current, or some
process has truncated the stamps and is about to write them. `Asked`: nothing
served or asked for is from the future, so a save makes it false that the
headers have been served. `Together`: who writes under the current key was asked
for the headers as they are, and so writes current stamps. `Serving` follows a
process from a hit, or through its stores, to its return; `Spared`, where calls do
not overlap, says that a call for what has been served stores no stamps, which
is why a kill cannot spoil them. The exceptions in the property are what the
proof leaves: a question may meet the stamps while they are written, or, with
four processes at once, both dumps; the run has too few processes for the
second.

`ImplementsHolds` needs more: processes take turns, and each scenario is `Apart`
(nobody is killed, and either callers lose their memory with each call or
there is one caller) or `Sole` (only the import's own header is saved, whoever
calls and is killed). The first three scenarios of the run satisfy it; what
happens without it is the finding `native_cache_stale` and the stale `.scan`
after a kill. Of the fourth, with overlapping calls, the theorem says nothing:
there the property needs that three calls never overlap (section 3).

`SoleInv` is the invariant of the second kind. All that can differ between two
scans of one key is which newer text of the import's own header they saw, so
nothing has to be said about memory and disk being as old as each other.
`KeptOf`: whatever dump, parsed scan or memory is kept under a key shows that
key's text or a newer one. `Holding`: so does what a process has; it finds
current stamps under its own key only, and whole dumps beside them. A question
has its key from the header it asks about, so no answer is older.

`ServiceInv` is that of the first kind, where included headers change and the
key does not tell. `Settled`: current stamps vouch for everybody's memory and
for the parsed scan too, unless that is next to be written. `Trusting`: stamps
that a lookup finds current are those of its own key, and stay so while the key
is current. `Honest`: what a process has, or is about to load, is no older than
its question. `Settled` is where the hypotheses enter: when stamps are written,
all other memories are empty.

Proofs have one lemma per invariant with one step per action, and a temporal
step at the end; a lemma that is used by several theorems is stated once.

## 6. Where the code disagrees with its documentation

Four have a run that TLC refutes; `PROJECT.json` quotes the documentation.

- `lsp_close_unsaved`: closing a document that exists only in the editor takes
  a module away; the open importer is not queued, for its index no longer
  contains the module, and keeps the report of before.
- `emit_deleted_and_edited`: the manifest is consulted only when no source
  changed; a missing artifact of an unaffected module is not written again.
- `macro_worker_idle_death`: a worker that is dead when it is written to kills
  the compiler by SIGPIPE, where the documentation promises a diagnostic.
- `native_cache_stale`: a server's scan in memory is returned because the
  stamps on disk are current, although another process has renewed them since;
  the documentation says a scan is trusted only after its stamps are checked.

Others can be read off the models, and are listed as hazards in
`PROJECT.json` with a note instead of a run:

- An edit that closes an import cycle makes the load throw for every module on
  it; `affected_open_documents` swallows that, and the other open documents keep
  a report without the cycle.
- An edit of `dudu.toml` alone is skipped by `emit-modules`, although CMake
  starts the command for it.
- A source saved between being read and being stamped is recorded as emitted.
- The manifest's stamp of the compiler is taken when the manifest is written
  (`cli_compile_command.cpp:249`, called at 352). A compiler that is replaced
  while a run is under way is recorded as the maker of what the old one has
  generated, and the next run skips. TLC finds `EmitMatchesClean` violated once
  `upgrade during run` is tolerated.
- A module only a macro needed becomes ordinary target code through an edit of
  its new importer, and is neither checked nor emitted.
- A header saved while a macro worker is made leaves a worker of the old
  declarations, or of the new header under the old one's identity, to the calls
  that come after (`project_index.cpp:268`, `macro_worker_build.cpp:144`, 254
  and 274, `macro_worker_compile.cpp:320`). TLC finds `AnswersAreCurrent`
  violated without the exception for such calls.
- What macro workers are made of beyond that is in no key: the text of the C++
  sources of a package's manifest (only their names are hashed,
  `macro_worker_build.cpp:149`), of headers that the imported one includes, and
  of headers that are not imported as a path (101). `docs/macros.md:493-496`
  says that native host dependencies participate in the worker binary's key.
- A configure command that failed is used by the build with the command of
  before it.
- An uninstall that is killed while `rm -rf` removes the state tree, or cannot
  remove all of it (`install.sh:484`), may leave a version with `bin/dudu` and
  without other files. The next install of it takes it for whole (582), and
  links commands to it; if `bin/dudu` went first, `mv` puts the new toolchain
  inside what remains (601), and the commands lead nowhere.
  `docs/known-limitations.md:24` calls update, rollback and uninstall atomic.
  TLC finds `CommandsRun` violated without its exception for such versions.
- Three overlapping scans of one header can leave a parsed scan without an AST
  beside current stamps.

## 7. What is only model-checked, and what is not modelled

Only model-checked: every liveness property (`EventuallyFresh`,
`ShutdownCompletes`, `GetsReturn`, `CallsReturn`, `WorkersFollow`, `CallsEnd`),
since the prover handles neither fairness nor ENABLED; and `Implements` of
`NativeHeaderCache` in the run's scenario with overlapping calls. Every
other property of a passing run is the subject of a theorem, some under the
hypotheses that section 5 names; the runs check them on instances of which the
hypotheses hold.
What `Reach` and `Closure` compute is stated by their fixed points, without
recursion.

Not modelled inside modelled parts: read-only requests, `initialize` and the
wire format (A); the content of an index and the fallbacks around the cache
(B); the text of the generated C++, and `--filter` and `--no-capture` of the
test command, which change `test_harness.cpp` and no stamp (C); message
contents, capability scopes and the frame limits (D); the encoding of cache
entries, staging directories that a killed process leaves, more than one
package (E, F); several imports in one scan, their isolated repetition and
scans for macros only, and file systems with coarse time stamps (G); the
artifact's copy for `-o`, `ctest`, project templates (K); downloads, checksums,
native dependencies, the shell profile (L). An exception thrown in
the diagnostics thread outside its guarded part would end the process; the
model has no such step. `clear_language_server_module_cache` empties overlays,
last good indexes and the cache in turn, and the overlays are set again later;
the model takes them as one.

Not modelled: H, I and J of section 1 (planned below); within M, the LSP's text
synchronisation (incremental edits are pure functions on text), its transport
and read-only requests, macro capabilities, hygiene and bridges, the header
scanner and source text interning; and the lexer, the parser, the formatter,
semantic analysis and C++ generation, which make up most of the lines. They
are sequential and pure, and a model would repeat the program.

## 8. The plan

In this order:

1. `Dependencies` (J): clone, fetch, checkout and `dudu.lock`, with a command
   that fails or a driver killed in between. Abstract specification: the lock
   file names what is checked out.
2. `ModuleLoader` (H) and the last good indexes (I), composed with
   `IndexService`: a fallback is never newer than what failed.
3. Composition of A and B: jobs that ask `IndexService` instead of reading the
   disk in one moment; of C and K: the emission that CMake starts.

Theorems to prove next: `Implements` of `NativeHeaderCache` for two overlapping
calls, which must use that there are no more than two; that the jobs of A, once
they ask `IndexService`, keep `FreshInv`.
