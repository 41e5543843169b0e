# Verification project for slivka's job-tracking core

TLA+ models of the parts of slivka that pace and classify job polling,
TLC configurations that check them on small instances, and TLAPS proofs of
their main invariants for every value of the constants.

## 1. Inventory

The implementation under `src/` is one file, `src/slivka/utils.py`. The
Executor, CommandOption, Job and FileResult classes that the spec describes
are not under `src/`; only their tests are (`src/tests/executors`). What
those classes do is therefore taken from `spec.md` and the tests, and every
definition built that way is marked `spec_modelled` in `PROJECT.json`.

| Component | Where | State it keeps | Operations |
|---|---|---|---|
| BackoffCounter | utils.py 27-62 | `_tries`, `current`, `_counter` (the shared `itertools.repeat(0)` or a `reversed(range(current))` countdown), `max_tries` | `__init__`, `__next__`/`next` (restarts via `reset()` on StopIteration), `failure`, `reset`, `give_up` |
| JobStatus | utils.py 117-132 | none (an IntEnum with 11 members) | `is_finished` |
| Singleton | utils.py 14-24 | class-level dict of instances | `__call__` (check, then create and store), `instance` |
| lazy_property | utils.py 66-78 | the value cached in the instance `__dict__` | `__get__` (compute, store under a possibly mangled name) |
| YAML loader with `!include` | utils.py 81-114 | `root_path` of each loader | `_include_constructor` (open the file, load it recursively, walk a `/` key path), `_mapping_constructor` |
| Status poller | spec 2, 5, 6, 7 (not in `src/`) | per job: recorded status, its BackoffCounter, an outstanding query | tick: `next()`, query `get_status` at delay 0, `reset()` on success, `failure()` on error, ERROR on `give_up` |
| Executor / CommandOption | spec 4.1, 4.2; tests | `bin`, ordered options, `qargs`, `env` | `get_options`, submit-and-create-job |
| Job / FileResult | spec 4.3, 4.6; tests | `job_id`, `cwd`, FileResults | `status`, `result`, `file_results` |

How they interact: the Executor renders the command, submits it through a
backend and returns a Job; the poller owns one BackoffCounter per job,
calls `next()` on it every tick and queries the backend when the delay is
0. It calls `reset()` after a successful answer and `failure()` after a
transient error, and it records ERROR once `give_up` holds. Recorded
statuses are classified by `JobStatus.is_finished`. Configuration is read
once by the include-aware YAML loader into a Singleton settings object.

What is hard:

- **The counter's protocol.** `failure()` and `__next__` pass an iterator
  between them. `__next__` handles the end of that iterator by calling
  `reset()`, and `reset()` also clears the try count (line 40). Whether a
  poller ever gives up therefore depends on how its `next()` and
  `failure()` calls interleave.
- **Asynchronous answers.** Spec section 5 lets a poller offload
  `get_status` to workers. The loop then keeps ticking the counter while a
  query is outstanding.
- **Boundaries.** `max_tries = 0`, the saturation at `max_tries`, and
  `1 << tries` with the default of 64.
- **Late answers.** An answer delivered by a worker may be older than the
  backend's state when it is applied.
- **Concurrency in the Singleton.** Its check-then-store runs without a
  lock.
- **Name mangling in lazy_property.** The cache key is built from the
  class the attribute is read through, not from the class that defines it.
- **Recursion in the loader.** `!include` has no guard against cycles, and
  each nested loader resolves paths against its own file's directory.

Correctness properties per component:

- **BackoffCounter.** After the n-th failure, `next()` yields 2^n-1, ..., 0
  and then 0 for ever. `give_up` holds exactly after `max_tries` failures
  in a row. `reset()` restores a fresh counter.
- **Poller.** A transient failure never marks a job finished. A recorded
  status follows the backend forward, possibly late, or becomes ERROR, and
  never changes once finished. A job the backend has finished is eventually
  recorded finished, either by a successful query or by giving up.
- **JobStatus.** The finished/unfinished split.
- **Singleton.** All callers get the same instance.
- **lazy_property.** The initializer runs at most once per instance.
- **Loader.** A load returns what the include semantics give, and no
  file is loaded inside its own load.
- **Executor.** Rendering is a pure function of (options, values), keeps
  the option order, and never splits a substituted value.

The hazards are listed, each at its line, in `PROJECT.json` under
`hazards`.


## 2. Modules

| Module | Models | Notes |
|---|---|---|
| `JobStatus` | utils.py 117-132 | `StatusValue` (member to int), `JobStatus`, `IsFinished` |
| `BackoffCounter` | utils.py 27-62 | the counter as a record `[tries, current, gen, remaining]`; operators `NewCounter`, `CounterNext`, `CounterFailure`, `CounterReset`, `GiveUp`; a component spec where one owner calls the methods in any order |
| `JobPoller` | spec-modelled poller composing `BackoffCounter` (by `INSTANCE`) and `JobStatus` | `Wait`, `Poll` (blocking query), `Issue`/`Query`/`Deliver` (asynchronous query), `BackendStep` |
| `JobTracker` | spec 2, 3, 7 | the abstract promise about recorded statuses; `JobPoller` refines it |
| `Singleton` | utils.py 14-24 | `Call` (the membership test), `Create` (construct and store), `Return` (read the dictionary again) per thread |
| `LazyProperty` | utils.py 66-78 | `ReadCached` (the instance-dictionary hit), `ReadCompute` (`__get__`) |
| `IncludeLoader` | utils.py 81-114 | the stack of nested loaders: `ConstructScalar`, `Include`, `Finish` |
| `BackoffCounterProofs` | proofs | `TypeCorrect`, `CountdownHolds` |
| `JobPollerProofs` | proofs | `PollerInvariant`, `PollerTypeCorrect`, `FinishedJustified`, `TriesCounted`, `Refinement` |
| `SingletonProofs` | proofs | `StableAfterFirstCallsHolds`, `InstancesWithinThreads` |
| `LazyPropertyProofs` | proofs | `KeysAgreeIffPrivateUse`, `InitializerOnceWhenKeysAgree`, `InitializerOnceUnderPrivateUse` |
| `IncludeLoaderProofs` | proofs | `IncludesFollowCallersHolds`, `AcyclicIncludesLoadedOnceHolds`, `RecursionErrorOnlyOnCycles` |
| `MC_*` | TLC instances | constants for the runs |

### How the counter corresponds to the code

`_counter` is either the shared infinite `repeat(0)` (`gen = "repeat0"`) or
the countdown `reversed(range(current))` that `failure()` builds
(`gen = "countdown"`). The countdown is represented by `remaining`, the
number of values it still yields. It yields `remaining - 1` next and raises
StopIteration at 0. `CounterNext` models the whole `__next__`: the value
taken from the iterator, or `reset()` followed by `next(_zero_gen)` when
the iterator is exhausted. `1 << tries` is `2^tries`. Python integers do
not overflow, so no width is imposed.

### How the poller corresponds to the spec

The state is:

- `status[j]`: the recorded status.
- `bstatus[j]`: the backend's own state of the job.
- `counter[j]`: the job's counter.
- `inflight[j]`: whether a query is outstanding.
- `answer[j]`: the answer a worker holds and has not delivered yet.
- `failStreak[j]`: an auxiliary count of failed queries since the last
  success, saturated at MaxTries. It is used only by the properties.

The poll loop ticks a job while its recorded status is not finished
(`Tracked`). Each tick calls `next()`. With a positive delay, or with a
query outstanding, that is all the tick does (`Wait`). At delay 0 the tick
either queries and handles the answer in the same step (`Poll`,
`Async = FALSE`) or hands the query to a worker (`Issue`). The worker later
calls `get_status` (`Query`) and takes the backend's state at that moment,
or an error. A later `Deliver` applies that answer, possibly stale by
then, to the counter as it is at that time. A success records the answer
and calls `reset()`. A failure calls `failure()` and records ERROR if
`give_up` holds afterwards. The backend moves a job from QUEUED to RUNNING
to a terminal state, or to DELETED.

`JobTracker` says what any tracker promises, whatever its pacing. The
backend moves a job forward in the lifecycle of spec 3 (`Stage`).
`Observe` records, for an unfinished job, a state no earlier than the
recorded one and no later than the backend's, and terminal only if it is
the backend's own. `Abandon` records ERROR for an unfinished job.
`JobPoller` refines it with the identity mapping on `status` and
`bstatus`.

### How the helpers correspond to the code

- **Singleton.** `__call__` is three steps of the calling thread: the
  membership test (line 18), construct-and-store (line 19), and the
  second read of the dictionary that is returned (line 20). `instance`
  (lines 22-24) is the same call. One class is enough, because the
  dictionary is keyed by class and classes do not interact. Instances are
  numbered in creation order.
- **lazy_property.** `lazy_property` defines no `__set__`, so Python looks
  the instance dictionary up first and calls `__get__` only on a miss.
  Names are abstracted to their structure. A key is `<<a>>` for a name
  that is not mangled, and `<<a, n>>` for `'_' + n + a`. A class name `n`
  is the pair `<<u, c>>`, where `u` is `"_"` for a name with leading
  underscores and `""` otherwise. Python's lookup key `LookupKey` is
  mangled with the defining class's name, leading underscores stripped.
  `StoreKey` is the key of line 76, built from `owner`. Every call of the
  initializer yields a new value.
- **Loader.** Files are mappings over two keys. One key may hold an
  `!include` directive, given as a file reference (path segments,
  possibly `..`) and the fragment after `#` split at `/`. `stack` holds the
  loaders on the Python call stack, each with its `root_path`, the mapping
  built so far, and the key path its caller will follow.
  - `Include` is lines 91-96: it joins the path, raises FileNotFoundError
    for a missing file, raises RecursionError at the recursion limit, and
    otherwise starts a nested load.
  - `Finish` is lines 97-99 with `_mapping_constructor`: it walks the key
    path, raising TypeError when it indexes a scalar.
  - Every file content over the given files is an initial state.

## 3. Runs

| Run | Config | Expect | What it shows |
|---|---|---|---|
| `counter_contract` | `MC_BackoffCounter.cfg` (max_tries 6) | pass | `TypeOK`, and `CountdownContract`: every `next()` yields the previous delay minus 1, floored at 0 |
| `counter_zero_tries` | `MC_BackoffCounter_zero.cfg` (max_tries 0) | violation | `NotGivenUpBeforeFailure` fails in the initial state: `give_up` already holds before any `failure()` (spec 4.5 says after the first) |
| `poller_sync` | `MC_JobPoller_sync.cfg` (2 jobs, max_tries 3, blocking) | pass | `FinishedIsJustified`, `TriesCountFailures` (the try count equals the number of failures in a row), `FinishedJobEventuallyRecorded` |
| `poller_async` | `MC_JobPoller_async.cfg` (asynchronous) | pass | `TypeOK`, `FinishedIsJustified`, `TrackerSpec` (the poller implements `JobTracker` although answers arrive late) |
| `poller_async_liveness` | `MC_JobPoller_async_live.cfg` | violation | `FinishedJobEventuallyRecorded` fails (see below) |
| `singleton_calls` | `MC_Singleton.cfg` (3 threads, 2 calls each) | pass | `StableAfterFirstCalls`: once every thread has completed a call, the stored instance never changes |
| `singleton_race` | `MC_Singleton_race.cfg` (2 threads, 1 call) | violation | `SameInstanceForAll`: two overlapping first calls return two instances |
| `lazy_defining_class` | `MC_LazyProperty.cfg` | pass | `InitializerRunsOnce` for plain, private and dunder names read through the defining class |
| `lazy_subclass` | `MC_LazyProperty_subclass.cfg` | violation | a private lazy property read on a subclass instance is recomputed on every read |
| `lazy_underscore_class` | `MC_LazyProperty_underscore.cfg` | violation | a private lazy property of a class named `_Base` is recomputed on every read |
| `include_reference` | `MC_IncludeLoader.cfg` | pass | `LoadMatchesReference`: for all 441 contents, the nested loaders return what the recursive reference definition `RefLoad` gives, exceptions included; `IncludesFollowCallers`: every nested loader on the stack reads the file that its caller's current directive names, resolved against the caller's own file, and will follow that directive's key path; `AcyclicIncludesLoadedOnce`: whenever the include graph of the contents is acyclic, no file is on the stack twice |
| `include_cycle` | `MC_IncludeLoader_cycle.cfg` | violation | `NoFileLoadedWithinItself`: a file that includes itself, directly or through another, is loaded inside its own load |

The violation found by `poller_async_liveness` goes like this:

1. The poller issues a query at delay 0. The countdown is now empty but
   has not yet raised StopIteration.
2. The loop ticks once more while the query is out. `__next__` hits
   StopIteration and calls `reset()`, which sets `_tries = 0`.
3. The error arrives and `failure()` sets `tries = 1` and delay 2.

This repeats for ever. `give_up` is never reached, and a job whose backend
has finished but whose queries keep failing is never recorded finished.
The same mechanism makes `TriesCountFailures` false in asynchronous mode.

The three helper violations are findings against spec 9:

- `singleton_race`: the check and the store of `Singleton.__call__` are
  separate steps and there is no lock. A thread may also return an
  instance other than the one it built, because line 20 reads the
  dictionary again.
- `lazy_subclass` and `lazy_underscore_class`: line 76 uses
  `owner.__name__` unstripped, while Python mangles with the defining
  class's name, leading underscores stripped.
- `include_cycle`: nothing records the files being loaded.

`LoadMatchesReference` compares the loader's explicit stack with
`RefLoad`, a recursive function written from the include semantics:
resolve the directive against the directory of the file it is written in,
load that file in full, then index it by the key path. It also shows that
in the code each nested loader gets the included file's directory as
`root_path` (lines 82-88), which matters only for includes two levels
deep in different directories.

Bounds:

- Two jobs are enough to interleave the poller's work on different
  counters.
- `max_tries = 3` makes the counter escalate through delays 2, 4 and 8 and
  then saturate.
- `max_tries = 6` in the component run gives countdowns of up to 64 values
  and 133 distinct states.
- The asynchronous poller run has 492,804 distinct states.
- Three threads with two calls each cover a race among the first calls
  and later calls that must not construct.
- Two reads of each attribute of each instance separate "computed once"
  from "computed on every read". The passing run has two instances of the
  defining class. Each violation run has one instance: of the subclass, or
  of the class named `_Base`.
- Two files in two directories, four references ('a', 'b', 'sub/b',
  '../a') and four fragments cover:
  - a missing file, from either directory;
  - self and mutual inclusion;
  - a key path into a nested include;
  - indexing into a scalar.
  A recursion limit of 3 nested loaders is reached by any cycle.

Larger values add only longer countdowns, more threads in the same race,
or longer paths through the same cases.

Fairness: `WF(Tick(j))` for each job, because the poll loop visits every
job, and `WF(Query(j))` and `WF(Deliver(j))`, because a worker eventually
runs and answers. The backend is not assumed to finish any job, so the
liveness property is stated as "a job the backend has finished is
eventually recorded finished". The helper runs check safety only.

Deadlock checking is off for every run that passes, because each of
these systems really stops:

- The poller stops once every job is recorded finished.
- The threads stop after their bounded calls.
- The reads stop after their bounded number.
- A load stops when it returns or raises.

Each property of a passing run has a mutant in `PROJECT.json`: a plausible
fault in a definition that models code. Each mutant is something TLC must
detect:

- a `failure()` that does not saturate;
- a countdown one value too long;
- `give_up` one try early, or never;
- a `reset()` that keeps `_tries`;
- a `__next__` without the StopIteration path;
- a poll loop that never drops a finished job;
- a Singleton call without the membership test;
- a `lazy_property` that also mangles dunder names;
- a nested loader that keeps its caller's `root_path`, which then loads a
  file inside its own load although the include graph is acyclic;
- a nested loader handed to its caller without the fragment's key path;
- a caller that stores a failed key-path lookup instead of raising it.

## 4. Proofs

- `BackoffCounterProofs`:
  - `TypeCorrect` proves `Spec => []TypeOK`.
  - `CountdownHolds` proves `Spec => CountdownContract` for every
    `max_tries`.
  - Both rest on the inductive invariant `CounterOK`: the countdown holds
    exactly `current` values, at most `2^tries`, and the zero iterator is
    held only by a counter with `tries = 0`. `CountdownContract` does not
    hold inductively without it.
  - One lemma per method (`NextOK`, `FailureOK`, `ResetOK`) shows that the
    method preserves the type and `CounterOK`.
- `JobPollerProofs`:
  - `PollerInvariant` proves `Spec => []PollerInv`.
  - `FinishedJustified` proves `Spec => []FinishedIsJustified` for any set
    of jobs, any `max_tries` and both query modes.
  - `FinishedIsJustified` alone is not inductive. `PollerInv` adds three
    facts:
    - `counter[j].tries <= failStreak[j]`, since after a failure the proof
      must know that the try count `failure()` reaches is at most the
      number of failed queries in a row;
    - `CounterOK` for every counter;
    - that a terminal answer held by a worker is still the backend's
      state, because the backend never moves a finished job.
  - The `next()` on the StopIteration path only lowers the try count,
    which is why the bound survives asynchronous delivery.
  - `TriesCounted` proves `~Async => (Spec => []TriesCountFailures)`. Its
    invariant `SyncInv` adds that no query is out and that a counter in
    countdown never has an empty countdown. A tick that drains the
    countdown queries at once, and the answer replaces the counter, so
    `next()` never takes the StopIteration path that would reset the try
    count. `PollerInvariant` is used as an already proved invariant.
  - `Refinement` proves `Spec => TrackerSpec`, the abstract tracker under
    the identity mapping, in both query modes. Its invariant `TrackInv`
    places a held answer between the recorded status and the backend's in
    the lifecycle, and says that a job with a query out is unfinished.
    With it, a late answer maps to the tracker's `Observe`, a give-up to
    `Abandon`, a backend step to `Move`, and every other step to a
    stutter. `MovesForward` shows that the backend's moves go forward in
    the lifecycle.
  - The counter lemmas are reused through `INSTANCE BackoffCounterProofs`.
- `SingletonProofs`:
  - `StableAfterFirstCallsHolds` proves `Spec => StableAfterFirstCalls`
    for any set of threads and any number of calls.
  - Its invariant `SingletonInv` says that a thread about to create an
    instance has not completed a call yet, and that an instance is stored
    once a thread is about to return or has completed a call. Then the
    only step that writes `stored`, `Create`, is not enabled once every
    thread has completed a call.
- `LazyPropertyProofs`:
  - `InitializerOnceWhenKeysAgree` proves
    `KeysAgree => (Spec => []InitializerRunsOnce)` for any classes, names,
    instances and number of reads. `KeysAgree` says that the key line 77
    stores under is the key attribute lookup uses, for every instance and
    every lazy property its class inherits.
  - Its invariant `LazyInv` says that once an initializer has run, the
    instance dictionary holds the looked-up key. Then the next read is a
    hit. `KeysAgree` holds in the run `lazy_defining_class` (checked by
    TLC), and the runs `lazy_subclass` and `lazy_underscore_class` show
    how the code breaks it.
  - The dictionary store is written as `SetItem`, an explicit function,
    rather than with TLC's `:>` and `@@`, which the provers cannot expand.

- `JobPollerProofs` also proves `PollerTypeCorrect`, `Spec => []TypeOK`
  for the poller, from `PollerInv`.
- `LazyPropertyProofs` also proves:
  - `KeysAgreeIffPrivateUse`: `KeysAgree` holds exactly when every
    instance that inherits a private lazy property belongs to the defining
    class itself, and that class's name has no leading underscore
    (`PrivateUseInDefiningClass`). This characterises when line 76
    agrees with Python's mangling. The proof splits on whether the class
    name is underscored and compares the key tuples component by component.
  - `InitializerOnceUnderPrivateUse`: `PrivateUseInDefiningClass =>
    (Spec => []InitializerRunsOnce)`, from the two theorems above. This
    states the safe usage in terms of the program, not of the keys.
- `IncludeLoaderProofs`:
  - `IncludesFollowCallersHolds` proves `Spec => []IncludesFollowCallers`
    for any files, contents, directives, key orders and recursion limit.
  - Its invariant `FrameInv` adds to the property that the stack is a
    sequence and that every frame has the loader's fields, a file among
    `Files`, a `root` equal to that file's directory (lines 82-88), and a
    key cursor within `1..Len(KeyOrder)+1`. `IncludesFollowCallers` is not
    inductive alone: `Finish` returns to a caller whose `root` must be its
    own file's directory for the next `Include` to resolve correctly.
    TLC checked `FrameInv` on the 1307 states of `include_reference`.
  - One lemma per action (`ScalarFrames`, `IncludeFrames`,
    `FinishFrames`) shows that `FrameInv` is preserved. `KeptFollow` says
    that a step keeping the lower frames and the loaded file, root, key
    and path of the top frame keeps `IncludesFollowCallers`.
  - `ConstructScalar` writes the top frame as the record `Top` instead of a
    nested `@` inside `EXCEPT`, which means the same and which tlapm
    expands correctly.

- `IncludeLoaderProofs` also proves what an acyclic include graph buys.
  `IncludesAcyclic` says that some ranking of the files into
  `0..Cardinality(Files)-1` decreases along every include. For finite
  files this is exactly acyclicity.
  - `AcyclicIncludesLoadedOnceHolds` proves
    `Spec => []AcyclicIncludesLoadedOnce`: with an acyclic graph, no file
    is loaded inside its own load. The `include_cycle` run shows the
    other side: with a cycle, a file is loaded within itself.
  - `RecursionErrorOnlyOnCycles` proves the action property that no
    `Include` step raises RecursionError when the graph is acyclic and
    `MaxDepth >= Cardinality(Files)`. So when the Python stack holds a
    loader per file, a RecursionError from a load means a cycle. No run
    checks it. TLC checked it on the `include_reference` instance with
    `MaxDepth` 3 and with the tight bound 2. Without the depth hypothesis
    it fails at `MaxDepth` 1.
  - Both rest on `AcyclicInv`: in every integer ranking of the graph,
    the files on the stack descend by at least one per level of nesting.
    This follows from `IncludesFollowCallers`, since each loader reads a
    file its caller includes. But it needs an induction over the stack,
    so it is kept as an invariant of its own. A pushed loader ranks below
    the old top. Every other step keeps the files below the top, which
    is what `KeptDescending` says. TLC checked `AcyclicInv` with ranks
    in `0..3`.
  - `RecursionErrorOnlyOnCycles` also uses that a load is in progress
    while a loader is on the stack (`NextLoading`). At the limit, the top
    loader's file has rank at least 1, because it includes a lower file.
    So the depth is at most `Cardinality(Files) - 1`.
- `SingletonProofs` also proves `InstancesWithinThreads`:
  `made <= Cardinality(Threads)`. However the unlocked check and store
  interleave, at most one settings object per thread is constructed. Its
  invariant `CountInv` bounds `made` by the number of threads past their
  first check (`Started`). `Create` is the only step that constructs, and
  it moves a thread that had not started into `Started`. It is a theorem
  only: no run checks it. `CallWithoutCheck` would break it and
  `StableAfterFirstCalls` at the same step, so one mutant cannot tell the
  two apart. TLC checked `CountInv` on the `singleton_calls` instance.

Assumptions:

- `MaxTries \in Nat`.
- `ShiftAssumption`: `2^t \in Nat` for `t` in `0..MaxTries`. This is a fact
  of arithmetic. The provers have no axioms for `^`, so it is stated as an
  assumption, and TLC evaluates it on every run.
- `IncludeAssumption` includes `IsFiniteSet(Files)`, and
  `SingletonAssumption` includes `IsFiniteSet(Threads)`. A process has
  finitely many files and threads. The cardinality bounds need these.
- `PollerAssumption` restates both for the poller's constants, with
  `2^t >= 1`, which `TriesCounted` needs.

Only model-checked:

- The liveness property `FinishedJobEventuallyRecorded` and its violation.
  Liveness under fairness is out of the prover's reach.
- `LoadMatchesReference` of the include loader. It compares the loader
  with `RefLoad`, a recursive function, and the mapping built by
  `ConstructScalar` with a fold (`FoldLeft`, itself a recursive function
  over subsets in the library). To prove it, the provers would need to show
  by induction over the data what these recursive functions compute for
  every input. The library's induction theorems take an operator as a
  parameter, and the installed provers cannot instantiate one. The part
  of it that needs no induction, that every nested loader reads the right
  file with the right key path, is proved as `IncludesFollowCallersHolds`.

## 5. Not modelled yet, and the plan

Planned next:

- `Executor.tla` (spec-modelled): `CommandOption` rendering and
  `get_options` as operators. The tokenizer is modelled by what it does
  over a tiny alphabet and checked against a reference definition over
  bounded templates and values. Submit-and-create-job returns a Job or a
  SubmissionError, never a partial Job. `Job.file_results` is the ordered
  concatenation of the FileResults' paths. This code is not under `src/`,
  and the map can hold only a limited share of spec-modelled definitions,
  so it comes after the code of `src/`.
- Concurrent first reads of a lazy property. Two threads that both miss
  run the initializer twice. This is not modelled, because no code under
  `src/` reads lazy properties from several threads.

Not modelled, and why:

- YAML scanning and parsing, which are text. Merge keys
  (`flatten_mapping`) and streams without a name (the `curdir` branch of
  line 86) are also not modelled.
- Reads of a lazy property through the class (`instance is None`), which
  return the descriptor and change nothing.
- `is_finished` counting UNKNOWN as finished is the spec's own rule
  (spec 3), not a hazard.
- The form fields, which the spec places outside this core.
- Logging and formatting.
