# QuickSWE in TLA+

QuickSWE benchmarks coding agents. A harness (the Python files at the top of
the repository) runs an agent CLI on one hundred small tasks and judges the
result with the tests of each task; the tasks themselves (`tasks/task_001` to
`task_100`) are small programs, each with one defect that its `description.md`
states. This directory holds specifications of the harness and of the tasks
whose behaviour is stateful enough to be worth a model, the TLC configurations
that check them, and proofs checked by TLAPS.

The tasks are modelled as they are, defect included. A property that the defect
breaks, and that a text of the repository promises, is checked by a run that
expects a violation; the other properties hold in spite of the defect.

## 1. Inventory

### Harness

| Part | State | Operations | Talks to |
|---|---|---|---|
| `runner.py` | a temporary work directory, the snapshot of the protected directories, the record | `run_task`, `invoke_agent`, `_run_pytest`, `_error_record` | the agent CLI and pytest (child processes), the file system |
| `multi_runner.py` | loop counters, `records`, `raw`, the `ProgressTracker`, the flag `_interrupted` | `main`, `_handle_sigint`, `save_run_results`, `aggregate`, `save_aggregate` | calls `run_task`; writes `results/*.json` |
| `report.py`, `dashboard.py` | none that lasts | load all result files, pool or pick them, render | read what `multi_runner` wrote |
| `progress_monitor.py`, `_check_progress.py` | counts parsed from a log | parse, display | read the log of a running session |
| `_cuda_runner.py`, `run_claude_cuda.py`, shell and batch files | a heartbeat thread, the list of results | one loop over `run_task` | call `run_task`, write one file at the end |

What is hard here: the agent is another process, which `run_task` waits for or
kills at the timeout, while nobody waits for its own children or kills them; it
edits the directory that is judged; Ctrl+C is
a signal handler that runs between any two statements of three nested loops;
exceptions end a session anywhere; and the files of a session are read later by
programs that see only what was completed.

What makes the parts correct: a call of `run_task` ends and its record means one
thing (a verdict on one state of the work, or an error without an agent); a
session loses nothing it counted, keeps the agents comparable, stops soon after
Ctrl+C, and its aggregate agrees with its files.

### Tasks

| Task | State | What is hard |
|---|---|---|
| 042 Raft | terms, votes, logs, commit indices, next/match indices | elections and replication interleave, links fail, leaders are deposed mid-call |
| 038 transactions | version chains, read and write sets, timestamps | four isolation levels, any interleaving of calls |
| 050 write-ahead log, 045 LSM tree | log, buffers, memtable, levels | crashes between two calls, the order of replay and of compaction |
| 011 async queue, 049 CSP channels | waiters, buffers, closed flags | suspension points, wake-ups that meet timeouts, closing |
| 018 connection pool, 026 concurrent LRU, 047 deadlock detector, 019 retry | holders, limits, orders, a wait-for graph, a shared counter | several threads between two lock regions or two calls |
| 021 red-black tree, 035 segment tree, 031 hash ring | nodes, pending additions, points | long sequences of legal calls |
| 040 collector, 041 buddy allocator | objects, roots, free lists | a collection in the middle of an allocation, blocks that split and merge |
| 043 replicated types, 044 reactive state, 024 plugins | replicas, a dependency graph, a load order | merges in any order and number, updates along several paths, exceptions half-way |
| 036 lexer, 048 parser, 029 regex, 046 unification, 037 stack machine | positions, bindings, a stack | broken input, recovery, nested parts, calls in calls |
| the other Python tasks | little or none between calls | sequential algorithms and text |
| 051-075 C++, 076-100 CUDA | data structures, GPU kernels | sequential, numeric, or a hardware memory model |

The tasks do not call one another. `PROJECT.json` lists every component with its
status, and every hazard at its line.

## 2. Modules

| Module | Models | Role |
|---|---|---|
| `TaskContract` | what `run_task` promises a caller | abstract specification |
| `Runner` | `runner.run_task` with the agent as an environment | implements `TaskContract` (checked as a refinement) |
| `MultiRunner` | `multi_runner.main` | its calls have the records of `TaskContract` as outcomes |
| `Reports` | what `report.py` and `dashboard.py` load, keep and count | extends `MultiRunner`: reads the files a session left |
| `Raft`, `Txn` | tasks 042, 038 | |
| `AsyncQueue`, `ConnPool`, `ConcurrentLru`, `Csp`, `Locks`, `Retry` | tasks 011, 018, 026, 049, 047, 019 | on the bench `Sync` |
| `Wal`, `Lsm`, `Crdt`, `Gc` | tasks 050, 045, 043, 040 | on the bench `Stores` |
| `Vm`, `Lexer`, `Reactive`, `Plugins`, `Ring` | tasks 037, 036, 044, 024, 031 | on the bench `Engines` |
| `RbTree`, `SegTree`, `Buddy` | tasks 021, 035, 041 | on the bench `MCStructures` |
| `Parser`, `Regex`, `Unify` | tasks 048, 029, 046 | on the bench `MCEngines` |
| `Sync`, `Stores`, `Engines` | the benches of what is proved about | constants are parameters |
| `Lists` | removal from a list (`queue.remove`, list comprehensions with a test) | used by several tasks |
| `MultiRunnerProofs`, `RunnerProofs`, `RaftProofs`, `TxnProofs`, `StoreProofs`, `SyncProofs`, `EngineProofs`, `NumberProofs` | | proofs, section 4 |
| `MCMultiRunner`, `MCRunner`, `MCRaft`, `MCTxn`, `MCSync` | | constants for TLC |
| `MCStructures`, `MCEngines` | | constants for TLC, and benches that extend `Stores` and `Engines` with what is only model-checked |

A bench instantiates components that share no state. Its variable `which` picks
one of them for a whole behaviour and the others stay as they began, so the
states of a run are those of its components one after another, never their
product. A property of a bench names the component it is about. `Sync`,
`Stores` and `Engines` take the sizes of their components, and the programs,
formulas and hash functions these run, as constants, so that theorems can be
about all of them.

Operators and actions named "Mutant" in the comment above them are plausible
wrong versions of the definition that follows. No action uses them: they show
that the property a mutant is paired with in `PROJECT.json` can fail.

### Runner

`pc` is the step of `run_task` that comes next; each action is one step with its
early returns. `content` is the pair of verdicts that the two groups of tests
would give on the work directory, which is all that the judgement depends on; a
test run may also time out, which counts as failed. `stray` is what the current
agent started and left: processes that hold the pipes of its output, which
`subprocess.run` waits for, and detached ones, which nobody waits for. An agent
that returns by itself may leave detached processes just as one that is killed;
`orphans` are those of earlier calls that still live. They act at any time:
`AgentActs` edits the work directory while it exists, `Wipe` deletes an entry of a
protected directory. `outlived` (the wait for the agent ended with some of its
processes alive), `wipedBy`, `suspects` and `ran` are history and steer nothing.
So `CoherentVerdict` speaks of agents that leave nothing behind; of others the two
verdicts may be about two states of the work. `StepRaises` is an exception (or
Ctrl+C) in any step inside the `try` block; the steps before it raise on their
own. `OnNt` is `os.name == "nt"`: there the child is a shell, which is the one
killed, and `subprocess.run` waits for the end of the output after the kill.

The protected directories are one set of entries: the code treats them alike. A
deleted directory counts as the deletion of all its entries. Nothing creates
entries or puts them back, and time is not modelled.

`ImplementsContract` maps `pc` to the phase of the call and `out` to its result.
`WF_vars(Harness)` is the progress of one Python thread; `KillAgent` in it is the
timeout, so an agent that never returns is killed. No fairness is given to the
agent, its leftovers, exceptions or the caller.

### MultiRunner

`pc` names the statement of `main` that runs next, `exit` how the program ended.
`raw` and `records` are the program's, `disk[agent][run]` is the file of that
agent run: `open(..., "w")` makes it torn, the end of `json.dump` whole.
A second Ctrl+C may come between `records.append` and `progress.update`: they are
two steps (`RunTask`, `CountTask`). `FirstSigint` and `SecondSigint` are the
handler, at any `pc`; `Crash` is an exception out of `run_task` or of file access. `Summary` keeps of `aggregate` the counts
its rates are quotients of. The time stamps in file names are not modelled: in
one session an agent and a run number name a file.

`WF_vars(Main)` is the progress of the main thread; a call of `run_task` ends
because `TaskContract` says so, which `Runner` implements off Windows.

### Reports

Both programs only read, so `Reports` has no actions: `Latest` and `Row` are what
`report.py` keeps of the files, `PerTask` and `TabOverall` what the dashboard
makes of them, through rates that are rounded and multiplied again. They are
evaluated on the files of every state in which a session is over.

### Raft

The cluster is synchronous: `elect_leader` and `replicate` visit the reachable
peers one after another, and each visit is a request and its response. One turn
of the loop is one action; `op` holds the visits left, so that what a call
learned at its start (the one vote request with its term, the test on
`leader.state`) is used later exactly where the code does. `partition` and
`heal_partition` only matter through which peers a call reaches, chosen when it
starts; `mayCut = FALSE` is a behaviour without link failures. Commands are
numbered, so two requests are never equal.

### Txn

Every method of `TransactionManager` runs under one lock, so it is one action. A
version is identified by its transaction. `seen` and `ranges` are history: what
reads and scans returned from the chains. A scan is of all keys; prefixes and
predicates restrict it to a part of them. `Active` and `Committed` replace the
two dictionaries: a transaction is in the one its state names.

### Wal

The log is the list of records, a record's place its LSN. A write is named by
its LSN, so `data[k]` says which write the value of `k` is from. The two
dictionaries of active transactions, `_active_txns` and `_txn_buffers`, have the
same keys, the domain of `buffers`. `CrashAndRecover` is the code's simulated
crash: it replaces the data and keeps the buffers, whose transactions may still
commit. Calls on a transaction that is not active raise and change nothing.
Recovery's replay has a closed form: the last record of `k` in the last
transaction, by id, that committed and wrote `k`.

The defect of the task is that order: recovery agrees with the data only for
keys whose writers committed in the order they began (`CommittedInOrder`).
Without that condition TLC refutes `RecoveryAgrees` at once.

### Lsm

A table is a function from keys to entries and a level a sequence of tables, as
in the code. An entry is named by its sequence number. One call is one action,
with the flush and all the compactions it causes: `Compact` is a function over
the levels, `at[m]` what there is once level `m` is reached, stopped as
`_compact` stops. `immutable_memtable` is never set by
the code and has no counterpart. Forced flushes and compactions are the
methods of those names.

The defect of the task, tombstones dropped by every merge, brings back keys
that were deleted; therefore `LiveKeysKept` speaks of keys whose last write is a
put. That `get` and `scan` agree (`ReadsAgree`) holds in spite of it: both
see the same stale entry.

### Threads and coroutines

- `AsyncQueue`: `put` and `drain` never suspend and are one step each. `get`
  suspends in `asyncio.Queue`, whose futures are modelled from how `get` uses
  them: an item stays queued until the consumer that was woken runs, and one
  that is cancelled by its timeout hands the wake-up on.
- `ConnPool`: every method holds the pool's lock, so it is one action; clients
  release once what they acquired.
- `ConcurrentLru`: one region of the lock is one action. `get` is two of them,
  the look-up and the later `move_to_end`, between which the key may go.
- `Csp`: one region of a channel's lock is one action; sleepers of the two
  conditions are queues, and one that is notified competes for the lock again.
  `WaitEnds` is the timeout of a sleeper. A call of `select` tests its cases one
  by one, without a lock, and acts on what it saw. A select of sends only goes round
  for ever once its channels are closed: `CallsEndAfterClose` excepts it by name
  (`OnlySends`), and the lists of cases of the run have one.
- `Locks`: every method runs under one mutex. Threads behave: one that waits
  calls nothing until it is granted the lock. Two kinds of report are told apart:
  a circle of two threads or more, which must be one of true waits, and a thread
  alone that took its own lock again, which the task calls a false alarm.
- `Retry`: coroutines interleave at the call of the function and at the sleep.

### Structures

- `RbTree`: a node is its key, and `NIL` a node like the others, whose parent
  and children the fix-ups use. The mirror-image branches are one definition
  with a direction; its loops have the fuel that the size of the tree justifies, and
  `NotHung` says that it is never used up. The defect of the task is a fix-up that,
  after a sibling with two black children, does not move up; a later rotation may then
  lift `NIL` into the tree, which cuts keys off. `tree.seen` records both events:
  `Balanced` holds until the first, `Ordered` says that no key is lost before the
  second and that what a search still meets is in order. After the second the model
  stops.
- `SegTree`: node `k` has the children `2k` and `2k + 1`, as in the code.
- `Crdt`: a store holds one name. An object carries the id of the replica that
  made it; the clone that a merge leaves in a store keeps that id, as the code's
  does. `seen` is history: the calls that reached a replica.
- `Reactive`: what a computed node computes is data, so that its dependencies
  can change from one run to the next. `work` holds the nodes that the nested
  loops of a `set()` in progress have still to update, so that each update is a
  step and the states in between are there to be looked at.
- `Gc`: marking stops at the roots, as the code's does. A root may be removed by hand
  although a variable holds it; `dropped` remembers those objects.
- `Buddy`: sizes are orders; the buddy is computed as the code computes it.
- `Ring`: the hash function is chosen with the initial state. A node joins or
  leaves in one step, a recursive function over its virtual nodes; `Left` and
  `Right` are the two bisections.
- `Plugins`: `resolve_order` and `load_all` as they are, the wrong way round. Which
  init functions raise is chosen afresh by every `load_all`, since each calls them
  again. Therefore a plugin may stay LOADED on one that was loaded and fails later;
  `relapsed` records whose init function did that, and `LoadedOnLoaded` excepts the
  plugins above those.

### Language tools

A source, a pattern or a program is chosen with the initial state. A step is one
turn of the tool's loop: a token, a statement, a position of `find_all`, a
goal of unification, an instruction. Inside a step, functions stand for the
code's recursion. The references are written independently of the code: the
positions of a token are recounted from the source, a parse is compared with
what the grammar gives for the text between semicolons, a match with the
language of the pattern, the bindings with the solutions of the goals. `unify` has no
occurs check, so bindings may be cyclic, and then walks over them end in
`RecursionError`, which is an outcome of `FreeVars` and `Substitute` (`Raised`,
`NoType`). Of cyclic bindings it is claimed only that the goals have no solution, and
that nothing else raises this error.

## 3. Runs

| Run | Expects | Shows |
|---|---|---|
| `runner` | pass | the verdicts fit one state of the work unless the agent's processes outlived it; leaked directories and alerts have a cause; error records involve no agent; `run_task` implements `TaskContract`, its end included (not on Windows) |
| `runner_timeout` | violation | on Windows the timeout does not end the wait: `results/claude_run3_20260405_051450.json` has 3633 s for a 600 s timeout |
| `session` | pass | durability of what is counted, balance, partial runs, Ctrl+C, counters, aggregate, termination; the reports agree with the console |
| `session_rounds` | violation | the "complete round(s)" message counts the interrupted round |
| `report_crash` | violation | `report.py` raises after a session that went well: the aggregate file has no key `agent` |
| `raft` | pass | elected leaders have a majority of votes, logs keep their shape, commands are applied once, connected nodes agree |
| `raft_majority` | violation | the defect of the task: one acknowledgement commits |
| `transactions` | pass | chains are the committed history; snapshot reads; a committed SERIALIZABLE transaction read what it commits on |
| `sync` | pass | the queue delivers all it accepted, once and in order; no sleeper of queue or channels is forgotten; the pool and the retries keep their limits; eviction order is recency order; the wait-for graph has true waits only; every call on closed channels returns but a select of sends only |
| `locks_missed` | violation | a deadlock that `try_acquire` never reports |
| `structures` | pass | recovery, levels, trees, replicas, collector and allocator: see `MCStructures` |
| `engines` | pass | the stack of callers, tokens and their positions, reactive nodes, plugins, the ring's keys: see `Engines`; parser, regex engine and unification against their references: see `MCEngines` |

An insight of `transactions`: the phantom that `description.md` of task 038
describes is visible inside a SERIALIZABLE transaction, but a transaction that
saw it cannot commit, since the second scan puts the new row into the read set
that `commit` compares with later write sets (`SerializableAtCommit`, its last
conjunct). One that scans once commits on a range that has changed.

### Bounds

- `runner`: two agents (an alert in one agent's call about a leftover of the
  other's) and one protected entry (the properties speak of each entry alone).
  The number of calls is not bounded.
- `session`: two agents, the number `--agent` can name at most; two tasks (a
  partial run that is not empty, two tabs of the dashboard); two rounds, so that
  the order is reversed once and a pause comes between. Of the records three
  kinds, the ones the counters tell apart.
- `raft`: three nodes, the least with a majority that is not all, two of which
  stand for election (`Candidates`), the third only votes and follows; `MaxTerm =
  3` lets a leader be replaced twice; `MaxRequests = 2` lets two leaders write entries
  that conflict, or one leader a log of two. `ConnectedNodesAgree` is claimed within
  these bounds only: the defect of the task can lose a committed entry, and longer
  histories or larger clusters may show more of it. That a commit index falls takes
  four requests and is not reached here (section 5); it is no property.
  `raft_majority` takes four nodes, all of which may stand, so that one
  acknowledgement is a minority.
- `transactions`: two transactions at all pairs of levels and two keys (a
  transaction can read one and write the other), one value besides "deleted".
  The properties of `Txn` compare a reader with one writer at a time.
- `sync`: three consumers (one woken, one that takes its item, one that times
  out), three clients for two connections, two users of a cache of three keys,
  three threads on two channels of which one is unbuffered (selects of a receive
  and a send, and of sends only), three threads and
  locks (the shortest circle that a release can hide), three callers of a
  function with three retries.
- `structures`: `Wal` two transactions, the least that can commit in another
  order than they begin, and seven records; `Lsm` six writes, so that a table
  moves through all three levels; any insertions and deletions of six
  keys in the red-black tree, and of ten that are filled in ascending or descending order
  and then deleted in any, which reaches the fix-up that loses keys; four elements in
  the segment tree; three replicas
  and three calls with any number of merges; a heap of three objects that
  collects at two; blocks up to order 3.
- `engines`: all sources of four characters or tokens, all programs of three
  chosen instructions, and longer ones written for numbers, operators, comments,
  recovery and calls in calls; a stack of eight places and calls four deep
  (`MaxFrames`), values up to nine (`MaxValue`); two signals and five computed
  nodes with diamonds, a memo and a node that raises; three plugins, any of
  which may raise at any of three loads (`MaxLoads`), so that a failure reaches the end
  of a chain and a plugin may fail after it was loaded; three members with two points
  each on a ring of six hashes, with at most
  six points (`MaxPoints`: points that collide are left behind, and would pile up);
  thirteen patterns on all texts of four letters; three goals over two variables.

Deadlock checking is off where the bounds stop the callers or where a program
that ended stays so: all runs but `runner` and `runner_timeout`. In those the
caller always makes another call, and deadlock is checked.

### Fairness

`Runner` has `WF_vars(Harness)` and `MultiRunner` `WF_vars(Main)`: one Python
thread goes on. `Csp` has `WF_vars(Region(t))` for each thread: whoever is awake
and wants a lock gets it in the end, since the regions are short and never wait
inside one another. No fairness is given to agents, leftovers, Ctrl+C, callers
who might begin a call, or timeouts.

## 4. Proofs

`MultiRunnerProofs` assumes `SessionAssumption` (a list of distinct agents that
is not empty, at least one task, any number of rounds, outcomes that are
verdicts or errors) and proves `TypeOK`, `RawIsOnDisk`, `RoundsBalanced`,
`PartialIsLast`, `InterruptPromise`, `NothingForgotten`, `AggregateAgrees` and, for
the programs that read the files, `ReportsAgree`. None is inductive alone. `IInv` adds

- `Control`: what each label implies for the loop counters and `completed_runs`;
- `Lengths`: how many runs each agent has when the session stands at a given
  `turn` of a round, which is what `RoundsBalanced` follows from and what makes
  the file written next a new one (`RawIsOnDisk`). It needs `OrderPermutes`:
  the order of a round is a permutation of the agents, reversed or not;
- `NoneCutOff` and `SavedRun`: no run follows a partial one, because a partial
  run implies the flag, and with the flag set every loop is left;
- `CallPending`: the task that Ctrl+C interrupts has not been counted yet.

The step lemmas are grouped by what a step can disturb: `LoopStep`, `SaveStep`,
`AppendStep` and the rest.

`NothingForgotten` and `AggregateAgrees` count records over lists of lists. `KInv`
adds to `IInv` that the whole files are the runs in memory (`FilesAreRuns`) and
that the aggregate is made from those (`AggregateIsMade`). `FlattenIs` unfolds the library's
`FlattenSeq` into lengths and places, once, from a recursive function; from it
follow what a concatenation of files adds up to (`FlattenAdds`) and that two
lists of files with the same records give the same (`FlattenAgrees`). A call of
`run_task` and a write to a file are the two steps that move the sums.

`ReportsAgree` follows from `KInv`. A tab is a sum over tasks of rounded products of
rate and number: `RoundedBack` says that each product is the count the rate came
from, `TabCounts` (by induction over the tasks) that the sum is the number of the
records whose task is in the tab, `TabsShareRecords` that the tabs and the tasks
without one share the records among them. The rates are exact quotients in the model.

`RunnerProofs` assumes `RunnerAssumption` (an agent, finitely many protected
entries, either platform) and proves `TypeOK`, `CoherentVerdict`,
`LeakHasACause`, `ErrorMeansNoAgent`, `AlertHasACulprit` and the safety part of
the refinement (`StepsFollowContract`: each step of `run_task` is a step of
`TaskContract` or none). Its `IInv` adds `Fresh` (nothing to answer for before
the agent starts), `ErrorIsEarly`, `Settled` (unless processes of the agent
outlived the wait for it, nothing edits the work while it is judged, so the first
verdict still holds at the second: earlier agents' leftovers know another directory)
and `Blame` (what is gone since the snapshot was deleted by this agent or by one
that was running before the call).

`RaftProofs` assumes `RaftAssumption` (finitely many distinct nodes, any bounds)
and proves `LeaderWasElected`. `IInv` adds `OpShape` (what a call still has to
visit, never its own node), `RequestIsCurrent` (the one vote request that
`elect_leader` goes on sending speaks for its candidate's term as long as it is a
candidate) and `VotersFollow` (whoever voted for a node that is not a follower
has reached its term). The last is needed for candidates too: a leader's voters
are those it had as a candidate. It holds in spite of `become_follower`
forgetting the vote of a term. `LogShapeHolds` proves `LogShape` from `LogInv`:
a next index may be stale, so what a leader sends is described by `Fits`
relative to the log that receives it, and each entry added, a conflicting
suffix cut off or not, leaves the log `Shaped` (`AddEntryShape`,
`ExtendedShape`, by induction over the entries of one message). `AppliedOnceHolds`
proves `AppliedOnce` from `AppliedInv`: a command stands at one index only,
whichever logs it is copied to and cut from (`OnePlace`; `AddEntry` never moves an
entry, and a new entry has a new command), and a node that applied a command has
gone past its index for good (`Ledger`; `last_applied` never goes back, even when
the log is cut below it). So an applied entry that is cut off and comes back is
not applied again.

`TxnProofs` assumes `TxnAssumption` and proves, for any
number of transactions, keys, values and mixture of levels, `ChainsAreHistory`, `SnapshotReads` and
`SerializableAtCommit`. `Times` says that commits have distinct times from the clock,
`Chains` that a chain has each committed write once, by commit time. So the last
version of a chain up to a time is by the last writer up to that time
(`LastVersion`), which makes a read a statement about commits (`VisibleIs`).
`SnapshotSeen` is then kept because a commit adds nothing to the past. For
SERIALIZABLE, `ReadsWereTrue` says of an active transaction that what it read was
true at some time since it began and is in its read set: a commit that finds no
later write to that set finds all of it still true. The scans need the converse
as well, that a row which came or went is in one of the read sets.

`StoreProofs` is about the components of `Stores`, under `WalAssumption` and
`StoresAssumption` (the LSM tree has a key, a level, a memtable and a ratio that
are positive; any replicas, elements and names, and any heap and threshold).

- Write-ahead log: `RecoveryAgrees` and `DataIsCommitted`. `BuffersAreLogged` says
  that the buffer of an active transaction is what replaying its records would
  give, so a commit installs what a later replay would. If the committed writers
  of a key ended in the order they began, the one that commits last has the
  greatest id, and it is the one whose effect recovery leaves.
- LSM tree: `TablesKeepLiveKeys`. `Sorted` is the order that `get` relies on: an
  entry in a lower level is older, the first level has its tables in the order of
  their entries, no other level has two entries of a key. A merge keeps it
  because a table of the next level that shares a key with the merged ones
  overlaps them (`SharedKeyOverlaps`, `NextLevelIs`). `Stays` says what a
  compaction may lose: anything but a put that is the newest entry of its key.
  `CompactStep` carries both, and the limits of all levels but the one in hand
  (`Within`), down the recursion of `_compact`. `Covers` ties memtable and levels
  to the last writes; `ReadsFind` derives both reads from these.
- Replicated types: `ReplicasReflectCalls`. `CallsKept` (calls are numbered, a
  replica knows of calls that were made) and one invariant for each kind:
  counters hold at most the calls made under each identity, sets what was added
  but not removed, a register a write of the latest time its replica heard of.
- Collector: `VariablesSurvive`. `CollectorInv` adds that ids are handed out in
  order: the new object is none of the old ones, and its variable is bound
  before the collection that the same allocation may start. Objects whose root the
  caller removed are excepted.

`SyncProofs` is about the components of `Sync`, under `SyncAssumption` (finite sets of threads, callers and channels, capacities that
are numbers, marks that are no members).

- Connection pool: `PoolInv` is `OneOwner` and `OpenWithinLimit` with types.
- Retry: `Budget` says that past the limit the shared counter can grow only by
  the attempts that are under way; `AttemptsBounded` follows.
- Locks: `WaitInv` is `EdgesAreWaits` with `FreeMeansEmpty` (a lock without an
  owner has no queue). What is reported is a circle of the wait-for graph with the
  edge that was tried; the graph has true waits only, so the circle is one of true
  waits (`ReachGrows`, `CyclesAreReal`). `NoCircle` (the graph itself has none, since an
  edge that would close one is not added) gives that the circle has two threads at least,
  unless the edge that was tried leads back to its own thread (`NobodyCirclesAlone`).
- LRU cache: `TouchedIsRecent` says that a key whose look-up still owes its
  `move_to_end` is not known to be older than any other, so the late move
  contradicts nothing that real time fixes; moves and removals keep the order of
  the other keys (`InOrder`, from the embedding that `Removal` gives).
- Queue: `WokenEnough`: while a consumer sleeps, at least as many are woken as there are
  items. `Conserved` is an equation between lists through `drain` and cancelled
  waits; `PipelineInv` counts the calls of `get` that are still to come, and
  `SharesAddUp` that `run_pipeline` hands out as many as there are items.
- Channels: `SleepersOf` (who sleeps on a condition is in a call to its channel,
  and nobody sleeps on a closed one), `SendersEnough` and `ReceiversEnough`: while
  somebody sleeps there is an awake thread for every free place and for every
  value. A `select` that read `is_closed` before the close may still push onto the
  channel; nobody sleeps there any more, so it keeps the invariant.

`EngineProofs` is about the components of `Engines`, under `EnginesAssumption`
(programs are words, sources are over the alphabet, a computed node reads signals
and nodes made before it, a member has at least one virtual node; any stack size,
formulas, memos, nodes that raise, plugins and hash functions).

- Stack machine: `CallersKeepTheirStack`. `CallersBelow` says that what the frames
  saved is still where it was and that their floors rise with the calls. Every
  instruction is an `Effect` on the top of the stack, a store into the running
  function's frame or above, a call or a return; `reached` is set by whatever
  goes below the floor. After a return `bp` is too high, never too low, which is
  why the missing restore misplaces locals without touching a caller's values.
- Reactive nodes: `Settled` and `EdgesAgree`. `NodesInv` says that a node which is not
  `UpToDate` is among the nodes a `set()` has still to update (`work`), and that the
  ends of an edge agree in every state (`Mutual`), also after an exception. A node
  whose value changed is read by its subscribers only, and those are put in front
  of the work; it does not read itself because a node reads what was made before it.
- Plugins: `LoadedOnLoaded`, from `LoadedRight`, which one turn of the loop of
  `load_all` keeps whatever the order and whoever raises (`LoadOneKeeps`). A plugin that
  relapses takes with it whatever is above it, directly or not: `Below` is closed and
  grows with the dependencies (`BelowIsClosed`, `BelowGrows`).
- Hash ring: `KeysHaveNodes` and `OnlyItsKeysMove`. `Matched` says that without
  collisions the list sorts the points in the map and the map gives each to its
  node, which the loops of `add_node` and `remove_node` keep because `insort` and
  the pop add and remove one place of a sorted list (`BisectLeft`, `BisectRight`).
  `Home` says which point of a set is a key's; it depends on the set alone, so
  a key moves only when its point goes or a new one comes before it.
- Tokenizer: `PositionsAreTrue` and `TokensTile`. `Stands` recounts lines and columns
  from the source; `TokenizerInv` adds to the tokens made how the text skipped since
  the last of them begins and ends. What each kind of token reads is only needed as
  an interval (each reader ends behind its start and within the source).

`NumberProofs` has what several proofs share: least and greatest members, induction
over an interval for a property given as a set, solutions of a recursion over an
interval (`Recursion`, from which recursive functions in the modules are unfolded), and
removal from lists. All of it is derived from the well-foundedness of the numbers
and the library's facts about sequences and finite sets.

Only model-checked:

- liveness: `SessionEnds`, `CallsEndAfterClose`, and the fairness of
  `ImplementsContract` (liveness under fairness is out of the prover's reach);
- `ConnectedNodesAgree` of `Raft`: with the defect of the task it is claimed within
  the bounds of the run only. A leader commits what one acknowledgement covers, so in a
  larger cluster an old leader may commit before anyone deposes it;
- `LookupsAnswer` (red-black tree, segment tree, allocator) and `AnswersAreRight`
  (parser, regex engine, unification): they compare recursive operators over
  trees, blocks, patterns and types with recursive references, which is induction
  over data;
- the properties of the five runs that expect a violation.

## 5. Where code and texts disagree

Five runs expect a violation; `PROJECT.json` quotes the texts. Met while
modelling and described here only, since a run would add nothing to reading the
lines:

- `README.md:110` of the repository asks "Did the agent break anything?", but
  `runner.py:264` sets `regression` from the tests after the agent alone; what
  failed before is charged to the agent.
- `latest_per_agent` may keep a run that Ctrl+C cut short as the last one.
- The pie of outcomes in `dashboard.py:747-753` counts a record that was not
  resolved and regressed twice.
- `progress_monitor.parse_log` reads the two halves of a status line as one; a
  safety alert or the message of Ctrl+C between them hides the task.
- `runner.py:171-178` waits for the agent and for whoever holds its pipes, not for
  detached processes. The record of an agent that completed may therefore combine
  verdicts about two states of the work, which nothing in it tells.
- 042: a deposed leader goes on replicating (`raft.py:368`, tested once). An
  AppendEntries of the same term makes a node forget its vote (`raft.py:235`), so two
  nodes may lead one term: with the link between n1 and n2 down, n1 is elected by n3 and
  replicates to it, then n2 is elected by n3 in the same term. A commit index may fall:
  `min(leader_commit, last_log_index)` (`raft.py:268`) is less than it where the leader's
  log was cut below its own commit index. With three nodes: n3 leads term 1 and
  appends c; cut off, it misses term 2, in which n1 commits a, b, d (n2 two of them); back
  again, n3 is deposed by n2 and, going on, overwrites the log of n1 with c; n1, elected by
  n3 in term 3 with the log c, replicates it to n2, whose commit index falls from 2 to 1.
- 050: recovery replays by id, so it brings back earlier values when
  transactions commit in another order. 045: merges drop tombstones and deleted
  keys return. 038: see `transactions` above.
- 011: `put` on a full queue drops the item. 019: `attempts_used` is shared by all calls.
- 049: `select` and `FanOut` may send on a channel that was closed meanwhile, a timeout
  of 0 means none, and `select` without a timeout over sends only spins for ever once
  the channels are closed.
- 047: a thread that takes its own lock again, where that is not allowed, is reported
  as a deadlock of itself (`deadlock_detector.py:157-168`); `description.md:20-22` and
  `tests/test_module.py:65-79` call that a false alarm. (The run `locks_missed` shows the
  opposite error.)
- 046: there is no occurs check: `unify(t, List[t])` binds `t` to a type that contains it,
  where `description.md:19-21` and `tests/test_module.py:38-56` expect a `TypeError`, and
  later walks raise `RecursionError`.
- 021: deletions lose keys: after inserting 1 to 10, deleting 1, 2, 3 and 4 puts others
  out of reach (`rbtree.py:194`, `215`).
- 031: points that fall together leave a `KeyError` behind, and a key beyond the
  last point goes to the last one. 035: sums ignore pending additions. 041: the
  buddy lies inside the block, so nothing is ever merged, and freeing a block of
  order 0 raises. 040: what a root refers to is not marked. 024: the load order
  is reversed, and a plugin stays LOADED when one that it depends on fails at a later
  `load_all` (`plugin_loader.py:167-178`).
- 043: merging counters takes the lesser count (`crdt.py:18-20` says the
  greater), clones share an identity, registers with equal times stay different,
  and a merge undoes a removal.
- 036: operators of three characters are never recognised. 048: an error
  throws away statements parsed before it. 029: no backtracking into groups, and
  `(a*)+` runs into the step limit. 037: `RET` does not restore the base pointer.

The properties of the benches say what holds in spite of these: each is
as strong as the code allows, with the exception named in its formula or comment
(`CommittedInOrder`, `outlived`, `relapsed`, `OnlySends`, sums that meet no pending
addition, patterns without groups, and so on).

## 6. Plan

Done: all modules above. What is left, in order:

1. Proofs: the parts of `LookupsAnswer` that are not about recursion, first that
   the blocks of the allocator tile its pool; agreement in `Raft` for three nodes whose
   links do not fail, without bounds on terms and requests.
2. `get_nodes_for_key` and the weighted ring of task 031, the assembler of
   task 037, the walk over expressions of task 046.

### Not modelled

- The tests themselves: running them is assumed to change nothing in the work directory
  that the verdicts depend on, and to leave no process behind.

- The rendering of reports (`dashboard.py` is mostly HTML and charts), console
  tables, wording of logs, and the scripts around `run_task`: pure output.
- `progress_monitor.py` and `_cuda_runner.py`: they keep no state that anything
  else reads.
- The small sequential classes and the algorithm and text tasks: what they do is
  about strings and numbers, and their unit tests reach it. The B-tree (030)
  raises `IndexError` at its first split of an inner node.
- C++ (051-075): sequential or template code; the lock-free ones need a hardware
  memory model. CUDA (076-100): numeric kernels.
