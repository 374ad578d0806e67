# A TLA+ model of CodeExecutorAPI

CodeExecutorAPI is one asyncio process that runs submitted code in Podman containers. This
directory models the parts of it whose correctness depends on the order in which things happen:
sessions, their locks, the sweep that expires them, the project ids that carry their disk quota,
the execution slots, the life of a container run and what it reports, the uploads into a session's
directory and the file operations beside a running program, the life of the server from its
settings to its shutdown, and the harness that tests it. TLC checks small instances; TLAPS proves
most of the properties for every value of the constants.

The sources are named relative to `src/code_executor_api/`; `harness.py` and `README.md` are in `src/`.

## The system

| Part | Where | State | Operations | Talks to |
|---|---|---|---|---|
| Session registry | `sessions.py` `SessionManager` | `_sessions` (id -> `Session`) | `get`, `create`, `delete`, `_delete`, `delete_all` | routes, sweep, disk |
| Session lock | `sessions.py` `locked`, `_try_acquire_lock` | `Session.lock` (asyncio.Lock: holder, FIFO of waiters), `last_used` | acquire with timeout, re-check, release | every route, sweep |
| Sweep | `sessions.py` `_sweep_loop`, `_sweep_once` | a clock reading and a copy of the registry | skip or delete each session in turn | registry, lock, disk |
| Project ids | `sessions.py` `_allocate_project_id`, `_release_project_id` | a stack of free ids, a counter, `Session.project_id` | allocate, release, hold back | `create`, `_delete`, `xfs_quota` |
| Quota setup | `sessions.py` `_apply_quota` | none | three `xfs_quota` calls, each with a timeout | `create` |
| Session routes | `routes/sessions.py` | none | create with seed files, delete | registry |
| File routes | `routes/files.py` | none | list or read, write, delete a file | lock, session directory |
| Execute route | `routes/execute.py` | language, code, list of staged attachments | read parts, stage, validate, commit, run, answer, delete a throwaway session | everything |
| Execution slots | `sessions.py` `execution_slot` | an asyncio.Semaphore | acquire with timeout, release | execute route |
| Container run | `executor/podman_executor.py` `run_container`, `_remove_container` | the `podman run` process, its container, a pty, an event | spawn, wait, remove on timeout, reap | Podman, reader thread |
| Pty reader | `executor/podman_executor.py` `read_max_and_close` | bytes read | read, stop when idle and told to | a worker thread |
| Change detection | `executor/podman_executor.py` `_iter_session_files`, `_signature`, `collect_changes` | stamps from before the run | walk, compare | session directory |
| Staged writes | `sessions.py` `stage_file` ... `write_file`, `file_helpers.py` | temporary files | stage, commit, discard, size cap | session directory |
| Path walk, validation | `sessions.py` `_open_parent`, `validation.py` | open descriptors | normalise, walk without following links, refuse escapes | every file operation |
| Startup, shutdown | `app.py`, `app_factory.py`, `sessions.py` `stop_sweep`, `delete_all` | the sweep task | refuse to start without a quota, start and stop the sweep, delete everything | registry |
| Configuration | `config.py` | settings read from the environment | parse, refuse | startup, quota setup |
| Harness | `harness.py` | results, the sessions of the check at hand | select checks, run each with a time limit, free its sessions, report | the server, over HTTP |
| Health route, images | `routes/health.py`, `executor_images/` | none | a constant answer; image builds | - |

Everything runs on one event loop, so state changes between two awaits are atomic; worker threads
only remove trees, stamp and compare files, write file contents and read ptys. What is hard is what
happens across an await: a session retired while a request queues for its lock; the sweep reaching a
session that is being created or seeded; a timeout firing while a lock or a slot is handed over; a
removal, a quota setup or a `podman rm` that fails or outlasts something else; a reader thread racing
the loop for the last output; a program that goes on after its run and rearranges, or closes, the tree
under a walk; a shutdown among handlers that are cancelled and threads that cannot be; a crash that
leaves directories, quotas and `xfs_quota` processes behind. `PROJECT.json` lists
these hazards line by line, with the properties that would notice them going wrong.

What makes each part correct:

* registry: never more than `MAX_SESSIONS`; a session that is registered has its directory; abandoned
  sessions go away; a throwaway session is gone when its request is answered;
* lock: one actor at a time inside a session, and never on a session that has been retired; nobody
  queues for ever;
* sweep: it removes only what nobody uses and nobody has used lately;
* project ids: not shared, not lost, not recycled while files are still charged to them;
* slots: not lost, not doubled;
* uploads: what is accepted is in place, what is refused changes nothing, and no temporary file stays
  that could be removed;
* run: always answered, with all the output its reader could know of, leaving nothing behind in the
  process; the changed files it reports are the ones that changed, and their content does not change
  while it is sent;
* file operations: nothing outside the session is touched, no descriptor leaks, the answer is true;
* life of the server: limits are set before a session is handed out, as far as `xfs_quota` can be
  asked; a shutdown leaves nothing behind, and ends unless a container's removal was cut short;
* harness: its exit code tells whether anything went wrong, and it cleans up after its checks.

## Modules

| Module | What it is |
|---|---|
| `SessionManager` | Sessions, locks, sweep, project ids, quota setup, and the requests that use them. Properties, fairness, and the inductive invariants of the proofs |
| `SessionStore` | What `sessions.py` promises its callers, without locks, queues, timers or quotas |
| `SessionManager_refines` | The refinement mapping from `SessionManager` to `SessionStore` |
| `SweepHistory` | `SessionManager` with a history variable, for a property that speaks of what happened earlier |
| `Execution` | Execution slots, the container run, the pty reader, and Podman as their environment |
| `SlotPool` | What `execution_slot()` promises, without counters, queues or wake-ups |
| `Execution_refines` | The refinement mapping from `Execution` to `SlotPool` |
| `Upload` | What the requests of one session do to its directory: receiving, staging, committing, discarding |
| `SessionFiles` | The file operations system call by system call, beside a program: normalisation, walk, GET, listing, DELETE, the capped copy |
| `RunResult` | What a run reports: stamps and second walk, output cut, split into attachments and omitted files, and the answer being sent |
| `Lifecycle` | Settings, quota calls one by one, shutdown with cancelled handlers, crash and restart |
| `Harness` | The runner of `harness.py` |
| `*_proofs` | Theorems about the module they are named after and its refinement |
| `SequenceLemmas` | Lemmas about numbers and sequences for those theorems: induction, recursion, counting, stacks and queues |
| `MC*` | Symmetry, trees, paths and registries for the model checker |

The parts meet in the execute route: it takes the session's lock (`SessionManager`), receives
and commits its attachments (`Upload`), takes a slot and runs (`Execution`), collects the result and
lets go of the lock while the answer is being sent (`RunResult`). Each module takes from the others
what their properties say: `Upload`, `Execution`, `SessionFiles` and `RunResult` that a session has
one request at a time (`LockOwnership`), `Upload` that an upload which fails while it is copied
leaves nothing (`FailedCopyLeavesNothing`), `Lifecycle` that quotas are set up in time and the
sweep leaves sessions in setup alone (`~SlowSetup`, the case of the default settings). A program that
outlives its run is part of `SessionFiles` and `RunResult`, and, as `ProgramSurvives`, of `Upload`.

An operator whose name starts with `Bug` is a seeded fault: the definition that follows it, with a
mistake somebody could make in that code. No specification uses them. For each property a seeded
fault is put in place of the sound definition (the pairs are in `PROJECT.json`, "mutants"), and TLC
must then find the property violated: it is how we know that a property can fail.

### SessionManager

A step is what the code does between two awaits. `pc[t]` is the await at which request handler `t`
is suspended:

| `pc` | Code |
|---|---|
| `quota` | `create()`, awaiting `_apply_quota` |
| `undo` | `create()`, awaiting the removal after a failed quota setup |
| `seed` | `handle_create_session`, awaiting seed parts and writes; no lock is held |
| `waitUse`, `waitDel` | `locked()`, awaiting `lock.acquire()`, to use or to delete the session |
| `body` | inside `async with locked(...)`: the execute route or a file route |
| `remove` | `_delete`, awaiting `_remove_tree`, with the lock |

`sessions` is `_sessions`; `handed` the ids callers know; `owner` and `waiters` the lock; `pid`,
`freeIds` and `nextId` the project ids; `swPc`, `swTodo`, `swAt` and `swSeen` the sweep.
`disk[s]` is the directory: `unborn`, `present`, `left` (a removal failed), `gone`; `used` holds the
sessions into which somebody wrote.

* *Queue.* `QueuedOnce`: a lock's queue holds those that wait for it and nobody else, so a waiter that
  gives up does not stand in the way of the others.
* *Lock.* asyncio.Lock does not barge: it is taken at once only when free with no waiter
  (`FreeNow`); a release wakes the first waiter, which continues in a later step (`Grant`), looks the
  session up again and may find it gone. Between the two its timeout may fire (`LockTimeout`).
* *Time.* `Overdue(s)`: `last_used` is now more than the inactivity limit ago. `swSeen`: the running
  sweep pass, which read the clock once, judges `s` overdue. `Touch` (`last_used = monotonic()`)
  clears both. The constant `SlowSetup` says whether quota setup may outlast the inactivity limit:
  three calls of at most `PODMAN_CHECK_TIMEOUT_SECONDS` each. Defaults (15 s against 1800 s) forbid
  it; the settings of `--check-sweep` (README.md:253: 15 s against 5 s) allow it.
* *Removal.* `Retire(s, ok)`: `_remove_tree` works or raises `OSError`, and raises when the tree has
  already gone. The session leaves the registry either way, its id is released only when it worked.
* *Throwaway sessions.* A session created by `POST /execute` is entered and left by its creator and
  then removed in the `finally`; release and re-acquire happen with nothing in between.
* *Answers* are abstracted to `ok` and `error`.
* *Sweep order.* `swTodo` is a set: any order, of which the registry's is one.

### Execution

A run is one execute request from `execution_slot()` on. `phase[r]` is its await; the header of the
module lists them. asyncio's semaphore, the Podman client and the container are the environment: a
wake-up hands the slot over before the waiter resumes, a killed client leaves its container to the
container's monitor process, and only a live client relays output into the pty. A slot belongs to
a run, not to its container: one that could not be removed goes on without (`container` may still be
`up` when the run is `done`). Each run happens once, so the system may stop and the runs do not check
deadlock. Runs share only the slots,
since each holds its own session's lock (`LockOwnership`). `SlotPool` sees of a run whether it waits for a
slot or holds one; there a run starts without waiting only when nobody waits, and the order of those
who wait is left open.

The reader is a thread beside the loop, and its empty `select` (`SelectEmpty`) and its look at the
stop event (`ReaderStops`, `ReaderGoesOn`) are two steps: between them the client may write, exit, be
reaped and have the event set. `unread` says of what is in the pty whether it came before (`some`) or
after (`late`) the last empty select. The cancellation of a run is in `Lifecycle`.

### Upload

One session and the requests on it, one after the other. `phase` is where the request is (header of
the module); `paths` the staged list in order, `next` the first entry not yet in place, `target` the
upload being copied. The tree maps each place to `absent`, `dir`, `file`, `link` (a symbolic link,
which no walk follows) or `sealed` (a directory of mode 000, which executed code may leave behind);
`content` says which upload of the request a file came from, `temps` where the temporary files are.

* *Walk.* `Blockers` are the components at which `_open_parent` ends: its error is a
  `PermissionError` at a sealed directory, else a `FileNotFoundError`. `MkDirs` makes what is missing.
  The walk is one step, also beside a surviving program: it holds descriptors, not paths.
* *Failures.* An upload may fail at the walk, at the quota (with some directories made), by its size
  or by breaking off; a request by its fields, a part, a commit, the slot or the run. Every refusal
  goes through the `finally` that discards what is staged (`Refuse`, `Discard`).
* *Programs.* From `RunStarts` to `RunEnds`, and beyond when `ProgramSurvives`, the program makes,
  removes, moves and closes what it likes, one step at a time.
* *Left out.* Seed files (each is a PUT without a lock, see `seeding_swept`), and cancellation.

### SessionFiles

One session, its requests one after the other, and a program that may act between any two system
calls. `at` is where each node of the tree is; `fd` the directory the walk has reached, `depth` how
far, `held` how many descriptors the server holds, `got` the file whose descriptor an answer holds.

* *Paths* are sequences of components as the client wrote them, "" for a doubled slash and `NUL` for
  a component holding one. `Normpath` is `posixpath.normpath`, a recursive function over the components, `Refused` what
  `normalize_sub_path` raises; `NormalisesRight` compares both with a reading of the path from left to
  right that uses no stack (`Level`, `Survives`).
* *Walk.* `OpenDirectory` is `os.open` with `O_DIRECTORY | O_NOFOLLOW` relative to `fd`: the lookup happens in the
  tree of that moment, and a directory moved after it was opened stays the one that is open.
* *Permissions.* `mode` is what the server, which is the owner, may do in each directory: list (`r`),
  make and remove entries (`w`), search (`x`). Each system call has its own refusal: opening a
  directory takes `x` above it and `r` on it (`Denied`), a stat `x` (`Stated`), creating and unlinking `w`
  and `x` (`CanCreate`, `MayUnlink`; `Refusal` has the order of the errors). A `PermissionError` ends as
  `error`; the one of the last unlink of a failed upload takes the place of what went wrong
  (`StageFails`).
* *Program.* It creates, renames and removes nodes of any kind, directories below each other included
  (`NoCycle`), changes the bits of directories (`ProgramChmods`), and may remove the temporary file.
  `calm` records that it left a GET alone.
* *Copy.* The chunk is counted before it is written; a `bytes` body is one chunk. Sizes and chunks are
  numbers, so the cap is met exactly, passed by one, and straddled by a chunk.
* *Bounds.* At most one answer holds a descriptor at a time, and a request begins when it is closed;
  at most `MaxClosed` directories lack a bit at a time; during a listing the program acts once, which
  is enough to make it disturbed.

### RunResult

One session. `kind` says what is at the place of each directory (a directory, a closed one, a link, or
nothing), `fs` which inode is at each path, `node` content and times of the inodes. `stamps` is
`input_files`; `changed`, `deleted`, `payloads`, `omitted` are the result, `todo` the files still to be
opened, `sending` the descriptors of answers under way.

* *Walks.* `pending` are the directories found and not read, `names` the entries of the one being read.
  `Scan` is `os.scandir` of one of them by its path, which the kernel resolves then (`Inside`: to that
  directory; `Outside`: through a link, to any names; else an error), and `StampEntry` and
  `CollectEntry` are the `lstat` of one entry, by its path again (`Lstat`). A program acts between any
  two of these. Hidden directories and links to directories are not entered. Any order of directories
  is allowed, of which that of the code's stack is one.
* *Times* are in grains of the file system's clock: two changes may happen in one (`Tick`), but the
  container starts later than the stamps were taken by more than one (`Stamped`). A program can set the
  modification time of a file back, not its change time, which every change of its names moves too
  (`Relinks`).
* *Inodes.* A number may be used again as soon as no path and no descriptor refers to it.
* *Programs* write, rename, remove and link files, and close, move, remove, replace and swap
  directories, the session's own (a mount point) excepted, which they can only close (`ProgramMoves`).
* *Names* are numbers, whose order is that of the sorted result.
* *Output* is read after the container ends, in chunks; what a reader does while it runs is in `Execution`.
* *Histories*, which no action reads: `before`, the files there when the lock was taken; `touched`, the
  inodes acted on since the container started; `unsteady`, the paths that changed, or whose
  directories did, while one of the walks was reading.
* *Bound.* `MaxEvents` changes of the tree and starts of a container.

### Lifecycle

`server` is the stage of the process (header of the module), `pc` and `ses` the handlers and their
sessions, `cancelled` those to whom a `CancelledError` is on its way, `removers[s]` the worker threads
removing directory `s`, `limit` and `accounting` the file system.

* *Settings.* One of each kind: an integer with a minimum, an optional path, a command. Unset,
  malformed and too small are inputs; the process starts only when all parse and a quota mount is
  named or waived.
* *Quota.* The setup and the two reports of `_apply_quota` are a step each. The setup may fail having
  set the limits or not; it may exit with 0 and not have set them; a report shows a project's limits only on a
  file system that keeps project quotas, and only whether they are positive is looked at (`Reported`).
  So limits that an earlier session left on the project pass for new ones, and `amiss` (a history)
  names the sessions to which this may have happened. Whether the directory got the project and
  whether limits are enforced (`pqnoenforce`, README.md:423) is neither asked by the code nor visible
  in a report; the model has no state for them and the properties claim nothing of them.
* *Orphans.* A setup that is killed after its timeout (under sudo), cancelled, or left by a crash may go on
  by itself and set its limits at any later time (`Orphaned`, `OrphanEnds`), also in the next life.
* *Shutdown.* aiohttp stops taking requests, waits, cancels what is left and goes on without awaiting it;
  `stop_sweep` awaits the sweep, which is in its sleep or in a shielded deletion; `delete_all` takes no
  locks; then the loop cancels the rest and the interpreter waits for the threads. A cancelled handler
  unwinds in a later step (`Unwind`) and leaves its thread running (`Abandoned`).
* *Runs.* `kill` and `bail` are the awaits in the `finally` of `run_container`, after a timeout and after a
  cancellation: a `CancelledError` there skips `evt.set()`, and `stray` says that a reader was left so.
  `Exit` waits for it, as the interpreter does.
* *Removals* of one tree may race: each fails on what the other took away, the last cannot fail for
  that reason. `failed` are the trees on which a removal failed of itself.
* *Crash* loses the memory and the threads and keeps the disk, on which the next life may find the
  quotas mounted in another way.
* *Bounds.* Every session id is used once, over any number of lives, and at most one setup is orphaned
  at a time.

### Harness

`phase` is where the run is, `toRun`, `skipped` what `select_checks` returned, `ids` and `todo` the
sessions of the check at hand, `live` those on the server. Every request of `owned_sessions` may be
answered, refused, lost after it took effect, time out, or be interrupted; a check may end in any way,
or hang until `asyncio.timeout`. A lost session id, a refused DELETE and the rest of a cleanup that breaks are
recorded as `excused`. `MaxSessions` bounds the sessions made.

## Runs

| Run | Instance | Checks |
|---|---|---|
| `ids` | 2 requests, 3 sessions, 2 capacity slots, ids 1..2, quotas on | `TypeOK`, `ProjectIdsUnique`, `NoSpentAllowance`, `IdAccounting`, `OneRemover` |
| `contention` | 3 requests, 1 session, 1 capacity slot, no quotas, fairness | `LockOwnership`, `NoUseAfterDelete`, `QueuedOnce`, `AbandonedSwept`, `NoEndlessWait` |
| `sweep` | 2 requests, 2 sessions, quotas on, `SlowSetup`, with history | `SweepSparesTouched`, `ThrowawayGone`, `ImplementsStore` |
| `execution` | 3 runs, 1 slot, fairness | `SlotAccounting`, `NoIdleSlot`, `ImplementsSlotPool`, `OnlyLateOutputLost`, `NoReaderLeft`, `RunEnds` |
| `uploads` | 2 uploads in a request, 3 paths over 2 levels, any number of requests | `NoDebris`, `AllLanded`, `InvalidLeavesNothing` |
| `files` | 2 directories, a file, a link, a fifo, 2 names, most raw paths of up to 2 components and some of 3, one directory at a time that is only listed or only searched, cap 1, chunks of 2, any number of requests | `Contained`, `NormalisesRight`, `NoDescriptorLeak`, `AnswersTruly`, `CappedCopy`, `FailedCopyLeavesNothing` |
| `results` | 3 paths: in the session, in a directory of a directory, in a hidden one; 2 inodes, 2 changes of the tree beside the start of a container, 1 attachment, output limit 1, a surviving program | `ChangesReported`, `SplitComplete`, `OutputCut`, `AnswerSurvivesRequests` |
| `lifecycle` | 2 handlers, 2 sessions, any number of lives, sizes 0 and 3, and 5 by default, of a KiB of 2 bytes, fairness | `LimitsSet`, `SweepRemovesAlone`, `RemovedUnderCancelledOnly`, `ShutdownLeavesNothing`, `ShutsDown` |
| `harness` | 4 checks in 2 groups, one opt-in, one heavy, up to 2 sessions each, fairness | `SessionsFreed`, `ExitTells`, `Ends` |
| `shared_project` | 2 requests, 3 sessions, quotas on, `SlowSetup` | violates `NoSpentAllowance` |
| `seeding_swept` | as `sweep`, 1 capacity slot | violates `SeedingNotSwept` |
| `rejected` | as `uploads` | violates `RejectedLeavesNothing` |

Bounds. A session id is never used twice, so `Sessions` also bounds the length of a behaviour; with
three, an id is released by one session, taken by a second and contested by a third, and ids run
out. Two requests and the sweep are three actors for one lock; three requests make a queue of two
behind a holder, so that a waiter in the middle can time out and the sweep meets a queue; one session
is enough for that. With one slot and three runs two requests queue, so that a slot is handed to the
second when the first times out, and again to the third; that a newcomer may not
have the second of two slots while the first is on its way to a waiter takes four runs, and is left to
`ImplementsSlotPoolCorrect`. With two uploads one can land before the other
fails, both can go to one path, or one below the other, and two names give a file beside a directory;
the tree is bounded, so requests and programs need no bound. In `files` two directories below the root
let a program move a directory the walk is in out of the way and put another in its place; raw paths of two
components already climb, collapse and name the root, those of three come back up before they climb.
One closed directory is the root, the one the walk is in, or the one it comes to. In `results` two changes
are a write whose time is then set back, a rename over a stamped file, an inode that is freed and used
again, a directory that is moved for a link and back, or closed and opened; the nested path makes a walk
find a directory before it reads it, and the third path is never looked at. In `lifecycle` two handlers
are cancelled in different places while the sweep is the third to remove something; the second session
may meet, in this life or in the next, what the setup of the first left. 3 bytes are not a whole number of
KiB, so the rounding shows. The theorems below do without these bounds, save for the properties listed as only model-checked.
Symmetry is used in safety runs only (`ThrowawayGone`, `ImplementsStore`, `AnswersTruly`, `CappedCopy`,
`FailedCopyLeavesNothing`, `OutputCut` and `AnswerSurvivesRequests` speak of single steps), over identities no definition looks at.

What the violations show:

* `shared_project`: quota setup outlasts the inactivity limit; the sweep deletes the session and
  releases its id; the setup then fails and `create()` releases the id again. The next two sessions
  share one XFS project. `IdCorrect` below shows that the slow setup is the only way to this.
* `seeding_swept`: `POST /sessions` holds no lock while it writes seed files, so an upload that lasts
  longer than the inactivity limit has its session removed under it.
* `rejected`: attachments are committed, one by one, before the slot is asked for. A request that is
  then refused (503), or whose later attachment names a directory (400), has already changed files.

Also seen while modelling, and not given a run of their own:

* `last_used` is set when the lock is taken only (sessions.py:452), so a session is swept right after a
  request longer than the inactivity limit, while README.md:120 speaks of idle sessions.
* When `podman rm` fails the container outlives the run and its slot (podman_executor.py:246), so more
  than `MAX_CONCURRENT_EXECUTIONS` may run (README.md:267, 292).
* Commit and discard walk to the temporary file again by name (sessions.py:332): a surviving program
  that closes or moves its directory keeps both from finding it. Where the copy itself fails, the file
  is unlinked through the descriptor, but only `FileNotFoundError` is suppressed there
  (file_helpers.py:106-107): in a directory that was closed meanwhile it stays, and the answer is 500 in
  place of 413. `FailedCopyLeavesNothing` names that case.
* Output may be lost: the reader ends when a `select` has found nothing and the stop event is set *after*
  it (podman_executor.py:113, 115). What a client writes, before it exits and the event is set for it,
  between the two stays in the pty (`late` in `Execution`). A last look after the event would do.
* A container whose removal is cut short: when a `CancelledError` arrives during `podman rm` or the wait for
  its client (podman_executor.py:246, 252), `evt.set()` is skipped, and the reader, which holds its own
  `slave_fd` open, never ends; the interpreter waits for its thread for ever. Shutting down in the middle of
  a timed-out run does it, or the second cancellation, with the loop, of a handler that is already
  removing its container. `ShutsDown` allows for this one thread.
* A directory the server may list but not search (mode 0400) is answered with an empty listing, since each
  entry's `stat` fails and is passed over (sessions.py:289), while README.md:167 has listings hide nothing.
* The walk of a session resolves paths anew for each directory and each entry (podman_executor.py:71,
  78), and follows a link that a surviving program has put in the place of a pending directory, which the
  docstring (63-64) excludes: names of files outside the session may be reported as changed. They are not
  attached: `read_file` walks without following links (`Contained`) and names them as omitted.
* A change that falls between an `lstat` of the first walk and the start of the container, in the same
  grain of the clock, goes unnoticed; only a surviving program can make it.
* Verification looks for a positive limit, not for the right one (sessions.py:114): over limits that an
  earlier session of other settings left on a project, an `xfs_quota` that exits with 0 and sets nothing
  passes, and the limit may be looser than `MAX_SESSION_SIZE`, which sessions.py:128 rules out. A session
  whose directory was not given its project (sessions.py:95 expects such quiet failures) passes as well,
  and so does `pqnoenforce` (README.md:423).
* A setup killed after its timeout is under `sudo` when `SESSION_QUOTA_COMMAND` says so, and then
  `xfs_quota` itself may go on (sessions.py:85): `LimitsSet` has it come late.
* A file that is being sent keeps its content when a later *request* replaces it
  (`AnswerSurvivesRequests`), not when a later *program* writes into the same inode; README.md:196
  does not make the difference.
* `bhard` is rounded up to a KiB (sessions.py:127-130), so the limit may be looser than `MAX_SESSION_SIZE`
  by less than one: `LimitsSet` says exactly that.
* After a restart ids start at the base again (sessions.py:375), and a new session may get the project
  of a directory a crash left, with part of its allowance spent. Its limits are set all the same.
* `owned_sessions` catches `ClientError` (harness.py:182), which aiohttp's `TimeoutError` is not: when a
  DELETE times out the sessions after it are not deleted. `excused` names them.

Fairness. `contention`: lock timeouts and clocks go on, `_remove_tree` and `xfs_quota` (killed after its
timeout) come to an end, and the loop runs what is ready, the sweep included. A request body or an
upload need never end: nothing bounds how long a client takes to send one. `execution`: timers, worker
threads and the event loop; nothing is asked of Podman, the container or the client process.
`lifecycle`: the loop (`Loop`: what is ready, the end of removal threads, the unwinding of cancelled
handlers, the removal of a container, which `_remove_container` and the wait for its client bound) and aiohttp's
shutdown timer (`CancelHandlers`); nothing of clients, programs or `xfs_quota`, which are cancelled or left to
themselves. `harness`: every request ends, by aiohttp's own limit if need be (`Step`), and the
timer of a check fires (`Overrun`); a check itself may hang. `sweep`, `files`, `results`, `ids` and
`uploads` check safety only and assume none.

## Proofs

The theorems hold for all values of the constants that meet the assumptions below: any number of
requests, sessions, slots, uploads, nodes, paths, checks and lives. None needs fairness. Each safety
invariant is proved through a strengthening that is inductive; what the strengthening adds says why
the code is right.

`SessionManager_proofs`, with and without quotas, whether or not quota setup is slow:

* `TypeCorrect`: `TypeOK`, by one lemma per group of actions.
* `SafeCorrect`: `SafeInv` is inductive. Lock ownership alone is not: that a request is inside a lock
  only while its session is registered rests on the re-check and on everybody who unregisters a
  session being inside its lock, save `create()`, whose session nobody else knows
  (`CreatedPrivate`), and that rests on unborn sessions being referred to from nowhere
  (`UnbornUnknown`). `LockOwnershipCorrect` and `NoUseAfterDeleteCorrect` follow.
* `SessionCapacityCorrect`: by counting; the slot is taken in the step of the check.
* `ImplementsStoreCorrect`: `SessionManager` refines `SessionStore`. What a step does to the one session it
  concerns (`Only`) decides which step of the store it is, or that callers see nothing
  (`StoreOpens` ... `StoreQuiet`); `SafeInv` excludes the steps the store does not have, such as entering a
  session whose removal has begun.
* `SweepSparesTouchedCorrect`, about `SweepHistory`: whoever enters a session takes it off the candidates of the
  running pass (`EnteredTouched`), candidates are never added during a pass (`PassShrinks`), and a session
  that is being swept has no other owner.
* `ThrowawayGoneCorrect`: nobody queues for a session that is still being set up (`QueueInv`), so the only
  thing a throwaway execution can wait for, or time out on, is the sweep removing its session; and the sweep
  keeps the lock until the session is out of the registry (`SweeperStays`).
* `QueuedOnceCorrect`: inductive as it stands. It is the safe half of `NoEndlessWait`, whose other half is
  fairness: the first of a queue is a request whose acquire can return, and every waiter has an entry to
  give up. What joining, leaving and going to the end do to a queue are `PushSet`, `TailSet` and `RemoveSet`.

Project ids, in the same module, under `~SlowSetup`: `IdInv` is inductive given `TypeOK` and `SafeInv` (`IdCorrect`), and from
it `ProjectIdsUniqueCorrect`, `NoSpentAllowanceCorrect`, `IdAccountingCorrect` and `OneRemoverCorrect`. The heart
is `SetupUntouched`: a session in quota setup has never been overdue, so the sweep cannot reach it, and
is empty, so its id may be released whether or not its tree is gone. `shared_project` shows that the
premise is needed. As far as ids are concerned a step is of one of five kinds, and each kind has
its lemma (`IdsQuiet`, `IdsDirectory`, `IdsReserve`, `IdsRelease`, `IdsHeldBack`).

`Upload_proofs`, when no program outlives its run (`~ProgramSurvives`):

* `UpCorrect`: `UpInv` is inductive; from it `UploadTypeCorrect` and `NoDebrisCorrect`. `NoDebris` speaks
  of the ends of requests only; `UpInv` says what the temporary files are in between: those of the
  entries from `next` on and of the upload being copied, each behind an open walk, so that a discard
  finds it (`TempsInv`). Walks stay open because making directories opens more of them and a commit
  never replaces a directory. Without the premise `NoDebris` fails, see the surviving program above.
* `LandCorrect`: `LandInv` says what is in place at each point: nothing until the first commit, then of each
  path the last upload before `next`. `AllLandedCorrect` and `InvalidLeavesNothingCorrect` follow.

`Execution_proofs`: `IInv` is inductive, and from it `ExecutionTypeCorrect`, `SlotAccountingCorrect`,
`OnlyLateOutputLostCorrect` and `NoReaderLeftCorrect`. Counting the slots is not inductive: it also takes
that no run queues twice, or queues while a slot is on its way to it (`QueueInv`), so that waking the
first `n` of the queue moves `n` slots (`CountFirst`, `WakeKeeps`). `NoIdleSlotCorrect` and
`ImplementsSlotPoolCorrect` rest on every waiter being in the queue or having a slot on its way to it
(`AllQueued`, kept by `WakeLeavesNobody`): whoever passes on what it was given, or gave up, wakes as many as there are slots or empties
the queue, and a slot that is free with nobody queued or woken is one that nobody waits for. The promises about the reader rest on
the phases in which the client is alive and the stop event is set (`RunInv`).

`SessionFiles_proofs`, beside any program:

* `NoDescriptorLeakCorrect`, `FailedCopyLeavesNothingCorrect`: the descriptors held are determined by where the
  operation is (`HeldInv`), and the temporary file is in the directory that is being copied into (`TempInv`), so
  that a failure removes it or finds that very directory closed.
* `NormalisesRightCorrect`, for every path of any length, by induction along it: while the path has stayed inside, the
  stack holds, level by level, the names not taken back so far (`Within`, `Kept`); once it has climbed out it starts with
  `..` and keeps it (`Outward`). `NormpathSteps` says what one component does to the stack, `KeptSteps` what it does to
  the names kept. It follows that what passes is one or more names, none of them `..` (`NormpathNames`).
* `ContainedCorrect`: no component of a path being walked climbs (`PathInv`), and the
  directory reached is one of the session, whatever has been moved meanwhile (`InsideInv`).
* `CappedCopyCorrect`: what has been written is within both the cap and the body (`CopyInv`), so a copy that
  ends well has written the whole body, and one that is refused met a byte past the cap.
* `AnswersTrulyCorrect`: a place holds one node at most (`TreeInv`), so while no program acts
  the directory the walk has reached is on the one way from the session directory along the path (`LedInv`),
  and what is opened there by the last name is where the path leads (`LastLeads`); a listing has reported exactly
  the entries it has looked at, or nothing where it may not look (`ListingInv`). A walk that stops is on no way
  to anything (`NoWayOn`), or at a closed directory.

`RunResult_proofs`:

* `ChangesReportedCorrect`, from `ReportInv`: for a path that nobody disturbs while a walk reads, as long as a
  directory on its way is pending no link is on that way (`WalkInv`), so the walk comes to it, or it cannot be
  come to: after the first walk its stamp is that of the file that was there (`StampInv`). From the start of
  the container a stamp is older than any change: it differs from the signature of its inode exactly when that
  inode has been touched (`RunInv`), because no program can set a change time. This is why the comparison is not
  fooled by an inode that is used again or a modification time that is set back. In the second walk what is
  reported of the paths seen so far is right, and the others may still be come to (`CollectInv`).
* `SplitCompleteCorrect` (`SplitInv`: files are taken in the order of their names, and one is left out only when
  the places are taken or it cannot be read), `OutputCutCorrect` (`KeptInv`: what is kept is what has been read,
  up to the limit), `AnswerSurvivesRequestsCorrect` (requests give names other inodes, and never write into the
  inode a descriptor refers to).

`Lifecycle_proofs`:

* `LifeInv` (`LifeTypes`, `HandlerInv`, `SweepInv`, `ThreadInv`, `UnbornInv`, `CancelInv`) is inductive, and from it
  `SweepRemovesAloneCorrect` and `RemovedUnderCancelledOnlyCorrect`: until `delete_all` begins, whoever removes a registered
  session's directory holds its lock, and by the time it begins the sweep is over and every
  handler still at work has been cancelled.
* `ShutdownLeavesNothingCorrect` (`LeftInv`): what is left after a shutdown failed to be removed.
* `LimitsSetCorrect` (`LimitInv`): a project's limits change only by set-ups, those of this process all setting
  the same, so no set-up takes away what a report showed; a session leaves `create()` only after both reports,
  and from then on its limits are those of a set-up that took effect, or it is `amiss`. That a project
  never goes to two sessions is not needed for it.

`Harness_proofs`: `SessionsFreedCorrect` (`FreedInv`: what lives and is not excused is still to be deleted),
`SelectedRight` (the loop of `select_checks`, by induction along the registry: each check asked for is selected once,
in order), and with it `ExitTellsCorrect` (`ExitInv`: each check is listed once, `ListInv`; something has raised
exactly when a result says so, `TroubleInv`; each result is due to a check, `DueInv`).

Assumptions, declared with the constants and evaluated by the runs: `ActorsAssumption`, `LimitsAssumption`
(`SessionManager`), `SlotsAssumption` (`Execution`), `PlacesAssumption` (`Upload`), `SizesAssumption`, `NodesAssumption`,
`ModesAssumption`, `PathsAssumption` (`SessionFiles`), `ResultAssumption` (`RunResult`), `ValuesAssumption`, `NamesAssumption` (`Lifecycle`),
`RegistryAssumption` (`Harness`). Premises of some theorems: `~SlowSetup` (`shared_project`
violates what it is needed for) and `~ProgramSurvives` (see the surviving program above).

Loops over data (`Normpath`, `Selected`) are recursive functions `f[i \in 0..n]`. The provers see such a function as
the `CHOOSE` of its equation: that the equation has a solution is `RecursionExists`, and what holds of every `f[i]` is
shown with `Induction`, which takes a set where the library takes a predicate and rests on the library's
`NatLessThanWellFounded`. Both are proved in `SequenceLemmas`, so nothing about these loops is assumed.

Only model-checked: liveness, which is out of the prover's reach: `AbandonedSwept`, `NoEndlessWait`, `RunEnds`,
`ShutsDown`, `Ends`. Every invariant and every action property the passing runs check is a theorem.

## Not modelled

* The health route (a constant answer) and the scripts that build the sandbox images: no state.
* The bodies of the harness's checks: each is a client script; what they have in common, the
  runner, is `Harness`.
* Which HTTP status answers which error of the session routes, and the JSON of answers; the
  statuses of uploads and executions are in `Upload`. The decoding of text fields and the table of languages
  are an outcome each (`good`, `bad`).
* The command lines of `podman` and `xfs_quota` and the parsing of their reports: what a call may have
  done and what its report may show are choices of `Lifecycle` and `Execution`.
* The pool of worker threads shared by readers, removals and writes (`podman_executor.py:189` uses asyncio's
  default pool): unbounded in the models, so waiting for a thread is not seen.
* Exceptions of the reader other than those of the pty, and the exhaustion of descriptors or memory.
* Seed files as such: each is a PUT without a lock, see `seeding_swept`.

## Remaining work

* The worker thread pool as a bounded resource of `Execution`, with a surviving container's reader keeping a
  thread.
* `Upload` beside `Lifecycle`: a request cancelled between two commits leaves temporary files to `delete_all`.
* An abstract specification of `Upload`: what a client may find at a path while its request is under way.
