# HyperMnesia in TLA+

HyperMnesia is a long-term memory for coding assistants: a PostgreSQL store of
memories and documents, Python commands and hooks that read and write it, a Rust
MCP server that runs those commands for a client, and an installer, a console and a
tray that keep it running and show that it does. This directory models the parts of
it whose correctness depends on the order in which things happen, and the few pure
decisions on which the rest leans.

## The system

| Part | State it keeps | Operations | Talks to |
|---|---|---|---|
| Memory store (`ingest/mem_ops.py`, `sql/`) | `mem.memories` (status, author, audience, belief time, event window), `mem.review_queue`, derivations, entities, peer cards, dream runs | `write`, `supersede`, `mark`, `page_upsert`, `apply_verdict`, `review_add`, `review_resolve`, searches | every hook and the MCP server, one process and one transaction per command |
| Hook library (`hooks/_mem_common.py`) | pid lock files, episode flags, the env file | `acquire_lock`, `release_lock`, `flag_flip`, `strip_private`, `load_env_file` | every hook |
| Extractor (`hooks/mem_capture.py`, `mem_extract.py`) | transcripts, done marks, a pid lock | read new sessions, ask an LLM, write facts | store, LLM |
| Consolidator, dreamer, profile, dialectic (`hooks/`) | the state of a pass, a profile cache | find near duplicates, judge, apply or queue for review; derive; summarise | store, LLM |
| MCP server (`mcp-server/src/main.rs`) | jobs in flight, cancelled ids, a graph cache | dispatch a request to a worker, cancel, drain on end of input; resolve paths, select rules | a client on stdio, child processes |
| Document ingest (`ingest/`) | `documents`, `chunks` and their embeddings | re-ingest a repository, embed, search | PostgreSQL, embedder |
| Installer (`ci/install.py`) | release directories, the links `current` and `previous` | build, switch, prune | file system, PostgreSQL |
| Console (`console/src/`) | its config, the settings file, systemd units or launchd plists | ask the store, edit settings and schedules, run a job, say whether jobs are alive | file system, service manager, a command of the person's own |
| Tray (`console/src/bin/tray.rs`) | what is drawn, what was asked | a tick every 200 ms, a worker thread behind two channels | console library, a person |

What makes it hard: the store's commands are short transactions at READ COMMITTED that
overlap freely, read rows before they lock them and take their timestamps from the clock
in the middle; hooks are processes that die at any point and coordinate through files;
the server's children can be cancelled, outlive a deadline or answer late; the console
edits files that others read at that moment and asks a service manager that keeps a
state of its own; the tray's person presses buttons of a menu that has been replaced.
`PROJECT.json` lists the hazards, each at its line.

What makes each part correct:

- *Memory store.* Belief time is consistent and history final; one belief hands
  over to the next with no gap and no overlap; a verdict never leaves a group with
  nothing believed; nothing is applied twice; nobody's rows change but by their
  author; no result is readable by more people than what it was made from; row locks
  are taken in an order that cannot deadlock.
- *Hook library.* One holder per lock, and a dead one does not keep it.
- *Extractor.* Every session is read in the end, and what is marked done was read.
- *MCP server.* Each request is answered at most once; a cancelled child is killed
  and nobody else's is; the drain ends; the rules of a path reach it, and no other's.
- *Installer.* At every instant `current` names a complete release, and what a session
  runs from is not pruned under it.
- *Console.* A failed edit leaves the old schedule and says so; the settings file means the
  same to all its readers; a figure on the screen is the store's; a dead job does not
  look healthy.
- *Tray.* A press does what the button said, its outcome is shown, silence is noticed.

## Modules

| Module | What it is |
|---|---|
| `MemoryStore` | the store's rows and transactions, its properties and its inductive invariant |
| `BeliefLog`, `MemoryStoreBeliefs` | what the store promises about belief, without rows or transactions, and the refinement mapping |
| `Store` | `MemoryStore` and `StoreLocks` under one roof, with what the commands at the locks are assumed to be |
| `MemoryStoreMC` | the workloads under which TLC checks the store |
| `MemoryStoreProofs`, `MemoryPromisesProofs` | the theorems about `MemoryStore`, and the one about `StoreLocks` |
| `MemoryBeliefsProofs` | that `MemoryStore` implements `BeliefLog` |
| `ExtractorProofs`, `McpServerProofs`, `ConsoleProofs` | the theorems about those modules |
| `Tier1Proofs` | the theorems about `Tier1` |
| `StoreLocks`, `StoreCommands` | the locks each command of the store takes, in order and mode, and the commands whose locks are compared |
| `StoreLocksMC` | two writes with swapped endpoints, for run `storelocks_endpoints` |
| `PidLock`, `PidLockProofs` | `acquire_lock` and `release_lock`, system call by system call |
| `Extractor`, `ExtractorMC` | the session queue and the runs that extract it |
| `McpServer`, `McpServerMC` | the server's request loop: threads, children, signals, output, shutdown |
| `GraphCache` | the server's cached component map |
| `PathResolution` | `resolve_fs` and `rel_to_root`, over file systems with links and either case |
| `RuleSelection` | which rules a question about some paths gets |
| `Tray`, `TrayMC` | the tray's main thread, its worker and the channels between them |
| `StoreQuery` | `run_with_timeout`: a command, three threads, two pipes and a deadline |
| `Reading` | the JSON scanner and the reading of the store's answer |
| `ConsoleFiles` | how the config and the settings file are saved while others read them |
| `SettingsFile` | one settings file, three readers, one writer |
| `ScheduleEdit` | `set_schedule` and `set_enabled`, call by call, on systemd and launchd |
| `RunNow` | `run_now`: whose exit code is it |
| `JobFreshness` | is a scheduled job alive, and how that is drawn |
| `Autostart` | the tray's entry in autostart while releases come and go |
| `Releases`, `ReleasesMC` | build, switch, prune, and the sessions that run meanwhile |
| `Tier1` | composes `GraphCache`, `PathResolution` and `RuleSelection`, with what is assumed of edges, paths and file systems |
| `Tier1MC` | the trees, paths and graphs under which TLC checks `Tier1` |
| `Console`, `ConsoleMC` | composes the ten machines of the console and the installer |
| `ProgressMC` | composes `PidLock`, `Tray`, `StoreQuery` under their fairness |

The three composing modules give each part its constants and let a behaviour draw one
part: the parts share no variable, so their product would only multiply states. What
parts have in common (the settings file of `ConsoleFiles` and `SettingsFile`, the releases
of `Autostart` and `Releases`) is modelled in each at the grain its properties need: call by
call where a reader may come between, as one step where only the order of edits matters.

### MemoryStore

State: `rows` is `mem.memories` (status, author, audience, `created_at`, `retired_at`,
`metadata.retired_intervals`, and what a row replaced or was made from), `queue` is
`mem.review_queue`, `tx` is one record per connected session: which command it runs,
which rows it names and has locked, and, between its INSERT and its COMMIT, the id and
the `created_at` the row got. `nextId` is the sequence, `now` the clock.

Each command is split where another session can come between: what it reads before
its locks (`Begin...`), one `LockRow` per row in the order of the code's `ORDER BY`,
the INSERT that takes `clock_timestamp()` (`Learn`), and the rest up to COMMIT
(`Commit...`), or the rollback (`Refuse`, `Abort`: a connection may also die anywhere).
`write`, `supersede`, `page_upsert`, `mark`, the three verdicts of `_apply`, `review_add`
and `review_resolve`, and an `UPDATE` by hand (which only the trigger
`keep_belief_time` guards) are actions.

Decisions. The clock advances at each read (microseconds, and the code's own guard
`retired_at < clock_timestamp()` is kept). The UPDATE and COMMIT of `mark` and of a
supersede verdict are one step: the rows are locked, so nobody else sees the difference.
Author, scope, project and kind of a row never change, so the audience of a derived row
is computed where the snapshot is read. The lock a command takes on its author's own
entity is left out, which allows more interleavings than the code. A review's claim
survives a refused savepoint, as in the code. Ids burned by aborted inserts stay burned.
Contents, embeddings, perspectives and the event window are abstracted. `MaxTx` bounds the
commands ever issued, hence ids and instants. Nothing is assumed fair: every property
here is one of safety.

Run `store`. Drawing every command at once is out of reach, so a behaviour draws one of
six workloads (`MemoryStoreMC`) and keeps to it: five edits by one author in two sessions;
five commands around reviews; six around a page; four edits by two authors; four writes,
merges and derivations in every audience of two projects; and three commands at the locks of `StoreLocks`. Two sessions suffice for the
lock orders and races of two commands, which is what the code's comments argue about;
five edits are enough for a row to be learned, retired, taken up, retired again and
replaced. The run checks belief time (`BeliefTime`, `BelievedNow`, `Handover`,
`AsOfStable`), verdicts (`WinnerStays`), ownership and audience (`OwnRowsOnly`, `AudienceNeverWidens`), that no
review is applied twice and no project gets two pages (`OnceOnly`), that row locks never close a circle
(`NoLockCycle`, a part of `DeadlocksAreKnown` below) and that the store implements `BeliefLog` (`ImplementsBeliefLog`): closed beliefs are never edited, one belief hands over to
the next at one instant.

### StoreLocks

Each command is a transaction: the set of locks its statements, triggers and foreign keys
take, one by one, held to the end. A lock's `place` says when: the statement, the turn within
it (the row of a list, the id in `ORDER BY id`), and a number within that; the lock `Due` is the
first of those still to take. Rows (`NO KEY UPDATE`, or `KEY SHARE` for a foreign key),
entities (`ensure_entity`, `sync_memory_perspective`), peer cards (an advisory lock
each), an author's page lock, and the table lock of `guard_derivation`, which every insert of
an edge upgrades. The sets follow `do_write`, `_apply`, `_retire_members`, `mark`,
`do_page_upsert` and `touch_memory_access`; a recall's order is any, because its UPDATE has
none. A command refused half-way, or whose row has changed when it gets the lock, takes a
prefix of its locks: more deadlocks are considered, never fewer. PostgreSQL resolves a deadlock
by aborting a member (`Victim`).

The sixth workload of run `store` (`AtTheLocks`) starts any three of fifteen commands (`StoreCommands`) at once and checks what each *minimal*
deadlock looks like (`DeadlocksAreKnown`). There are four kinds, every one of them reachable,
and none that mixes them:

- on entities: two writes of one author with swapped endpoints (`storelocks_endpoints`);
- on cards, only with a command that changes several rows: two verdicts retire
  rows in the order of their proposals, so locking the *members* in id order, "so two appliers
  cannot deadlock", does not keep them from deadlocking on the members' cards;
- on the table of derivations, only between different authors: both
  inserts hold `ROW EXCLUSIVE` and wait to upgrade;
- on rows, only with a recall.

Three sessions suffice for every chain the kinds allow (rows, then entities, then cards or the
table).

### PidLock

One process is one pc in `acquire_lock`, `release_lock` or the job between them; each
system call is an action; `path` is what the lock's name links to and `file` the inodes.
A process may be killed between any two calls. A tick is ten minutes: attempts take no
time on that scale, jobs at most `JobTicks`. Weak fairness is assumed of an attempt (a
loop of system calls), not of the job.

Part "lock" of run `progress` starts two runs in every state an earlier run may have left (no
file, an empty or a full one, young or old, its pid gone or reused) and shows that one holds the
lock at a time, that a run which moved a fresh lock by mistake never deletes it (`LockIsHeld`),
that the loop ends, and that a stale lock is recovered (`LockMovesOn`). It assumes three things
the code does not ensure, each a constant of the module; changing it in `Progress.cfg` shows
the violation. (1) A freed inode is not given out again: with `ReusesInodes = TRUE` there are two
holders, since `st_ino` is all that tells the fresh lock from the stale one. (2) There are
two contenders: with three, a third takes the name between the
rename of a fresh lock and its link, and holds the lock beside the one whose file was moved.
(3) No job outlives `stale_after`: with `JobTicks = 20` and `StaleTicks = 12` (20
transcripts of 600 s against two hours) there are two holders as well.

### Extractor

The queue `mem_capture` appends to, the done marks, and one run of `mem_extract` after
another (the pid lock is `PidLock`'s; a killed run's lock is recovered). `window` is the part
of `queue[:limit]` still to be read, `cur`, `read`, `items`, `item` and `failed` are the locals of
`main`. Transcripts grow, and are deleted, between any two steps. A size is the bucket
`done_key` names; an item is known by transcript, bucket and number, because the same text
gets the same answer at temperature 0 and `is_duplicate` finds it again. A done mark
also keeps, for the properties, the size at which the text was read. A transcript deleted
between the existence check and the read is found gone by the next run, so the two are one
step. Not modelled: the second queue of the old layout, `--dry-run`, and what
`is_duplicate` compares.

Run `extractor`: three sessions (one ordinary, one with nothing to say, one that fails on
every run), `--limit 2`, two items, one growth step each, three queue records, and one
passing failure or kill at any point. `EveryItemOnce`: what is marked done has
all its items stored, and a lost answer or a kill between a write and the mark does
not store an item twice. `EverySessionReached` assumes that runs keep being started and
go on (the timer) and that **fewer sessions fail for ever than `--limit`** (20 by default): a
failing session is never marked, and as many as the window holds would keep it full.

Run `extractor_grown` refutes "a grown session re-enters the queue": `done_key` is taken
again after the answer, so growth past a boundary meanwhile marks a size nobody read.

### McpServer

The stdin thread, the workers, the writer thread and the process groups of the children
are the actors. `inflight` is the registry, `slot` and `cancelled` the two fields of `Job`,
`worker` where each call's thread is, `group` each pid's group: whose it is, whether its
leader runs, was killed, or is a zombie, and whether descendants are left. Pids are handed
out again as soon as nothing reserves them, to our next child or to an unrelated
process, and `stray` records a signal to one that is not ours. The slot's mutex is
held from before the group is killed until the slot is clear, as in `reap_leader`; the
stdout mutex while a line is written. Deadlines and graces may end at any time: only the
order is modelled. What is not: `waitid` failing and the platforms without it (they keep
a window the code documents), a thread that cannot start (a refusal like any other), what
the pump does with the pipes, and what tools compute.

Runs: `server_calls` (three requests, two with one id, two places, two children a call, and
one pid so that it is always recycled) checks who is signalled and what is left of a group
(`SignalsHitTheirGroup`), that a cancellation reaches a child being started (`CancelReaches`), that
workers stay within `HM_MAX_INFLIGHT` even when the client does not read and that the registry
finds each call (`CallsAreKnown`), and what has been answered and killed at exit
(`ShutdownSettles`). `server_liveness` assumes that threads run (weak fairness of each thread's
steps) and nothing of the client or the children; its last two properties state what more
they need as hypotheses (`KillsWork`, `DeadlinesPass`, `ClientKeepsReading`). Requests and
pids are finite, so no lock is contended for ever and weak fairness is enough.
`server_orphan` shows the window in which shutdown misses a child just spawned;
`ShutdownSettles` includes that it is the only one.

### GraphCache, PathResolution, RuleSelection

`GraphCache` is `graph()`: the copy, the Instant kept with it, the mutex held across the query,
failure, and a panic. A map is known by the tick the store was read at, so that the age of what is
answered can be compared with the ttl, however long the query took (`MapIsYoung`, over
thirteen ttls, beyond the ceiling of ten).

`PathResolution` walks a path as `resolve_fs` does, one action per iteration of its loop (`walk` is
what is left of the text, what has been resolved, and the links followed), then the root, then compares them with
`same_dir` and strips the root with `rel_to_root`. The reference is the kernel's own walk over the
same file system (`Reaches`, over the function of its steps, `KernelStep`); a path that the kernel has not walked in `MaxSteps` steps
counts as leading nowhere. In run `tier1` twelve are enough for every path, so the bound cuts no case. File systems have up to three entries under the root, links relative,
absolute and in a circle, and names in two spellings on a system of either case; paths have two or three
segments, `..` included. `InsideAsOnDisk` excludes one case that fails: on a case-insensitive
system the root itself, asked about in another case, is taken to be outside. And the root as a path brings
no global rule, since nothing is left of it to match.

`RuleSelection` answers one question after another over one exported graph: `resolve`, `expand_1hop`,
`repo_filter`, `repo_edges` and `select_constraints`. The reference selects over components as
(repository, slug) pairs, the code filters and then goes by slug; `RulesDelivered` says that the two
agree and that no rule is dropped without being named. The order of components and rules is kept as the
number that come before each. One observation it allows for: a rule of
scope "repo" hangs on a component like any other, and is named undeliverable for a question whose components
do not include it. `MorePathsKeepRules` compares each question with the one before it, which grew.

Run `tier1` checks these three.

### Tray

`app` is the `App` record (what was drawn, the note, the status, since when the worker owes an
answer), `cmds` and `ups` the two channels, `worker` where the worker thread is in its
loop, `world` the jobs as the service manager has them, `view` the menu the person is looking at,
`pressed` the last press: what the button said and what was posted. A tick is one action, everything
`tick` does, in its order; the worker takes a command, does what it says,
lists the jobs and asks the store in one step each. Its calls may fail, hang or panic.

`PressHitsWhatWasShown`, in part "tray" of run `console`: two jobs, a listing that fails or changes
once, menus rebuilt while an older copy is open. `PressAnswered`, in run `progress`: fairness is weak for the
main thread (its loop runs a tick every 200 ms), for the worker's steps (calls that return; `MayHang` is
FALSE there), for closing a menu and for time, and strong for a tick while no menu is open: a person who
opens and closes the menu for ever still leaves moments of 200 ms in which it is closed.
`tray_silent` lets calls hang and refutes what `WORKER_PATIENCE` is documented to do: the refresh
every 60 s restarts the count that would have reached 90 s.

### StoreQuery, Reading

`StoreQuery` is `run_with_timeout`: the caller, the thread that writes the query, the two that read,
the command and one process it may leave behind with any of the pipe ends. Text is counted; a pipe
holds `Pipe` units. Each wait of the caller has a limit, so it may end without what it
waited for. `AnswerIsSound` (run `console`): a reading that is accepted is all that was printed, by a command that ended well
and took its query out of the console's hands; output cut at the limit is never reported as a failing command.
`Returns` (run `progress`) assumes only that the caller goes on: nothing of the command.
A stronger reading of a comment is not true and is not run: `OkMeansAsked` (the command
*took* the query) fails, since what the pipe holds counts as written.

`Reading` scans a text token by token with the scanner's stack (`object`, `array`, `value`) and then reads
one count and one list of rows as `parse` does. The reference is the set of JSON values that fit
(`Json`): the scanner takes exactly these and stops at the first token that rules them all out (`TakesJson`). A field holds a
count, or one of the things that are none. `FiguresAreTheAnswer` says of the reading when it is refused (`Readable`) and what it
shows (`Figures`); the chunks without a model are counted there as a set, not added up as the code does.

### ConsoleFiles, SettingsFile

`ConsoleFiles` takes both saves call by call. The config: remove the neighbour, create it anew, write,
sync, rename; the settings: create or truncate, write, rename. The machine may lose power (for the
config, which is synced first), the process may die, and a reader may open the file at any
moment and read it in two halves. `SavesAreWhole` has one writer. With two writers of the settings (`Writers <- {w1, w2}`)
a reader can meet a torn file: both truncate the one `.tmp` name while the other's rename publishes it.
Nothing in the code prevents two (the settings screen and `settings set` are processes of their own).

`SettingsFile` is what the file means: lines in order, keys repeated, values empty or unreadable, the file
refused or not text; `InHook`, `InServer` and `OnScreen` are its readers, `Set` and `Unset` its writer.
`OneFile` says where the three agree and that a setting takes effect in each; `OthersKept` that a
setting changes no other. Both except what the definitions name: keys with an empty value somewhere (the screen
shows one thing, the hooks run on another: `ScreenTellsTheTruth` fails), a file that is not UTF-8 (the hooks
stop as they start, and a `set` drops the other settings). Line ends spelled by a lone CR are left out.

### ScheduleEdit, RunNow, JobFreshness

`ScheduleEdit`: `file` is the unit or plist, `bak` its copy, `held` what the service manager runs by. Copy, edit,
check, load, read back and remove the copy are actions; each may fail, with the restore each failure
leads to, and the console may die between two. `EditIsSafe`: a whole copy of the schedule is always left,
and what the person is told is so. It holds when the restoring copy itself does not fail in the one
place where its result is not looked at (`LastCopyMayFail`); with TRUE, `ToldTheTruth` fails. A third of its
messages promises more than the code does: after "the schedule was not changed" systemd may run by the edited
one when the reload after the restore fails (`NotChangedIsSo` fails).

`RunNow`: the manager starts runs by itself and when asked, and the console reads before and after. systemd
answers in one reading; launchd's list and counter are two, so that the exit code of the earlier run can be given for the
new one (`ExitIsOfThisRun` fails on launchd). `OneReadingTells` is the part that holds.

`JobFreshness` keeps the truth (`ran`) beside the traces (log time, trigger record, counter, exit
code), lets the timer fall silent, the person run the job, the log be lost, the session end, and compares what is drawn
with the truth (`NoFalseAlarm`, `DeadIsDrawn`). The exception in `DeadIsDrawn` is real: a job whose timer never fired and
that writes no log looks healthy once it has been run by hand. `MarkFollowsLines`, against
the comment on the title's mark, fails: a warning line without the mark exists.

### Autostart, Releases

`Autostart` installs and withdraws the entry, through `current` where that leads to a console and by release
where it does not, while the installer moves `current` and removes releases. As long as every release
comes with the console (the systemd half of the run) the entry never dangles; where one may come without (the launchd
half) the tray says so if it does (`EntryIsSound`).

`Releases`: `current` and `previous` are the links, `built` the directories by age, `retired` the stamps. A run
of the installer is a chain of steps, any of which may be its last. Sessions start through
`current` and keep what they resolved. `ReleasesStay`: both links lead to a release wherever a run
died, and no pinned release is removed before `PruneAge` has passed since it stopped being current.
The second half is checked with one death: with two, `PinnedStays` fails, since the stamp one death left in
place and the next did not renew makes a release look older than it is. Run `releases_deaths` shows it in the words of
`prune` itself: a release that was current a moment ago is removed (`LatelyCurrentStays`).

## Runs

| Run | Bounds | Fairness |
|---|---|---|
| `store` | six workloads: two sessions with four to six commands, or three of fifteen commands at the locks | none |
| `extractor` | three sessions, window of two, one fault | runs are started and go on |
| `server_calls` | three requests, two places, one pid | none |
| `server_liveness` | two requests | each thread |
| `progress` | two runs of a hook and three inodes; one job and one press; a query of two units | an attempt, the tray's loop and worker, the caller |
| `tier1` | two threads and 26 ticks; paths of three segments; graphs of four components | none |
| `console` | part by part, in `Console.cfg` | none |
| `server_orphan`, `storelocks_endpoints`, `extractor_grown` | as above, smaller | none |
| `releases_deaths` | three releases, five runs of the installer, two of them killed | none |
| `tray_silent` | one job, one press, calls that hang | the tray's |

`CHECK_DEADLOCK FALSE` is set where the bounds, or the program, let the system stop: a server
that has exited, commands that are done, a tray that was quit.

The five runs that expect a violation are the five findings of `PROJECT.json`. Disagreements
met while modelling, each reproduced with the module named but given no run because it is one step or one
changed bound: the inode, contenders and patience of `PidLock`; `GRAPH.lock().unwrap()` (main.rs:795),
which a panic under the lock turns into one for every later call, against main.rs:75 (`PanicStaysContained`
of `GraphCache`); and those named above in `ConsoleFiles`, `SettingsFile`, `ScheduleEdit`, `RunNow`, `JobFreshness`
and `StoreQuery`. The definitions are kept, unchecked, in their modules.

## Proofs

`MemoryStoreProofs` proves for every set of sessions, authors and projects, and any budget
of commands: `TypeCorrect`, `BeliefTimeCorrect`, `BelievedNowCorrect`, `HandoverCorrect`,
`AsOfStableCorrect`, `OwnRowsOnlyCorrect`, `WinnerStaysCorrect`. The assumptions are the ASSUMEs of
`MemoryStore`: the null values differ from real ones and `MaxTx` is a number.

The argument. `BeliefTime` is not inductive: whether the row about to be inserted may retire
another depends on what its transaction saw. `IInv` adds that ids come from the sequence
(`IdsOK`), that two transactions never hold one row and a transaction that has stopped
locking holds all it names (`LocksOK`), that while an insert is in flight the rows it
will retire are active and were last learned before its `created_at` (`InFlightOK`), and
that what a row replaced ended exactly at its `created_at` (`ReplacedOK`). A lemma per
action shows that it preserves `IInv`; the row operators (`Supersede`, `Mark`,
`HandUpdate`) have lemmas of their own. `Handover` follows from `ReplacedOK` and
`BeliefTime`; `AsOfStable`, `OwnRowsOnly` and `WinnerStays` are action properties proved
from `IInv` for the three actions that write rows (`OnlyCommitsWrite`), `OwnRowsOnly` with
one more invariant (`OwnersOK`).

`MemoryPromisesProofs` adds three safety properties, each with what `IInv` lacks for it.
`NoLockCycleCorrect`: a transaction locks its rows from the least up and waits only while some are left
(`LockOrder`), so that of any transactions that wait, the one whose next row is greatest waits for none of the
others (`OrderBreaksCycles`). `OnceOnlyCorrect`: a review that a row names is decided (`AppliedOK`), one
that a transaction claims is pending and claimed by no other (`ClaimsOK`), and a rebuild under way is its author's only
one and has found every page in force that no mark brought back (`RebuildsOK`). `AudienceNeverWidensCorrect`: no
step changes a row's author, audience or evidence (`StepKeepsRows`), an audience a verdict takes from
its group is within every member's (`VerdictWithin`), and that is still so at the commit (`AudienceOK`).

It ends with the locks beside the rows: `DeadlocksAreKnownCorrect`, for any number of sessions and any commands,
adds them to `NoLockCycleCorrect`. The inductive invariant is the type invariant of `StoreLocks`: a transaction holds the first of its locks, and no
two hold locks in conflict. What the order of a command's locks is worth is said once for all seven commands (`Orderly`):
rows rise by id unless it is a recall, cards rise where one row changes, derivations come under the author's entity. From
there no circle is walked: a deadlock is smallest (`Deadlocks`), so a part of it that waits only within itself is all
of it (`NoSmaller`). The members that wait for a kind at least as late as a given one are such a part, for kinds are taken
in order (`LevelsRise`, `SameLevel`); so all wait for one kind. The exception, a merge that refreshes cards
after its derivations, is such a part with its author's other commands, of which only one is at the derivations
(`CardsOnly`, `OneInsertPerAuthor`). Where ids rise, those that wait for an id beyond a given one are a part that leaves out
someone (`NoCircle`). The assumptions are the ASSUMEs of `Store`: what the code gives a command (a mark and a supersede name one
row, a group has two or more, pages come newest first: `CommandAssumption`), and that an entity has one author, so that two
authors refresh no card in common (`EntityAssumption`).

`MemoryBeliefsProofs` proves the refinement, `ImplementsBeliefLogCorrect`: every behaviour of the store, however many
sessions it has, is one of `BeliefLog`. The mapping reads the periods of belief off a row's
columns (`Starts`, `Ends`, `Spans`), and the lemmas about one row are where the work is: retiring a settled row closes
the period that is open and no other (`RetireSpans`), taking it up again opens one after all of them
and closes none (`ResumeSpans`), and a mark does one of these or leaves belief time alone (`MarkCases`).
From them each commit is a step of `BeliefLog`: an insert `TakeOver`, a supersede verdict `Retire`, a mark or an
UPDATE by hand `Retire`, `Resume` or a stutter; everything else leaves the rows as they are. That instants and ids stay in
`1..MaxTx` needs a count: every tick was spent by a command that was issued, and each one at work has one left (`Budget`).

The other theorems, each from an inductive invariant called `IInv` of its own, with a lemma per action:

| Theorem | For every | The step that needs an invariant |
|---|---|---|
| `EveryItemOnceCorrect` (`Extractor`) | transcripts, items, limit, number of faults | an item dealt with is in the store unless something failed, and one about to be written is not (`Reading`) |
| `MapIsYoungCorrect` (`GraphCache`) | callers, ttl, ceiling, deadline | a copy is put away within one deadline of the moment the store was read (`CopyIsDated`) |
| `SignalsHitTheirGroupCorrect` (`McpServer`) | requests, places, pids, children a call | a slot names a pid only while its group is the call's, reaped or not (`GroupInv`) |
| `CancelReachesCorrect` | the same | itself: a child is looked after under the slot's mutex |
| `CallsAreKnownCorrect` | the same | the registry and the threads that live are each other's inverse (`RegistryInv`) |
| `ShutdownSettlesCorrect` | the same | what each stage of the shutdown has settled for good (`StopInv`), and who owes an answer (`AnswerInv`) |
| `LockIsHeldCorrect` (`PidLock`) | inodes, job time, `stale_after` | a run about to rename has not judged the held inode stale, and one that moved it has yet to put it back (`Respects`) |
| `AnswerIsSoundCorrect` (`StoreQuery`) | sizes of pipe, query and output | a text read to its end is held open by nobody; a command ends by a signal for two reasons only (`Threads`, `Caller`) |
| `EditIsSafeCorrect` (`ScheduleEdit`) | edits, failures, deaths | what the file and `.bak` hold at each call (`Stage`) |
| `JobsAreAsDrawnCorrect` (`JobFreshness`, `RunNow`) | period, runs | the traces never lie about when a job ran (`JobInv`); the exit code is the newest run's unless that one is under way (`Counting`) |
| `EntryIsSoundCorrect` (`Autostart`) | releases | where every release has the console, an entry leads through `current` (`ThroughCurrent`) |
| `SavesAreWholeCorrect` (`ConsoleFiles`) | saves | an inode a save is about to create is in nobody's hands, and the one it writes is the neighbour's (`Saver`, `FileSeen`) |
| `RulesDeliveredCorrect`, `MorePathsKeepRulesCorrect` (`RuleSelection`) | graphs, paths | an answer is the selection for the paths asked (`RulesInv`); what a question comes to is said rule by rule (`Brings`, `IsNamed`), and only the paths make it grow |
| `InsideAsOnDiskCorrect` (`PathResolution`) | file systems, paths, roots, `MaxHops`, `MaxSteps` | as long as the kernel gets anywhere, the text resolved so far leads where the kernel is, through directories only (`Walking`) |
| `PressHitsWhatWasShownCorrect` (`Tray`) | jobs, answers, presses | a menu the person sees as it was drawn has the buttons of what was drawn last (`TrayInv`), however many answers came since (`DrainedKeeps`) |
| `FiguresAreTheAnswerCorrect` (`Reading`) | answers, models, largest count | a row without a model adds as many chunks to the set as it counts (`UnsetAdds`), so what is read of the first rows is theirs (`Says`) |
| `OneFileCorrect`, `OthersKeptCorrect` (`SettingsFile`) | keys, files, edits | a file the screen wrote gives each key one line or none (`RewrittenLines`), the one that was set its value (`Written`) |
| `ReleasesStayCorrect` (`Releases`) | releases, installs, `--keep`, `--prune-age` | a stamp is never older than the retirement, but for that of the current release after a death (`StampsInv`) |

`LockIsHeldCorrect` has three hypotheses (`Relied`): at most two contenders, jobs shorter than `stale_after`, and no freed inode given
out again. They are the bounds of run `progress`, and without any one of them the lock is not held, as said at `PidLock`.

The theorems of `ConsoleProofs` are about `ConsoleSpec`, each part of which goes on by itself
(`QuestionGoesOn` and its like). Their assumptions are the ASSUMEs of `Console` (bounds are natural numbers,
`NumberAssumption`; releases, none and the link are different, `NamesDiffer`), and where the code needs more it stands in
the theorem: `EditIsSafeCorrect` needs `~LastCopyMayFail`, for `set_schedule` does not look at the result of its last
copy; `SavesAreWholeCorrect` one writer and no loss of power but for the config; `ReleasesStayCorrect`
one killed installer at most. Each of these three is necessary: without it TLC finds the property violated, as said at the
module. `ReleasesStayCorrect` also states `LatelyCurrentStays`, which two killed installers break.

`RulesDeliveredCorrect` rests on the ASSUMEs of `Tier1`: an edge's ends are components of the graph, as the JOINs of
`GRAPH_SQL` ensure (`EdgeAssumption`), and the path outside the root is none of those inside (`PathAssumption`). `InsideAsOnDiskCorrect` assumes that names
other than `..` make up a location, and that what is there is a directory, a file or a link (`FileAssumption`). Its argument
relates three walks. A text without links has a location of its length, which differs from it by case only
(`LocateSpelt`), whose parts are the locations of its parts (`LocatePart`). While `resolve_fs` works, its text leads where the
kernel is, unless the kernel gets nowhere at all (`KeepsUp`); the one place where the two part, a segment that does not exist or
one link too many, is where the kernel gives up or has no segment left (`FollowKeepsUp`). So a resolved text leads where
the path does, by directories all the way (`Solid`); and of two such texts one is a part of the other, up to case, exactly if
their places are (`OnDisk`). `OneFileCorrect` and
`OthersKeptCorrect` rest on `KnobAssumption` of `Console`: keys are finitely many and no value a reader can parse is
empty or one of the words that stand for none.

Where a step of the code is a recursion over data (`Drained` reads every answer that has come, `Parse` every row, `Locate` every
segment) the proof takes the least
place where it would go wrong (`LeastNumber`, from the library's well-foundedness of the numbers): the library's own
induction theorems cannot be instantiated here.

Only model-checked: `TakesJson` of `Reading`, which compares a scanner with the set of all JSON texts, built by a recursion of its
own; and liveness under fairness, which is beyond the prover, as is ENABLED.

## Plan

What is left, in this order; each module gets its properties from the hazards in `PROJECT.json`.

1. `Consolidator`: a pass that judges, applies with a timeout, and queues reviews;
   what is reported against what happened; duplicates (`review_add`, `dream_start`). `DreamRuns` with it.
2. `Derivations`, `EventWindow`: the triggers and views of `sql/`.
3. `DocIngest`: re-ingest, embed and search over `documents` and `chunks`.
4. `FlagFlip` beside `PidLock`; the pump of a child's pipes beside `McpServer`.
5. Pure algorithms against reference definitions over small inputs: `strip_private`,
   rank fusion, `pack_context`, calendars, plists and unit files.

## Not modelled

- What a language model, an embedder or a reranker answers (a nondeterministic value where it
  matters), and the wording of prompts, tool texts and reports.
- The parsers and printers of calendars, plists and unit files (`console/src/jobs/`): pure text;
  `ScheduleEdit` takes a schedule as a number and a broken file as one.
- The setup wizard and the command lines (`console/src/bin/setup.rs`, `stats.rs`, `jobs.rs`): questions and
  printing over the operations modelled here, with no state of their own.
- Consolidator, dreamer, profile, dialectic, document ingest and the event window: planned above.
- `flag_flip`: a check and a create with nothing between them; two runs that meet there both say
  True, against its promise of once.
- Migrations, `doctor`, freshness reports: run once, by one process, over external state.
- Windows (junctions, prefixes, the platforms without process groups); icons and menus' layout;
  benchmarks, demo data, container files.
