# Verification of perftools: libmonitor and papiex

`papiex` measures hardware counters of unmodified programs. It is a client of
`libmonitor`, a preloaded library that overrides `main`, `exit`, `fork`, `exec`,
`pthread_create`, the signal functions and the MPI entry points, and calls the
client back at the begin and end of processes and threads. This directory holds
TLA+ models of that code, TLC configurations and TLAPS proofs.

## The system and its parts

| Part | Source | State | Operations | What is hard |
|---|---|---|---|---|
| Threads and shootdown | `monitor/src/pthread.c`, `pthread_h.h`, `spinlock.h` | thread nodes, thread list, free list, node arrays, one spinlock, flags | `pthread_create`, begin and end of a thread, shootdown handler and walk, block/ignore calls of the client, `sigwait` overrides | check-then-set fields without a lock, signals at any point, a list walked without its lock, a timeout |
| Process begin and exit | `monitor/src/main.c` | cookie, `fini_process_done`, `fini_library_called` | `monitor_main`, `exit`, `_exit`, `_Exit`, `pthread_exit`, `monitor_end_process_fcn`, `monitor_end_library_fcn` | several threads exit at once, exit inside a callback, losers that wait |
| Signals | `monitor/src/signal.c` | a table of dispositions, the signal lock, the shootdown signal | `sigaction`, `signal`, `sigprocmask`, dispatch, `monitor_sigaction` | masks that block every candidate, a fatal signal under the lock |
| fork, exec, system | `monitor/src/fork.c` | inherited state of all of the above | `fork`, `execve` and its relatives, `system` | a child of a process that is exiting, an exec that fails after its callbacks |
| MPI | `monitor/src/mpi*.c`, `pmpi.c` | nesting counts, size and rank | `MPI_Init`, `MPI_Finalize`, `MPI_Comm_rank` | nested wrappers, threads |
| dlopen, default callbacks | `dlopen.c`, `callback.c` | none | | |
| papiex calipers | `papiex/src/papiex.c`, `gcc.c`, `pathscale.c` | per-thread caliper records, a hash table of functions, the points of units | `papiex_start`, `papiex_stop`, `papiex_accum`, instrumentation hooks | nesting, recursion, full tables, units shared by threads |
| papiex life cycle | `papiex/src/papiex.c` | thread table, process record, flags, gates | the monitor callbacks | shutdown in the thread that won the exit race, a table that moves while it is read, fork |
| papiex job output | `papiex/src/papiex.c` | output directory, rendezvous files | rank 0 creates, the others poll | a file that exists before its content, a rank that dies or does not know its number |
| papiex launcher | `papiex/src/main.c` | a list of tokens, flags, events, the preloaded libraries | options, the event test, the start of the program | options in any order, two programs with their own idea of the settings |
| I/O and MPI wrappers | `papiex/src/makewraplib.pl`, `makempiwraplib.pl`, `mpiwrap_special.c` | a gate, and a mutex and times per thread | generated wrappers | wrappers that call each other, a gate that closes during a call |
| Reports | `papiex-report.pl`, `papiex-output2csv.py` | none | text formatting | |

The application calls an override; the override updates the library's state,
calls the real function and the client. A thread shares the node table and the
exit state with every other thread; a signal handler shares them with the code
it interrupts. `papiex` sees only the order of the callbacks: what it may rely on
is `MonitorCallbacks`, which `MonitorThreads` implements and `PapiexProcess` uses.
The processes of a job meet in the file system only (`PapiexJob`), the launcher
and the library in environment variables (`PapiexOptions`).

## Modules

| Module | Content |
|---|---|
| `MonitorThreads` | the threads, the shootdown and process exit of one process |
| `MC_Threads` | its instance for TLC: the symmetry of the threads |
| `MonitorThreadsProofs` | its inductive invariants, the theorems and the refinement of `MonitorCallbacks` |
| `MonitorSignals` | the signal table, the masks, the dispatch and the choice of the shootdown signal |
| `MC_Signals` | its instance for TLC |
| `MonitorSignalsProofs` | its inductive invariant and the theorems |
| `MonitorFork` | process begin and end, fork, exec and system, from one process to its children |
| `MC_Fork` | its instance for TLC |
| `MonitorForkProofs` | its inductive invariant and the theorems |
| `MonitorCallbacks` | abstract: which callback of threads and of process exit may begin when |
| `MpiCalls` | abstract: two callbacks for each application call of `MPI_Init` and `MPI_Finalize` |
| `MonitorMpi` | the MPI wrappers, which implement `MpiCalls`, and the published size and rank |
| `MC_Mpi`, `MonitorMpiProofs` | its instance for TLC; its invariant, theorems and the refinement |
| `PapiexCaliper` | caliper points, the instrumentation hooks and the timing wrappers of one process |
| `MC_Caliper`, `PapiexCaliperProofs` | its instance; its invariants and theorems |
| `PapiexProcess` | papiex in the callbacks, from the thread table to the report, composed with `MonitorCallbacks` |
| `MC_Process`, `PapiexProcessProofs` | its instance; the thread table, the errors, the report and its files as theorems |
| `PapiexJob` | the ranks of a job and the files they meet in |
| `MC_Job`, `PapiexJobProofs` | its instance; its invariant and theorems |
| `PapiexOptions` | the way of an option from the command line to the library's settings |
| `MC_Options`, `PapiexOptionsProofs` | its instance; its invariants and theorems |

### `MonitorThreads`

Each thread has three frames of monitor code on its stack: `pc`, the base frame
(thread creation, `monitor_begin_thread`, the application, the cleanup routine);
`xpc`, a call of `monitor_end_process_fcn`; `hpc`, the shootdown handler. A
handler interrupts the other frames, a fatal signal starts an exit frame over
both. An action is the code between two points where another thread or a handler
in the same thread can see the difference, so the check of `tn_fini_started`
(`CleanupCheck`, `ShootdownHandler`, `SigwaitHelper`) and its store
(`FiniThreadStart`, `HandlerFiniStart`) are separate, while a critical section is
one action after `AcquireThreadLock`.

* `tn` holds the fields of `struct monitor_thread_node` that decide anything;
  `key[t]` is the thread-specific pointer, `arg[t]` the argument of
  `monitor_begin_thread`. The two differ: before `BeginThread` a thread has an
  argument and no key, an ignored thread has neither.
* `thread_list` and `free_list` are sets. Their order chooses among equivalent
  nodes only; the walk keeps the set of nodes it has visited.
* `tn_array` and `tn_array_pos` are the current array's first node and the next
  unused element; the arrays lie end to end in `Node`.
* the counters of the walk, its clock (only whether ten seconds without progress
  may have passed) and `my_tn` are variables because one thread runs the walk.
* The callbacks of the client are points at which the thread stays for a while:
  `init`, `fini`, `begin`, `selffini`, `lib` and so on. They return, as the
  library assumes; that they may be interrupted by an exit or a signal is
  modelled.
* `Moves` switches the rarer moves of the environment, so that each
  configuration combines the ones its question needs: `crash` (fatal signals at
  every point), `cancel` (`pthread_cancel` in the wait for thread support, in
  `init_thread`, in the `monitor_fini_thread` that the cleanup routine calls, in the
  loser's poll, in an exit handler and in the winner's callbacks), `block`
  (`monitor_block_shootdown`),
  `ignore` (`monitor_disable_new_threads`), `early` (`pthread_create` before
  `main`), `sigwait` (the application waits for signals itself). `Exiters` names
  the threads that may call exit. `Spec` is the same for all of them and the
  theorems hold for every choice.

Abstractions: user data, thread ids and stack sizes are left out; a failing
`malloc` of a node array ends the process in the code and stops the model, so the
bound `MaxArrays` is chosen large enough never to be met. A signal pending for a
dead thread stays undelivered. A cancellation is modelled where the code leaves it
enabled round a callback or a wait; that of main, and that of the thread whose
first `pthread_create` is in the client's `init_thread_support`, are not. The
handler and the sigwait helper disable it (`pthread.c:469-475`, `1187-1193`), the
cleanup routine does not (`879-885`). `MainStart` does not reset the flags that
`main.c:259-260` resets, because they are clear in a first process; the reset is
in `MonitorFork`.

### `MonitorSignals`

The state is `monitor_signal_array` as sets of signals (`keep_open`, `blocked`,
`client`, `appl_hand`) and two functions (`appl_act`, the masks in `kern_act`),
the lock and `shootdown_signal` of `signal.c`, and what the kernel holds: the
installed handler and `sa_mask` of each signal and the mask of each thread. A
thread has two frames, its normal code and one handler of the application (or the
end of the process after a fatal signal) on top of it; both call the library.
`RemoveClientSignals` and `ChooseShootdownSignal` are the two critical sections.
The steps outside them are separate actions: the client's mark and handler, the
record of a disposition, the write of the mask into the shared table, and the
calls of the kernel, before which another thread may run.

Signals are numbers in the order of `monitor_shootdown_list`, so the first match
of the code's loops is the smallest. Signals on the avoid list and those the
kernel refuses are left out, because every operation returns early for them.
`monitor_appl_sigaction` without an action changes nothing. The mask a process
inherits at its start is taken to be empty, as the code does when it clears
`mse_blocked`. The process has used threads; otherwise no signal is chosen.
`Moves` again switches moves of the environment.

When the kernel delivers a signal it adds the signal itself and its `sa_mask` to
the thread's mask until the handler returns. `deferred[t]` remembers what a thread's
mask holds only for that reason: the delivered signal, and its `sa_mask` if the
signal is `torn`, that is, if its last real `sigaction` installed a mask that an
overlapping call had just written and not yet reduced (`signal.c:656-658`). The
properties call a signal shut if a thread blocks it beyond that time (`Shut`). The
code marks what masks hold and never asks whose handler is running, so no stronger
form holds (`ChosenIsReceivable` below). Flags that change this (`SA_NODEFER`) are
left out, as are nested handlers.

### `MonitorFork`

Processes share no memory, so the model follows one at a time. `Fork(t)` goes on
in the child, with a copy of the library's static data `mem` and with the calling
thread as its only thread, at the place where that thread was; the parent's side
of fork changes nothing of the library's state. A successful exec starts a new
program in the process with fresh data (the environment keeps libmonitor
preloaded). So a behaviour is a line of descent, and a property of all behaviours
is one of all processes.

* `pc` has the points of application code from which anything can be called: a
  constructor before `main` (`premain`), the program (`run`) and an exit handler
  (`atexit`). `call` remembers where an override returns to.
* `log` counts the callbacks of the current program and notes whether
  `monitor_begin_process_fcn` ran after an exit had begun (`late`).
* The lock is `orphan` in a child whose parent had another thread inside a
  critical section. Creation, start, end and shootdown of threads are kept as far
  as they use the lock, the list and the flags that a child inherits; the windows
  inside them belong to `MonitorThreads`.
* Whether `access()` is right about an exec is the environment's choice: an
  announced exec succeeds (`ExecSucceeds`) or fails and the application goes on
  (`ExecFails`); an unannounced one may succeed (`UnexpectedExec`).
* `system` saves, sets and restores the action of SIGCHLD (`chld`, `saved`); what it
  does to SIGINT and SIGQUIT decides nothing here and is left out. The command is
  `running`, then a `zombie` whose status waits for `waitpid`, or `reaped` by the
  kernel because SIGCHLD is ignored. Other threads may fork, exec and call `system`
  meanwhile; `alone[t]` says that `t` began its call while nobody else was in one.
* `Moves`: `threads`, `exec` and `system` allow those calls.
* `EndLibrary` is the test, the callback and the store of `main.c:240-245` in one
  step: two threads that meet there may both make the callback, which
  `LibraryFinished` allows, and nothing else depends on the order.

Fatal signals and `pthread_exit` reach the same `monitor_end_process_fcn` and are
in `MonitorThreads`.

### `MonitorCallbacks`

What a client of libmonitor sees of one process: a `phase` for each thread, the
number of `monitor_fini_thread` callbacks it got (`fini`), and how far the end of
the process is (`stage`, `ender`). An action is the begin of a callback, or a
step of a thread or the process that decides which callbacks may follow. It says
what the code keeps and no more: `monitor_fini_thread` may come twice while the
process ends, `monitor_init_thread` may begin after `monitor_fini_process` has
returned, and a fatal signal may abandon the callbacks.

`MonitorThreads` maps to it by `PhaseOf`, `StageOf` and `EnderOf`; the property
`ClientPromise` is `Callbacks!Spec`. `PapiexProcess` shares its variables and
takes each of its actions together with the code papiex runs there, so a result
about papiex does not depend on the details of `pthread.c`.

### `MonitorMpi`

There are twelve wrappers, eight of initialisation and four of finalization; the
three spellings of a Fortran name are one. `stack` holds those the initialising
thread is inside of. The real function behind a wrapper may call any wrapper below
it (`Level`): Fortran over C over PMPI. A wrapper increments its counter and makes
the callbacks if it finds 1 (`IsOuter`). `MPI_Comm_rank` and `monitor_set_size_rank`
are cut where another thread may come in between: the test of `first`, the store of
size and rank, and the reset of `first`. A size or rank is the communicator it was
asked of; the MPI library may ask with one of its own (`"internal"`) inside the real
functions. MPI is initialised and finalized by one thread, as the standard demands.
`raced` remembers that two first calls overlapped, the exception of `AnswerStays`.

### `PapiexCaliper`

Counters are the cycles of each thread (`clock`), the other counters being
assigned beside them. `program` chooses what runs: calls of the three operations
by the user, GNU or Pathscale instrumentation, or I/O and MPI calls, which do not
share state. `spent` and `io_spent` are the reference: what a point and the I/O
calls should hold, counted by each tick. `exact[t][p]` is lost when a read of the
counters was skipped (the zero-counts rule of multiplexing in the first second).

`gcc.c` and `pathscale.c` are cut where threads interleave: `UnitEntry` tests the
sign of a unit's point, `FirstEntry` flips it. `stage[t]` says what papiex knows of
a thread: nothing (a `stranger`, whose creation libmonitor was told to ignore),
`counted`, `shut` after `ThreadShutdown`, which destroys the table of gcc's hooks
and stops point 0 but leaves the thread's data and the gate as they are, or `gone`.
`ForkChild` goes on in the child: its data are new and empty, while it is still
inside the calls and loops of its parent (`inherited`). `KeyOf` is the undefined
behaviour of `gcc.c:65` described below: with `keys = "any"` a function may be found
under bytes that are not its own. `total_points` is thread-local in the code, so
units initialised by different threads may get the same point; `SeparatePoints`
speaks of those of one thread, and `Shared` is one of the causes `KilledOnlyKnown`
names. The wrappers of `makewraplib.pl` and `makempiwraplib.pl` are two actions
each, and those of `mpiwrap_special.c` are named.

`UnitInit` is one call of the initialising hook with one loop or call. A unit with
several takes that many numbers in a row from `total_points`, like several units,
and its records share nothing else (`pathscale.c:179-181`, `267-269`). A second
initialisation of the same unit is left out: the compiler calls the hook once.

### `PapiexProcess`

A thread is at one of the points of papiex's code (`at`) while it is in a callback,
and every point is one another thread can see: the four steps of the critical
section that appends to `all_threads`, the test and the set of
`called_process_shutdown`, and each file of the report. A process starts as the
first one or as a fork child, with the table and the flag of its parent
(`inherited`). papiex finds a thread's data by a thread-local pointer of its own
(`papiex_internal.h:304-307`), which a shutdown never clears: `Data(t)` is the
thread's own record once `t` is in `known`, that of the parent in the one thread a
child starts with, and nothing before. Whether a stop goes well depends on the depth
of point 0 only (`counting`). Each `setup` says what the process is part of (`job`:
a program without MPI, one with MPI, one in classic mode), what a child inherits
(`inherited`) and whether fatal signals arrive and the disk and PAPI may fail
(`trouble`). `outcome` says why papiex ended the process with an error, and `killer` in
which thread. `monitor_fini_mpi` runs in the main thread, because the standard demands
that the thread that initialised MPI finalizes it; PAPI calls that fail while a
thread or a process begins are left out.

### `PapiexJob`

A step is one file operation of one process. `.papiex.output` is absent, empty (made
by `fopen`, not yet written) or full, and `complete` are the placeholders. The
master's test for a placeholder and its removal are two steps (`MeetRank`,
`RemovePlaceholder`), between which another process that takes itself for the master
may come. A job starts with a container from an earlier run or without. `Setups`
chooses who calls `MPI_Comm_rank` and `MPI_Finalize`, whether the user gave an
output file (`named`), and whether a rank forks or processes die and scripts fail.
`MPI_Init` is the only barrier; `MPI_Finalize` need not be one.

### `PapiexOptions`

One request passes through two programs. The launcher reads one argument after
the other (`Option`) into the tokens `opts` and the flags, tests the events
(`TestEvents`) against the machine (`Known`, `Countable`, `Conflicts`), and starts
the program with tokens and libraries; `monitor_init_library` decodes the tokens
and `InitRoutines` adds the events once more. The two loops over `strtok`, which
keep the events that fit (`make_compatible_eventset`) and decode the tokens, do one
round per step; `at` counts the rounds. Tokens are words with an argument,
because `parse_args` decides by the words already in the string (`Found`); the
parsing of numbers and the text of messages are left out. The library sets its
domain before it adds the events; `Unsupported` are the domains the machine cannot
count in. Whether an event can be added is taken not to depend on the domain.

## What is checked

| Run | Question | Expected |
|---|---|---|
| `threads_pair` | Are nodes, list and walk consistent when two threads are created, end, are cancelled and are recycled while main exits? `TypeOK`, `NodesNotShared`, `ShootdownComplete`, `ListFrozen` | pass |
| `threads_hang` | With fatal signals anywhere, does exit run its callbacks once (`OneFiniProcess`), does nobody leave early (`CallbacksBeforeExit`), are the four named situations the only ways to hang (`ExitCompletesOrStuck`), and is every order of callbacks one that `MonitorCallbacks` allows (`ClientPromise`)? | pass |
| `threads_live` | Without fatal signals, does the process end whenever a thread calls exit, unless a cancellation abandoned the exit or hit a callback (`ExitCompletes`)? | pass |
| `threads_double` | Does a thread get `monitor_fini_thread` at most once (`FiniThreadOnce`)? | violation |
| `signals` | While two threads and their handlers change masks and dispositions, the client registers handlers and the process exits or dies, is a candidate for the shootdown open in every thread until one is chosen (`OpenUntilChosen`), is a reserved one still open when the exit begins (`ReservedStaysOpen`), is a chosen one open when it is chosen (`ChosenIsOpen`), always apart from what the kernel blocks for the time of a handler? | pass |
| `fork` | Whoever forks, execs, calls `system` or exits, and whenever: one `init_process` per process (`OneInitProcess`), one `fini_process` before its end or an announced exec (`FiniBeforeEnd`), a `fini_library` at its end (`LibraryFinished`), no waiting for threads of the parent (`NoGhostThreads`, `AbandonedOnlyLate`), a status for every `system` that did not begin during another one (`StatusKept`), and overrides that return (`OverridesReturn`)? | pass |
| `mpi` | However the wrappers nest and whichever threads ask: two callbacks per application call (`OncePerApplicationCall`, the refinement of `MpiCalls`), no size or rank of an internal communicator (`NoInternalRank`), and one answer that stays unless two first calls overlap (`AnswerStays`)? | pass |
| `caliper` | Does a point hold exactly the cycles between start and stop (`Accounted`), is time in nested wrappers counted once (`TimeCountedOnce`), does nobody share a point (`SeparatePoints`), and are the named causes the only ones for which the instrumentation ends the program (`KilledOnlyKnown`), a thread's shutdown, a fork and a thread without data included? | pass |
| `process` | With threads that begin, end, exit and die in any order: one entry per thread in the table (`OwnEntries`), no error that ends the process without its named cause (`KilledOnlyKnown`), a report before the end (`ReportBeforeEnd`), and files written after the counters have stopped (`FilesAreFinal`)? | pass |
| `process_exit` | Without fatal signals, does only the main thread run the process shutdown (`OnlyMainComes`)? | violation |
| `job` | Does the script that rank 0 starts see the files of every rank (`ScriptSeesAll`), and does every job end or wait for a file that can be named (`JobEnds`)? | pass |
| `options` | Does what was asked for arrive in the library whatever the order (`Delivered`), are incompatible options refused in both orders (`CompatibleOnly`; not `-x` and `-q`, see below), are all events kept that could be (`EventsKept`), and do tested events run in a domain the machine supports (`CheckedEventsRun`)? | pass |

### Bounds

Two threads beside main are enough to recycle a node while another one is being
created, to have a loser and a victim of the shootdown, and with `ArraySize = 1`
to fill the first array and allocate a second one. The runs about liveness use
one thread beside main, which already gives a winner and a loser, a handler that
interrupts a callback and a thread that never takes the signal; a second thread
multiplies the states without a new situation. The threads are interchangeable,
so `threads_pair` uses their symmetry; no liveness run does. Deadlock is checked
except in `threads_hang`, where a thread that spins on a lock held by itself
really stops, and in `threads_live`, where losers poll for a winner that was
cancelled.

The run of `MonitorSignals` has one candidate and the last resort, which is the
shortest list with a first and a second choice, and three calls of the overrides
(`MaxCalls`): two masks that together cover the list, and a third call or a
registration of the client between them. It does not check deadlock: a handler
that waits for the lock its own thread holds stops for ever.

The run of `MonitorFork` has two threads: one can fork while the other exits or
holds the lock, which is what a child can inherit; forks and execs may follow each
other without bound, because the state is that of one process. Deadlock is not
checked, because a process ends, as it does in the runs below.

`mpi` has all twelve wrappers, so every depth of nesting, two threads that can make
the first call of `MPI_Comm_rank` at once, and two communicators of the
application beside the internal one. `caliper` has three points per thread
(`MaxCalipers`), of which one is the thread's own: three functions and three units
fill the table and leave one without a point. Stacks are two deep (`MaxStack`),
enough for recursion and for a wrapper inside another. A thread computes for up
to four cycles: start, a pass, an accumulation and a stop at different times.
Loops and functions of Pathscale run in two threads, which can meet in the first
entry of a unit. `process` has three threads and a table for two, so that the
table grows once while another thread appends or writes the report. `job` has
three ranks, so that the master waits for two and one of them can be last, and
one fork child. `options` reads every sequence of three out of 37 arguments: each
pair of options in both orders, with a third one before, between or after them.
The events include an unknown one, one that cannot be counted
and two that exclude each other unless multiplexed. The theorems about the module
have no such bound: they hold for command lines of any length.

### Fairness

A step of monitor's own code is weakly fair in every thread: threads are
scheduled, and callbacks return. What the application, the client or the system
may leave out has no fairness: creating threads, ending them, calling exit,
delivering the shootdown signal, the command of `system`. The timeout is strongly
fair, because the walk starts again and again and the clock moves on however the
walks and the clock interleave. `OverridesReturn` names the two situations in which
a child waits for its parent's thread (`Abandoned`, `OrphanLock`); both are
reachable. In `PapiexJob` each process's steps in papiex are weakly fair, and so
are those that bring the application to its end, without which no job ends; forks
and crashes are not. The other modules state no fairness and no liveness: their
code has no loop that waits.

The four situations `ExitCompletesOrStuck` names (`StuckOnLock`, `StuckInCallback`,
`StuckWithoutWinner`, `StuckOnCancelled`) are reachable, the last two in
`threads_live` too: the negation of each is violated in these instances. So are both
causes of waiting in `JobEnds`, and each cause that the two `KilledOnlyKnown` name.

## Where the code and its documents differ

Two runs show such a difference and are findings in `PROJECT.json`.

* `threads_double`: the cleanup routine tests `tn_fini_started` and stores it in two
  steps (`pthread.c:869-879`); the shootdown handler that arrives in between calls
  `monitor_fini_thread` a second time.
* `process_exit`: `papiex.c:1784` says only the main thread comes to the process
  shutdown. It runs in whichever thread wins the race to exit. In the trace a thread
  calls exit, its own `monitor_fini_thread` stops its counters, and then it is in the
  process shutdown; the `papiex_stop(0)` there (`papiex.c:1837`) finds point 0 not in
  use (`1507-1510`) and ends the process without a report.

Eight more are stated in the modules and can be seen by adding the definition to a
configuration:

* `FiniThreadBeforeFiniProcess` (`MonitorThreads`, invariant of `threads_hang` or
  `threads_pair`): a thread that is linked but has not reached `tn_appl_started` is
  passed by the walk (`pthread.c:574`); it may be in `monitor_fini_thread` while
  `monitor_fini_process` runs, against `tests/exit.c:5`.
* `RefusedOnlyAfterExit` (`MonitorThreads`, property of `threads_hang`): when main
  leaves by `pthread_exit` the process goes on with its thread creation disabled
  (`pthread.c:1104`), although the comment speaks of `exit()`.
* `OpenDuringShootdown` (`MonitorSignals`, invariant of `signals`): the shootdown
  signal is open when it is chosen and not kept open (`signal.c:515`); a thread that
  blocks it meanwhile is waited for until the timeout.
* `ChosenIsReceivable` (`MonitorSignals`, property of `signals`): the comment at
  `signal.c:488-492` speaks of an unblocked signal, but a thread inside the handler of
  the chosen one cannot receive it until the handler returns; the choice looks at
  what masks held, not at running handlers.
* `StatusAlwaysKept` (`MonitorFork`, invariant of `fork`): the comment of
  `monitor_system` refers to Stevens for the signals, whose rule is that the status of
  the command is there for `waitpid`. Of two calls that overlap, the first to end puts
  an ignored SIGCHLD back while the command of the other is still running.
* `AnswerAlwaysStays` (`MonitorMpi`, property of `mpi`): `mpi.c:82-83` promises
  consistent answers, but the test and the reset of `first` (`mpi.c:93-97`) are not
  one step, so the first calls of two threads may both store.
* `ScriptOnce` (`PapiexJob`, invariant of `job`): `papiex.c:1851` says the script is
  launched exactly once for the whole job. A rank that leaves without
  `MPI_Finalize`, or was not announced by `monitor_init_mpi`, keeps `myrank = 0` and
  starts it too, as does a fork child of rank 0, while the others may be writing.
* `LosersLeave` (`MonitorFork`, property of `fork`): a child of a process in exit
  polls for a winner that only its parent has (`main.c:260`).

One is left out of a property by hand: `-x -q` and `-q -a` are accepted although
`man/papiex.1:127` says that `-x` is not compatible with `-q`; `-q -x` is refused
(`main.c:550`). `CompatibleOnly` speaks of the other pairs.

The models also show behaviour that no document speaks of:

* If rank 0 cannot make the container, dies before, or leaves without `MPI_Finalize`,
  the other ranks wait for it for ever; if another rank leaves without
  `MPI_Finalize`, it marks rank 0 as complete and the master waits for ever for its
  placeholder, as it does for a rank that never calls `MPI_Comm_rank` and has rank -1,
  and for one that read the container between `fopen` and `fclose` and ended with an
  error.
* A fork child of a rank keeps `myrank`: a child of rank 0 writes `task_0` and consumes
  placeholders. The process initialisation of any process removes the container.
* A thread that is cancelled in the `monitor_fini_thread` of its cleanup routine stays
  on the list, started and never done: the walk waits for it without a timeout if no
  thread is unstarted (`StuckOnCancelled`). A winner cancelled in its callbacks leaves
  the losers polling (`StuckWithoutWinner`).
* A fork child that returns from an instrumented function it did not enter ends:
  its data are new and the gate is open. So does, with gcc, a thread that returns
  from a function after its shutdown routine has destroyed the table.
* `gcc.c:65` ignores the pointer `ultohexstr` returns, so the key of a function in
  the hash table starts with uninitialised bytes of the stack.
* The first entry of a Pathscale unit is tested and flipped without a lock, so two
  threads may flip it twice; the next hook then ends the program.
* A recursive function ends an instrumented program, because its point is in use.
* The wrappers for thread synchronisation are preloaded and never used: the default
  in the library is off (`papiex.c:2986`) and no token turns it on.
* The word of an option is searched in the whole option string, so a `-E` file whose
  path contains `FILE` or `DIR` makes `-o`, `-f` or `-p` fail.
* Exactly `PAPIEX_MAX_COUNTERS` events are refused although the message says
  "exceeded".

## What is proved

`MonitorThreadsProofs` proves for every set of threads, every array size, every
number of arrays and every choice of `Moves` and `Exiters`:

* `TypeCorrect`: `Spec => []TypeOK`;
* `NodesNeverShared`: `Spec => []NodesNotShared`;
* `FiniProcessOnce`: `Spec => []OneFiniProcess`;
* `NobodyLeavesEarly`: `Spec => []CallbacksBeforeExit`;
* `ListNeverChanges`: `Spec => ListFrozen`;
* `ShootdownReachesAll`: `Spec => []ShootdownComplete`.

They rest on the assumptions of `MonitorThreads` on its constants only (main is
not one of the other threads, sizes are positive) and on the theorem `Inductive`,
`Spec => []IInv`. None of the properties is inductive alone:

* `NodesNotShared` needs that a node handed out by the arrays is below the next
  unused one and that no owner's node is (`NodeInv`), and that a thread chosen by
  a `pthread_create` in progress belongs to one caller (`ThreadInv`);
* that a winner who comes back does not overtake another winner needs that the
  node with `tn_exit_win` is found by one thread only (`ExitInv`), which follows
  from the same facts about nodes (lemma `OwnTn`);
* `ListFrozen` needs that exit cleanup begins only in a process that has used
  threads, for otherwise the first `pthread_create` would empty the list
  (`CleanupInv`);
* the type of the set of pending signals needs that a linked node holds its
  thread's identity (`SelfInv`).

`MonitorSignalsProofs` proves for any threads, signals, lists and `Moves`:
`SignalTypes` (`TypeOK`), `AlwaysOneOpen` (`OpenUntilChosen`), `ReservedIsOpen`
(`ReservedStaysOpen`) and `ChoiceIsOpen` (`ChosenIsOpen`). The inductive invariant
`SignalInv` (theorem `SignalInductive`) says that whatever a thread blocks, will block
or restores is marked in `blocked`, but for what the kernel added for the time of a
handler (`MaskInv`); that a call about to install its mask has marked it, unless
another call for the same signal has rewritten it (`ReadyInv`, `Rewritten`), and
then the installed mask is noted as `torn`; and that an unmarked candidate is left
until the exit has chosen (`AvailableInv`). The last part has to follow the exit from
its unlocked test of `shootdown_signal` to its choice, because a signal may be
reserved in between. That the kernel's additions end with the handler is a part of
`MaskInv`: a thread that is in no handler has `deferred` empty.

`MonitorForkProofs` proves for any threads and any `Moves`: `InitProcessOnce`,
`FiniProcessFirst`, `OnlyLateAbandoned`, `ShootdownHasNoGhosts`, `LibraryEnds` and
`SystemKeepsStatus`. The invariant `ForkInv` says
that a thread in an override returns to application code (`CallInv`), that
constructors run only in the main thread of a process that has not reached main
(`MainInv`, without which a fork from a constructor could initialise a process
twice), that from the compare-and-swap to the return of `monitor_fini_process` one
winner exists and nobody is past `monitor_end_process_fcn` (`ExitInv`), that an
unfinished thread on the list exists (`ListInv`), and that
`monitor_fini_library_called` means a call in this process (`LibraryInv`).
`SystemInv` says that while a thread is in a call of `system` that began alone,
SIGCHLD has the default action and every later call has saved just that, so that
none of them can put back an ignored one; forks and execs of others do not touch it.

`MonitorThreadsProofs` also proves `PromiseKept`: `Spec => ClientPromise`, that
`MonitorThreads` implements `MonitorCallbacks` for any threads, arrays, `Moves`
and `Exiters`. `MapStep` has one case per action: most steps are invisible to the
client (`AsStutter`), and one lemma for each action of `MonitorCallbacks`
(`AsBeginThread`, `AsFiniThread`, `AsThreadOver`, ...) says what a step has to do
to the phases, the stage and the winner to be that one. The guards come from
six more invariants: no callback needs the client before `main` (`MainInv`);
signals, waits and `monitor_fini_process` belong to the end of the process
(`CookieInv`); a thread is on the list under its own name between linking and
unlinking (`ListInv`), so the walk finds the walker's own node (`WalkInv`);
`tn_appl_started` and `tn_fini_started` follow the base frame (`MarkInv`); and a
thread has been told to finish exactly if its node says so, twice only if a check
was made before the first call and the process is ending (`CountInv`).

`MonitorMpiProofs` proves for any threads, communicators and nesting: `TypeCorrect`
(`TypeOK`), `NoInternalRankHolds` (`NoInternalRank`), `AnswerStaysHolds`
(`AnswerStays`) and the refinement `CallsRefined` (`OncePerApplicationCall`). The
invariant says that only the outermost frame of the stack is `outer` and that the
counter is the depth of the stack (`Stacks`), so the counter is 1 for exactly one
frame per call; that what a thread inside the real functions asks of is never
stored (`InternalInv`); and that one thread writes unless two have raced
(`WriterInv`).

`PapiexCaliperProofs` proves for any threads, functions, units, points and
programs: `PointsAccounted` (`Accounted`, inductive with the types of the records
in use, `CalType`) and `PointsSeparate` (`SeparatePoints`). The second needs that
points in the hash table are distinct and not above `max_used` (`GccInv`) and that
those of a unit are below the `total_points` of the thread that initialised it
(`PathscaleInv`). `TimeOnce` (`TimeCountedOnce`) rests on `WrapperInv`: a wrapper that
takes the time is the outermost I/O call of its thread, and the total and its
running time add up to the time spent (`OutermostTimed`). `EndedForKnownReasons`
(`KilledOnlyKnown`) needs an invariant over the nesting of instrumented calls,
`HooksInv`. For gcc (`GnuFrames`): while the gate is open, the points that run are
those of the functions a thread is inside of, each entered once, and a function
without a point found the table full; so an exit hook finds its point running. For
Pathscale (`ThreadUnits`, `ThreadOpen`): a point that runs belongs to a unit the
thread has entered, whose number is positive from then on, and a unit with a
positive number inside its first entry was entered by another thread too; so the
sign is flipped back only in that race. The frames speak of the calls a thread has
made since its data exist: those its parent made (`inherited`) lie below them, and
what a return from one of these does is a named cause. A third part ties the errors
that any program can meet (`AnyProgram`): only strangers have no data, and point 0 of a
thread runs until its shutdown, which therefore never fails. The invariant holds
while no error has ended the program, because nothing can happen after one.

`PapiexProcessProofs` proves `EntriesOwned` (`OwnEntries`) for any number of
threads, any first size of the table and any inherited entries. `LockInv` says that
one thread is in the critical section and that it has room, `OnceInv` and
`CountInv` that a thread has an entry from its count on and only one.
It also proves `ReportComesFirst` (`ReportBeforeEnd`), `OnlyKnownErrors`
(`KilledOnlyKnown`) and `WrittenWhenFinal` (`FilesAreFinal`). `EndInv` says that the
flag is set only by a thread that is on its way to the report (`FlagInv`) and that
nobody is in the shutdown of the process but the main thread in `monitor_fini_mpi` and
the thread that ends the process (`ShutdownInv`). `KillInv` says which threads have
data of their own and whose point 0 runs: the main thread's until the flag is set
(`MainCounts`), another one's until its `monitor_fini_thread` (`ThreadCounts`), and
that a thread leaves before that only in trouble (`TroubleInv`). `FileInv` adds what
is left of that after a fatal signal (`CutOffInv`) and without one (`NoSignalInv`).

`PapiexJobProofs` proves for any number of ranks and any kinds of job: `JobTypes` and
`ScriptAfterAll` (`ScriptSeesAll`). `RankInv` ties `myrank` to what libmonitor tells,
`WroteInv` says that a placeholder stands for a rank that has written, `MeetInv` that
the one being removed is not beyond the last, and `SeenInv` that every rank below
`waiting` has written, as long as no fork child makes placeholders of its own.

`PapiexOptionsProofs` proves for command lines of any length, any arguments, events
and conflicts: `IncompatibleRefused` (`CompatibleOnly`), `SettingsDelivered`
(`Delivered`), `EventsArrive` (`EventsKept`) and `TestedEventsRun`
(`CheckedEventsRun`). `ChoiceInv` says what each option leaves behind until the
launcher ends: the flags (`FlagsInv`), the type of profile (`ModeInv`), the tokens
(`TokensInv`, where the last token of a kind has the argument of the last option),
and that of two incompatible options one is missing (`CompatInv`). It makes the
refusals symmetric: each option of a pair looks for the token of the other
(`RefusedPairs`). `LibInv` says that after `at` rounds the library's settings are
what the first `at` tokens say (`Decodes`), for which one lemma states what a token
does to each setting (`Decoded`). `EventsInv` follows the events: every one of `-e`
stands at its place in the list (`ListedInv`, `Complete`); one that was tried is kept
or can no longer be added (`KeptInv`, since more events never make room); the list
that leaves the test was asked for and can be counted, unless the test was
switched off (`Left`, `Tested`); and the event tokens are one block, of which the
library has read the part before `at` (`Block`, `Passed`). That the library has the
launcher's idea of multiplexing follows from `ChoiceInv` and `LibInv` together. The
three invariants hold in the instance of `options` too.

Each conjunct of the invariants has one lemma with one step per action. The type
invariants of `MonitorSignals` and `MonitorFork` are conjuncts of theirs and are
stated as `SignalTypes` and `ForkTypes`. The theorems assume the named assumptions
on the constants in the modules and nothing else; what a property excepts it names
itself.

Only model-checked: the liveness properties (`ExitCompletes`, `ExitCompletesOrStuck`,
`OverridesReturn`, `JobEnds`), which the prover cannot handle, and the violated
properties of the two findings. Every invariant and every other action property of
the passing runs is a theorem.

## Plan

What is left, in the order of its worth: the safety part of the liveness arguments as
theorems (what a step of the walk or of the rendezvous makes smaller, and that a
process which waits is in one of the situations `Abandoned`, `OrphanLock` or those
of `JobEnds`), and a job whose ranks are whole instances of `PapiexProcess`.

## Not modelled

* libmonitor: `dlopen.c` passes a call on between two callbacks and `callback.c` holds
  empty default callbacks: no state changes. Symbol lookup, debug output,
  stack-size adjustment and address queries decide nothing. `queue.h` is the list
  macros, modelled as sets. The copies of argument lists and environments and the
  PATH search of `fork.c` are reduced to the outcome of the exec.
* papiex: `pclookup.c` (addresses to source lines), `memory.c` and the texts of
  `eventinfo.c` compute what is printed. The statistics over threads and ranks in
  classic mode are arithmetic over finished data, and the MPI calls that gather
  them run inside `monitor_fini_process`, which `PapiexProcess` models as one report.
  The arguments for the launcher in `PAPIEX_DEFAULT_ARGS` are arguments like the
  others; what `-i`, `-l`, `-L` and `-V` print is text.
* Reports (`papiex-report.pl`, `papiex-output2csv.py`): text of finished files.
* The build system, patches, containers and vendored tools.
