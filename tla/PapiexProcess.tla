--------------------------- MODULE PapiexProcess ---------------------------
(***************************************************************************)
(* papiex.c as a client of libmonitor: what it does in the callbacks of    *)
(* threads and processes, from the thread table to the report. Which       *)
(* callback may begin when is left to MonitorCallbacks, whose variables    *)
(* this module shares; a callback's code is the steps below, interleaved   *)
(* with those of the other threads. Calipers, instrumentation hooks and    *)
(* their gates are the matter of PapiexCaliper, ranks of one job that of   *)
(* PapiexJob. malloc does not fail.                                        *)
(***************************************************************************)
EXTENDS Naturals, FiniteSets

CONSTANTS
  Threads, Main, NoThread,
  Parent,     \* stands for a thread of the process that forked this one
  InitSize,   \* PAPIEX_INIT_THREADS
  Setups      \* the kinds of process checked, each a record (see Setup)

ASSUME ThreadsAssumption ==
  /\ IsFiniteSet(Threads) /\ Main \in Threads
  /\ NoThread \notin Threads /\ Parent \notin Threads \cup {NoThread}

ASSUME SizeAssumption == InitSize \in Nat \ {0}

\* job: a program without MPI, one with MPI, or one under papiex --classic that
\* gathers through MPI; inherited: entries of the table a fork child starts with;
\* trouble: fatal signals arrive at any point, the disk and PAPI may fail.
Setup == [job : {"alone", "mpi", "classic"}, inherited : 0 .. InitSize - 1, trouble : BOOLEAN]

ASSUME SetupsAssumption == Setups \subseteq Setup

VARIABLES
  setup,
  phase, fini, stage, ender,       \* MonitorCallbacks
  at,            \* where each thread is in papiex's code
  leaving,       \* threads that have called exit or got a fatal signal
  in_shutdown,   \* threads in papiex_process_shutdown_routine
  known,         \* threads whose thread_data, a thread-local pointer, is their own
  counting,      \* whose data have caliper 0 running: depth is 1
  table, num, size,                \* all_threads.data, all_threads.num, all_threads_size
  papi_lock,     \* PAPI_LOCK_USR2
  called_process_shutdown, fini_mpi_called,
  total, next,   \* of the report each thread writes: nthreads and i
  files,         \* the files written, one for each entry of the table
  reported,      \* a report is complete
  outcome,       \* "running", or why papiex ended the process
  killer         \* the thread in which it did

monitorVars == <<phase, fini, stage, ender>>
dataVars    == <<known, counting>>
tableVars   == <<table, num, size, papi_lock>>
reportVars  == <<total, next, files, reported>>
stateVars   == <<called_process_shutdown, fini_mpi_called>>
endVars     == <<outcome, killer>>
vars == <<setup, monitorVars, at, leaving, in_shutdown, dataVars, tableVars, reportVars, stateVars, endVars>>

Monitor == INSTANCE MonitorCallbacks WITH MayBlock <- FALSE

Slots == 1 .. Cardinality(Threads) + InitSize
Points == {"app", "process init", "init", "append", "grow", "store", "bump", "start",
           "stop", "finish", "check", "set", "paths", "count", "write", "script"}

\* One process from the beginning of main: the first, or a fork child, which
\* keeps the table of its parent and, forked in an exit handler, its flag; its only
\* thread keeps the thread_data it had there.
Init ==
  /\ setup \in Setups
  /\ Monitor!Init
  /\ at = [t \in Threads |-> IF t = Main THEN "process init" ELSE "app"]
  /\ leaving = {} /\ in_shutdown = {} /\ known = {}
  /\ counting \in {{}, {Parent : i \in 1 .. setup.inherited}}
  /\ table = [i \in Slots |-> IF i <= setup.inherited THEN Parent ELSE NoThread]
  /\ num = setup.inherited /\ size = InitSize /\ papi_lock = NoThread
  /\ called_process_shutdown \in {FALSE, setup.inherited > 0}
  /\ fini_mpi_called = FALSE
  /\ total = [t \in Threads |-> 0] /\ next = [t \in Threads |-> 0]
  /\ files = [i \in Slots |-> NoThread] /\ reported = FALSE
  /\ outcome = "running" /\ killer = NoThread

Active == outcome = "running" /\ stage # "gone"
At(t, p) == Active /\ at[t] = p
Goto(t, p) == at' = [at EXCEPT ![t] = p]

\* LIBPAPIEX_ERROR: a message, then monitor_real_exit(1).
Error(t, why) == outcome' = why /\ killer' = t

-----------------------------------------------------------------------------
(* monitor_init_process, monitor_init_thread *)

FlagAfterInit_Kept == called_process_shutdown
FlagAfterInit == FALSE

\* A call of PAPI (init, event sets, start) that fails ends the process.
PapiFails(t) == setup.trouble /\ Error(t, "papi")

\* monitor_init_process and papiex_process_init_routine: the table keeps the
\* entries it has.
ProcessInit ==
  /\ At(Main, "process init")
  /\ called_process_shutdown' = FlagAfterInit
  /\ \/ Goto(Main, "init") /\ UNCHANGED endVars
     \/ PapiFails(Main) /\ UNCHANGED at
  /\ UNCHANGED <<setup, leaving, monitorVars, in_shutdown, dataVars, tableVars, reportVars, fini_mpi_called>>

\* papiex_thread_init_routine up to the critical section: the data of the thread
\* exist and PAPI counts.
ThreadInit(t) ==
  /\ At(t, "init")
  /\ \/ known' = known \cup {t} /\ Goto(t, "append") /\ UNCHANGED endVars
     \/ PapiFails(t) /\ UNCHANGED <<known, at>>
  /\ UNCHANGED <<setup, leaving, monitorVars, in_shutdown, counting, tableVars, reportVars, stateVars>>

NeedsRoom == num + 1 >= size

LockFree_Ignored == TRUE
LockFree == papi_lock = NoThread

\* PAPI_lock(PAPI_LOCK_USR2); a full table is reallocated, and for a moment
\* all_threads.data points to the memory realloc has freed.
TakeLock(t) ==
  /\ At(t, "append") /\ LockFree
  /\ papi_lock' = t
  /\ Goto(t, IF NeedsRoom THEN "grow" ELSE "store")
  /\ UNCHANGED <<setup, leaving, monitorVars, in_shutdown, dataVars, table, num, size, reportVars, stateVars, endVars>>

Grow(t) ==
  /\ At(t, "grow")
  /\ size' = 2 * size
  /\ Goto(t, "store")
  /\ UNCHANGED <<setup, leaving, monitorVars, in_shutdown, dataVars, table, num, papi_lock, reportVars, stateVars, endVars>>

StoreEntry(t) ==
  /\ At(t, "store")
  /\ table' = [table EXCEPT ![num + 1] = t]
  /\ Goto(t, "bump")
  /\ UNCHANGED <<setup, leaving, monitorVars, in_shutdown, dataVars, num, size, papi_lock, reportVars, stateVars, endVars>>

\* all_threads.num++; PAPI_unlock
CountEntry(t) ==
  /\ At(t, "bump")
  /\ num' = num + 1 /\ papi_lock' = NoThread
  /\ Goto(t, "start")
  /\ UNCHANGED <<setup, leaving, monitorVars, in_shutdown, dataVars, table, size, reportVars, stateVars, endVars>>

\* papiex_start(0, ""), and the callback returns.
StartCounting(t) ==
  /\ At(t, "start")
  /\ counting' = counting \cup {t}
  /\ Goto(t, "app")
  /\ UNCHANGED <<setup, leaving, monitorVars, in_shutdown, known, tableVars, reportVars, stateVars, endVars>>

-----------------------------------------------------------------------------
(* papiex_thread_shutdown_routine *)

\* What PAPI_get_thr_specific gives: the thread's own data, those it had in the
\* parent, or NULL. Nothing takes them away.
Data(t) == IF t \in known THEN {t} ELSE IF t = Main /\ setup.inherited > 0 THEN {Parent} ELSE {}

\* papiex_stop(0)
StopCounting(t) ==
  /\ At(t, "stop")
  /\ \/ Data(t) = {} /\ Error(t, "noData") /\ UNCHANGED <<counting, at>>
     \/ Data(t) # {} /\ Data(t) \cap counting = {} /\ Error(t, "notInUse") /\ UNCHANGED <<counting, at>>
     \/ Data(t) \cap counting # {} /\ counting' = counting \ Data(t) /\ Goto(t, "finish") /\ UNCHANGED endVars
  /\ UNCHANGED <<setup, leaving, monitorVars, in_shutdown, known, tableVars, reportVars, stateVars>>

\* PAPI_stop, the finish time, PAPI_unregister_thread. monitor_fini_thread
\* returns; the shutdown of the process goes on to its report.
ThreadFinish(t) ==
  /\ At(t, "finish")
  /\ \/ Goto(t, IF t \in in_shutdown THEN "paths" ELSE "app") /\ UNCHANGED endVars
     \/ PapiFails(t) /\ UNCHANGED at
  /\ UNCHANGED <<setup, leaving, monitorVars, in_shutdown, dataVars, tableVars, reportVars, stateVars>>

-----------------------------------------------------------------------------
(* papiex_process_shutdown_routine *)

ShutdownDone_Forgotten == FALSE
ShutdownDone == called_process_shutdown

CheckShutdown(t) ==
  /\ At(t, "check")
  /\ IF ShutdownDone THEN Goto(t, "app") /\ UNCHANGED in_shutdown
     ELSE Goto(t, "set") /\ in_shutdown' = in_shutdown \cup {t}
  /\ UNCHANGED <<setup, leaving, monitorVars, dataVars, tableVars, reportVars, stateVars, endVars>>

AfterGates_Report == "paths"
AfterGates == "stop"

\* The flag; the gates of the wrappers and hooks (CloseGate in PapiexCaliper).
SetShutdown(t) ==
  /\ At(t, "set")
  /\ called_process_shutdown' = TRUE
  /\ Goto(t, AfterGates)
  /\ UNCHANGED <<setup, leaving, monitorVars, in_shutdown, dataVars, tableVars, reportVars,
                 fini_mpi_called, endVars>>

\* get_base_output_path, make_output_paths: the container of an MPI job may be
\* empty, a directory that cannot be made ends the process.
OutputPaths(t) ==
  /\ At(t, "paths")
  /\ \/ Goto(t, "count") /\ UNCHANGED endVars
     \/ setup.job # "alone" /\ Error(t, "container") /\ UNCHANGED at
     \/ setup.trouble /\ Error(t, "disk") /\ UNCHANGED at
  /\ UNCHANGED <<setup, leaving, monitorVars, in_shutdown, dataVars, tableVars, reportVars, stateVars>>

\* print_process_stats: nthreads = process->num, read without the lock.
CountThreads(t) ==
  /\ At(t, "count")
  /\ total' = [total EXCEPT ![t] = num] /\ next' = [next EXCEPT ![t] = 1]
  /\ Goto(t, "write")
  /\ UNCHANGED <<setup, leaving, monitorVars, in_shutdown, dataVars, tableVars, files, reported, stateVars, endVars>>

MoreFiles(t) == next[t] <= total[t]

\* One thread's file. process->data may be memory that was just freed.
WriteThread(t) ==
  /\ At(t, "write") /\ MoreFiles(t)
  /\ \/ /\ files' = [files EXCEPT ![next[t]] = table[next[t]]]
        /\ next' = [next EXCEPT ![t] = @ + 1]
        /\ UNCHANGED endVars
     \/ (\E u \in Threads : at[u] = "grow") /\ Error(t, "freed") /\ UNCHANGED <<files, next>>
     \/ setup.trouble /\ Error(t, "disk") /\ UNCHANGED <<files, next>>
  /\ UNCHANGED <<setup, leaving, monitorVars, at, in_shutdown, dataVars, tableVars, total, reported, stateVars>>

ReportComplete(t) ==
  /\ At(t, "write") /\ ~MoreFiles(t)
  /\ reported' = TRUE
  /\ Goto(t, "script")
  /\ UNCHANGED <<setup, leaving, monitorVars, in_shutdown, dataVars, tableVars, total, next, files, stateVars, endVars>>

\* The script that turns the files into a report (not in classic mode), whose
\* failure ends the process, and PAPIEX_EXEC_CMD.
RunScript(t) ==
  /\ At(t, "script")
  /\ \/ Goto(t, "app") /\ in_shutdown' = in_shutdown \ {t} /\ UNCHANGED endVars
     \/ setup.job # "classic" /\ Error(t, "script") /\ UNCHANGED <<at, in_shutdown>>
  /\ UNCHANGED <<setup, leaving, monitorVars, dataVars, tableVars, reportVars, stateVars>>

\* monitor_fini_mpi calls monitor_fini_process itself in classic mode, to gather
\* before MPI is finalized. MPI has the thread that initialised it finalize it,
\* here the main one.
monitor_fini_mpi ==
  /\ At(Main, "app") /\ phase[Main] = "live" /\ Main \notin leaving
  /\ setup.job = "classic" /\ ~fini_mpi_called
  /\ fini_mpi_called' = TRUE
  /\ Goto(Main, "check")
  /\ UNCHANGED <<setup, leaving, monitorVars, in_shutdown, dataVars, tableVars, reportVars,
                 called_process_shutdown, endVars>>

-----------------------------------------------------------------------------
(* The callbacks begin and end as MonitorCallbacks lets them. *)

clientVars == <<setup, dataVars, tableVars, reportVars, stateVars, endVars>>

MainBegins == At(Main, "app") /\ Main \notin leaving /\ Monitor!BeginMain /\ UNCHANGED <<clientVars, leaving, at, in_shutdown>>

monitor_init_thread(t) ==
  /\ At(t, "app") /\ t \notin leaving /\ Monitor!BeginThread(t)
  /\ Goto(t, "init") /\ UNCHANGED <<clientVars, leaving, in_shutdown>>

monitor_fini_thread(t) ==
  /\ At(t, "app") /\ Monitor!FiniThread(t)
  /\ Goto(t, "stop") /\ UNCHANGED <<clientVars, leaving, in_shutdown>>

monitor_fini_process ==
  /\ Active /\ Monitor!FiniProcess /\ at[ender] = "app"
  /\ Goto(ender, "check") /\ UNCHANGED <<clientVars, leaving, in_shutdown>>

\* The thread has no callback to return from: it goes on in the application or
\* ends (papiex never makes libmonitor ignore a thread) ...
ThreadMoves(t) ==
  /\ At(t, "app")
  /\ \/ t \notin leaving /\ (Monitor!StartThread(t) \/ Monitor!ThreadOver(t))
     \/ stage = "finished" /\ Monitor!ThreadOver(t)
  /\ UNCHANGED <<clientVars, leaving, at, in_shutdown>>

\* ... or calls exit.
Exit(t) ==
  /\ At(t, "app") /\ phase[t] = "live"
  /\ Monitor!EndProcess(t)
  /\ leaving' = leaving \cup {t}
  /\ UNCHANGED <<clientVars, at, in_shutdown>>

\* A fatal signal: what the thread was doing is never finished.
FatalSignal(t) ==
  /\ Active /\ setup.trouble
  /\ Monitor!EndProcess(t) \/ (ender = t /\ Monitor!Abandon)
  /\ leaving' = leaving \cup {t}
  /\ Goto(t, "app") /\ in_shutdown' = in_shutdown \ {t}
  /\ UNCHANGED clientVars

CallbacksReturned ==
  /\ Active /\ Monitor!Finished
  /\ ender # NoThread => at[ender] = "app"
  /\ UNCHANGED <<clientVars, leaving, at, in_shutdown>>

ProcessGone == Active /\ Monitor!Gone /\ UNCHANGED <<clientVars, leaving, at, in_shutdown>>

PapiexStep(t) ==
  \/ ThreadInit(t) \/ TakeLock(t) \/ Grow(t) \/ StoreEntry(t) \/ CountEntry(t) \/ StartCounting(t)
  \/ StopCounting(t) \/ ThreadFinish(t)
  \/ CheckShutdown(t) \/ SetShutdown(t) \/ OutputPaths(t) \/ CountThreads(t) \/ WriteThread(t)
  \/ ReportComplete(t) \/ RunScript(t)

Next ==
  \/ ProcessInit \/ monitor_fini_mpi
  \/ \E t \in Threads : PapiexStep(t)
  \/ MainBegins \/ monitor_fini_process \/ CallbacksReturned \/ ProcessGone
  \/ \E t \in Threads : monitor_init_thread(t) \/ monitor_fini_thread(t) \/ ThreadMoves(t) \/ Exit(t) \/ FatalSignal(t)

Spec == Init /\ [][Next]_vars
-----------------------------------------------------------------------------
(* Properties *)

\* Every variable has its type.
TypeOK ==
  /\ setup \in Setups
  /\ phase \in [Threads -> Monitor!Phases] /\ fini \in [Threads -> 0 .. 2]
  /\ stage \in Monitor!Stages /\ ender \in Threads \cup {NoThread}
  /\ at \in [Threads -> Points]
  /\ leaving \subseteq Threads /\ in_shutdown \subseteq Threads /\ known \subseteq Threads
  /\ counting \subseteq Threads \cup {Parent}
  /\ table \in [Slots -> Threads \cup {Parent, NoThread}]
  /\ num \in Nat /\ size \in Nat /\ papi_lock \in Threads \cup {NoThread}
  /\ called_process_shutdown \in BOOLEAN /\ fini_mpi_called \in BOOLEAN
  /\ total \in [Threads -> Nat] /\ \A t \in Threads : next[t] \in 0 .. total[t] + 1
  /\ DOMAIN next = Threads
  /\ files \in [Slots -> Threads \cup {Parent, NoThread}] /\ reported \in BOOLEAN
  /\ outcome \in {"running", "noData", "notInUse", "papi", "container", "disk", "freed", "script"}
  /\ killer \in Threads \cup {NoThread}

\* Threads whose entry is in the table for good.
Entered(t) == at[t] = "start" \/ t \in counting

\* papiex.c, the critical section of papiex_thread_init_routine: threads that begin
\* together each get one entry of their own, inside the memory of the table, and
\* no entry is lost when the table grows.
OwnEntries ==
  /\ \A t \in Threads : at[t] = "store" => num < size
  /\ \A t \in Threads : Entered(t) => Cardinality({i \in 1 .. num : table[i] = t}) = 1
  /\ \A i \in 1 .. num : table[i] # NoThread

\* What can make papiex end the process without its report. Its callbacks stop the
\* counters of a thread that has none running: the thread ends the process after
\* its own monitor_fini_thread, or that callback comes twice, or the thread died
\* before it counted. Or a thread enters the full table while another writes the
\* report, which has nothing to do with the threads' ends; or PAPI, the disk, the
\* container of an MPI job or the script fails. The callbacks end it for no other
\* reason; what the hooks end it for is in PapiexCaliper.
KilledOnlyKnown ==
  /\ outcome = "noData" => setup.trouble /\ phase[killer] # "live"
  /\ outcome = "notInUse" =>
       \/ fini[killer] > (IF killer \in in_shutdown THEN 0 ELSE 1)
       \/ setup.trouble /\ phase[killer] \in {"before", "init"}
  /\ outcome = "freed" => \E u \in Threads \ {killer} : phase[u] = "init"
  /\ outcome \in {"papi", "disk"} => setup.trouble
  /\ outcome = "container" => setup.job # "alone"
  /\ outcome = "script" => setup.job # "classic"

\* A process that ends by itself has written its report, with a file for each
\* thread that had begun, unless a fatal signal cut the callbacks off, or the
\* callback of an exit found that monitor_fini_mpi was still writing it.
ReportBeforeEnd ==
  stage = "gone" /\ outcome = "running" =>
    \/ reported
    \/ setup.trouble
    \/ in_shutdown = {Main} /\ fini_mpi_called
    \/ \A t \in Threads : phase[t] \in {"before", "over"}

\* print_process_stats: the file of a thread is written after its counters have
\* stopped, if that thread writes the report or its monitor_fini_thread is over,
\* unless a fatal signal has cut its callback off and begun the end of the
\* process while the report of monitor_fini_mpi is still being written.
FilesAreFinal ==
  [][\A i \in Slots : \A t \in Threads :
       files'[i] = t /\ files[i] # t =>
         t \notin counting \/ (t \notin in_shutdown /\ (fini[t] = 0 \/ at[t] = "stop"))
         \/ (setup.trouble /\ fini_mpi_called /\ stage # "running")]_vars

\* papiex.c, "Only the main process thread comes to this routine, no other thread".
OnlyMainComes == \A t \in Threads : t \in in_shutdown => t = Main
=============================================================================
