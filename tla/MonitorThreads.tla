--------------------------- MODULE MonitorThreads ---------------------------
(***************************************************************************)
(* Threads and process exit in libmonitor: pthread.c (thread nodes, the    *)
(* pthread_create override, thread begin and cleanup, end-of-process       *)
(* shootdown) and the exit synchronisation of main.c                       *)
(* (monitor_end_process_fcn).                                              *)
(*                                                                         *)
(* A thread runs up to three frames of monitor code on its stack:          *)
(*   pc   the base frame: creation, begin_thread, application, cleanup;    *)
(*   xpc  a call of monitor_end_process_fcn, from exit(), from             *)
(*        pthread_exit() or from the handler of a fatal signal;            *)
(*   hpc  the shootdown signal handler, which may interrupt either.        *)
(* A step is the code between two points where another thread, or a signal *)
(* in the same thread, can see the difference.                             *)
(*                                                                         *)
(* monitor_thread_list and monitor_free_list are sets: their order decides *)
(* only which of several equivalent nodes is visited or reused first.      *)
(***************************************************************************)
EXTENDS Integers, FiniteSets

CONSTANTS
  Threads,    \* pthreads other than the main one; each stands for one pthread_create
  Main,       \* the main thread
  NoThread,   \* "no pthread"
  ArraySize,  \* MONITOR_TN_ARRAY_SIZE
  MaxArrays,  \* bound: node arrays the heap can hold, the static one included
  Moves,      \* which of the environment's rarer moves are allowed
  Exiters     \* threads in which exit is called or a fatal signal arrives

MoveKinds == {"crash", "cancel", "block", "ignore", "early", "sigwait"}

ASSUME ThreadsAssumption ==
  /\ Main \notin Threads
  /\ NoThread \notin Threads \cup {Main}

ASSUME BoundsAssumption ==
  /\ ArraySize \in Nat \ {0}
  /\ MaxArrays \in Nat \ {0}

ASSUME MovesAssumption == Moves \subseteq MoveKinds /\ Exiters \subseteq Threads \cup {Main}

All    == Threads \cup {Main}
MainTn == 0                              \* &monitor_main_tn
Node   == 0 .. ArraySize * MaxArrays     \* main's node, then the arrays end to end
NoNode == -1                             \* NULL

VARIABLES
  \* main.c
  end_process_cookie, fini_process_done, fini_library_called,
  \* pthread.c, protected by monitor_thread_lock
  lock, tn_array, tn_array_pos, thread_list, free_list, in_exit_cleanup,
  \* pthread.c, unprotected
  has_used_threads, has_reached_main, thread_support_done, fini_thread_done,
  tn,         \* the thread nodes' fields
  \* each thread
  pc, xpc, hpc,
  xkind,      \* how the exit frame was entered
  key,        \* thread-specific pointer to the thread's node
  arg,        \* the node pthread_create passes to monitor_begin_thread
  child,      \* the pthread a pthread_create in progress is making
  sigpend,    \* threads with the shootdown signal pending
  \* locals of monitor_thread_shootdown in the one thread that runs it
  visited, cur, my_tn, scan, last_started,
  \* the process, and history
  terminated, fini_thread_calls, fini_process_calls, live_at_exit, timed_out

exitVars  == <<end_process_cookie, fini_process_done, fini_library_called>>
listVars  == <<tn_array, tn_array_pos, thread_list, free_list>>
flagVars  == <<has_used_threads, has_reached_main, thread_support_done>>
shootVars == <<visited, cur, my_tn, scan, last_started, timed_out>>
vars == <<exitVars, lock, listVars, in_exit_cleanup, flagVars, fini_thread_done,
          tn, pc, xpc, hpc, xkind, key, arg, child, sigpend, shootVars,
          terminated, fini_thread_calls, fini_process_calls, live_at_exit>>

-----------------------------------------------------------------------------
(* State *)

NodeFields == [self : All \cup {NoThread},
               appl_started : BOOLEAN, fini_started : BOOLEAN,
               fini_done : BOOLEAN, exit_win : BOOLEAN,
               block_shootdown : BOOLEAN, ignore_threads : BOOLEAN]

ZeroNode == [self |-> NoThread,
             appl_started |-> FALSE, fini_started |-> FALSE,
             fini_done |-> FALSE, exit_win |-> FALSE,
             block_shootdown |-> FALSE, ignore_threads |-> FALSE]

\* Points of the base frame.
PCs == {"unborn",     \* not created yet
        "reserved",   \* chosen by a pthread_create in progress
        "premain",    \* main, before monitor_main: library constructors
        "release",    \* main, init_process has run, about to release threads
        "run",        \* application code
        "raw",        \* application code of an ignored thread
        "support",    \* in the monitor_init_thread_support callback
        "make", "making",      \* monitor_make_thread_node: wants, holds the lock
        "create", "rawcreate", \* about to call the real pthread_create
        "start",      \* monitor_begin_thread, waiting for thread support
        "link", "linking",     \* monitor_link_thread_node: wants, holds the lock
        "init",       \* in the monitor_init_thread callback
        "swchk", "swfini",     \* monitor_sigwait_helper: checked, in fini_thread
        "chk", "fini",         \* cleanup routine: checked, in fini_thread
        "unlink", "unlinking", \* monitor_unlink_thread_node: wants, holds the lock
        "dead"}

\* Points of monitor_end_process_fcn and of what its callers do next.
Winner == {"won",       \* has the cookie, about to set tn_exit_win
           "begin",     \* in the monitor_begin_process_exit callback
           "sdlock",    \* monitor_thread_shootdown, wants the lock
           "scan", "kill", "chkdone", "shot", "self",
           "selffini",  \* shooter's own monitor_fini_thread callback
           "fini"}      \* in the monitor_fini_process callback
Leaving == {"done", "lib"}  \* end_process returned, in the fini_library callback
XPCs == {"none", "cas", "wait"} \cup Winner \cup Leaving

HPCs == {"none", "chk", "fini",
         "cut"}         \* abandoned: an exit frame above it never returns

ZeroScan == [started |-> 0, unstarted |-> 0, unfinished |-> 0]

Init ==
  /\ end_process_cookie = 0 /\ fini_process_done = FALSE /\ fini_library_called = FALSE
  /\ lock = NoThread
  /\ tn_array = 1 /\ tn_array_pos = 0 /\ thread_list = {} /\ free_list = {}
  /\ in_exit_cleanup = FALSE
  /\ has_used_threads = FALSE /\ has_reached_main = FALSE
  /\ thread_support_done = FALSE /\ fini_thread_done = FALSE
  /\ tn = [n \in Node |-> ZeroNode]
  /\ pc = [t \in All |-> IF t = Main THEN "premain" ELSE "unborn"]
  /\ xpc = [t \in All |-> "none"]
  /\ hpc = [t \in All |-> "none"]
  /\ xkind = [t \in All |-> "none"]
  /\ key = [t \in All |-> NoNode]
  /\ arg = [t \in All |-> NoNode]
  /\ child = [t \in All |-> NoThread]
  /\ sigpend = {}
  /\ visited = {} /\ cur = NoNode /\ my_tn = NoNode /\ scan = ZeroScan
  /\ last_started = 0 /\ timed_out = FALSE
  /\ terminated = FALSE
  /\ fini_thread_calls = [t \in All |-> 0]
  /\ fini_process_calls = 0
  /\ live_at_exit = {}

-----------------------------------------------------------------------------
(* Helpers *)

\* Which frame of t runs next.
InBase(t)    == ~terminated /\ xpc[t] = "none" /\ hpc[t] = "none"
InExit(t)    == ~terminated /\ xpc[t] # "none" /\ hpc[t] \in {"none", "cut"}
InHandler(t) == ~terminated /\ hpc[t] \in {"chk", "fini"}

Alive(t) == pc[t] \notin {"unborn", "reserved", "dead"}

At(t, from)     == InBase(t) /\ pc[t] = from
Goto(t, to)     == pc' = [pc EXCEPT ![t] = to]
ExitAt(t, from) == InExit(t) /\ xpc[t] = from
ExitTo(t, to)   == xpc' = [xpc EXCEPT ![t] = to]

\* monitor_get_tn().  The magic check never fails here: a node is zeroed only
\* by its own thread's last step, or before a thread is given it.
GetTn(t) == IF has_used_threads THEN key[t] ELSE MainTn

\* Where pthread_create returns to in its caller.
Home(t) == IF t = Main THEN (IF has_reached_main THEN "run" ELSE "premain")
           ELSE IF key[t] = NoNode THEN "raw" ELSE "run"

CallFiniThread(t) == fini_thread_calls' = [fini_thread_calls EXCEPT ![t] = @ + 1]

-----------------------------------------------------------------------------
(* main.c: process begin *)

\* monitor_main: init_process runs, then ...  (Its reset of the flags of the end of
\* the process matters in a fork child, which MonitorFork models; here they are as
\* it leaves them.)
MainStart ==
  /\ At(Main, "premain")
  /\ Goto(Main, "release")
  /\ UNCHANGED <<exitVars, lock, listVars, in_exit_cleanup, flagVars, fini_thread_done,
                 tn, xpc, hpc, xkind, key, arg, child, sigpend, shootVars,
                 terminated, fini_thread_calls, fini_process_calls, live_at_exit>>

\* ... monitor_thread_release lets the threads created before main go on.
ThreadRelease ==
  /\ At(Main, "release")
  /\ thread_support_done' = (thread_support_done \/ has_used_threads)
  /\ has_reached_main' = TRUE
  /\ Goto(Main, "run")
  /\ UNCHANGED <<exitVars, lock, listVars, in_exit_cleanup, has_used_threads,
                 fini_thread_done, tn, xpc, hpc, xkind, key, arg, child, sigpend,
                 shootVars, terminated, fini_thread_calls, fini_process_calls,
                 live_at_exit>>

-----------------------------------------------------------------------------
(* pthread.c: the pthread_create override *)

\* What monitor_thread_list_init leaves: empty lists and main's node known to
\* pthread_getspecific.
ThreadListInit ==
  /\ thread_list' = {} /\ free_list' = {} /\ tn_array_pos' = 0
  /\ key' = [key EXCEPT ![Main] = MainTn]
  /\ tn' = [tn EXCEPT ![MainTn].self = Main]

\* Entry of pthread_create up to monitor_make_thread_node: the first call
\* initialises the list; a caller that ignores new threads goes straight to the
\* real function; thread support runs now unless main is not reached yet.
PthreadCreate(c, u) ==
  /\ At(c, Home(c))
  /\ pc[c] = "premain" => "early" \in Moves
  /\ pc[u] = "unborn"
  /\ IF has_used_threads THEN UNCHANGED <<thread_list, free_list, tn_array_pos, key, tn>>
                         ELSE ThreadListInit
  /\ has_used_threads' = TRUE
  /\ LET n      == GetTn(c)
         ignore == n # NoNode /\ tn[n].ignore_threads
     IN  pc' = [pc EXCEPT ![u] = "reserved",
                          ![c] = IF ignore THEN "rawcreate"
                                 ELSE IF ~thread_support_done /\ has_reached_main
                                      THEN "support" ELSE "make"]
  /\ child' = [child EXCEPT ![c] = u]
  /\ UNCHANGED <<exitVars, lock, tn_array, in_exit_cleanup, has_reached_main,
                 thread_support_done, fini_thread_done, xpc, hpc, xkind, arg, sigpend,
                 shootVars, terminated, fini_thread_calls, fini_process_calls,
                 live_at_exit>>

\* monitor_call_thread_support: the callback has returned.
ThreadSupportDone(c) ==
  /\ At(c, "support")
  /\ thread_support_done' = TRUE
  /\ Goto(c, "make")
  /\ UNCHANGED <<exitVars, lock, listVars, in_exit_cleanup, has_used_threads,
                 has_reached_main, fini_thread_done, tn, xpc, hpc, xkind, key, arg,
                 child, sigpend, shootVars, terminated, fini_thread_calls,
                 fini_process_calls, live_at_exit>>

\* spinlock_lock(&monitor_thread_lock) on the way from one point to the next.
AcquireThreadLock(t, from, to) ==
  /\ At(t, from)
  /\ lock = NoThread
  /\ lock' = t
  /\ Goto(t, to)
  /\ UNCHANGED <<exitVars, listVars, in_exit_cleanup, flagVars, fini_thread_done,
                 tn, xpc, hpc, xkind, key, arg, child, sigpend, shootVars,
                 terminated, fini_thread_calls, fini_process_calls, live_at_exit>>

ArrayHasRoom_OffByOne == tn_array_pos <= ArraySize
\* The pre-allocated array still has an element to give.
ArrayHasRoom == tn_array_pos < ArraySize

FreeListWithout_NotRemoved(n) == free_list
\* LIST_REMOVE of the node taken from the free list.
FreeListWithout(n) == free_list \ {n}

\* monitor_make_thread_node under the lock: the free list, else the current
\* array, else a new array.
MakeThreadNode(c) ==
  /\ At(c, "making")
  /\ \E n \in Node :
       /\ IF free_list # {}
          THEN /\ n \in free_list
               /\ free_list' = FreeListWithout(n)
               /\ UNCHANGED <<tn_array, tn_array_pos>>
          ELSE IF ArrayHasRoom
          THEN /\ n = tn_array + tn_array_pos
               /\ tn_array_pos' = tn_array_pos + 1
               /\ UNCHANGED <<free_list, tn_array>>
          ELSE /\ n = tn_array + ArraySize
               /\ tn_array' = n
               /\ tn_array_pos' = 1
               /\ UNCHANGED free_list
       /\ tn' = [tn EXCEPT ![n] = ZeroNode]
       /\ arg' = [arg EXCEPT ![child[c]] = n]
  /\ lock' = NoThread
  /\ Goto(c, "create")
  /\ UNCHANGED <<exitVars, thread_list, in_exit_cleanup, flagVars, fini_thread_done,
                 xpc, hpc, xkind, key, child, sigpend, shootVars, terminated,
                 fini_thread_calls, fini_process_calls, live_at_exit>>

\* The real pthread_create starts the thread in monitor_begin_thread, or fails
\* and leaves its node in no list.  An ignored thread runs the application's
\* start routine at once.
RealPthreadCreate(c, ok) ==
  /\ InBase(c)
  /\ pc[c] \in {"create", "rawcreate"}
  /\ pc' = [pc EXCEPT ![child[c]] = IF ~ok THEN "dead"
                                    ELSE IF pc[c] = "create" THEN "start" ELSE "raw",
                      ![c] = Home(c)]
  /\ child' = [child EXCEPT ![c] = NoThread]
  /\ UNCHANGED <<exitVars, lock, listVars, in_exit_cleanup, flagVars, fini_thread_done,
                 tn, xpc, hpc, xkind, key, arg, sigpend, shootVars, terminated,
                 fini_thread_calls, fini_process_calls, live_at_exit>>

-----------------------------------------------------------------------------
(* pthread.c: monitor_begin_thread and monitor_link_thread_node *)

\* Thread support is done: record the thread in its node and in the key.
BeginThread(t) ==
  /\ At(t, "start")
  /\ thread_support_done
  /\ tn' = [tn EXCEPT ![arg[t]].self = t]
  /\ key' = [key EXCEPT ![t] = arg[t]]
  /\ Goto(t, "link")
  /\ UNCHANGED <<exitVars, lock, listVars, in_exit_cleanup, flagVars, fini_thread_done,
                 xpc, hpc, xkind, arg, child, sigpend, shootVars, terminated,
                 fini_thread_calls, fini_process_calls, live_at_exit>>

ListFixed_Never == FALSE
\* Nodes are no longer inserted or deleted, see the comment on the lock.
ListFixed == in_exit_cleanup

\* monitor_link_thread_node under the lock.  During exit cleanup the new thread
\* returns without having run the start routine.
LinkThreadNode(t) ==
  /\ At(t, "linking")
  /\ IF ListFixed
     THEN /\ Goto(t, "dead")
          /\ UNCHANGED thread_list
     ELSE /\ Goto(t, "init")
          /\ thread_list' = thread_list \cup {arg[t]}
  /\ lock' = NoThread
  /\ UNCHANGED <<exitVars, tn_array, tn_array_pos, free_list, in_exit_cleanup, flagVars,
                 fini_thread_done, tn, xpc, hpc, xkind, key, arg, child, sigpend,
                 shootVars, terminated, fini_thread_calls, fini_process_calls,
                 live_at_exit>>

\* The monitor_init_thread callback has returned.
ApplStarted(t) ==
  /\ At(t, "init")
  /\ tn' = [tn EXCEPT ![arg[t]].appl_started = TRUE]
  /\ Goto(t, "run")
  /\ UNCHANGED <<exitVars, lock, listVars, in_exit_cleanup, flagVars, fini_thread_done,
                 xpc, hpc, xkind, key, arg, child, sigpend, shootVars, terminated,
                 fini_thread_calls, fini_process_calls, live_at_exit>>

\* pthread_cancel before the start routine: in the wait for thread support,
\* before the cleanup handler is pushed, or in the client's init_thread, where
\* the cleanup routine finds that the application has not started.
CancelEarly(t) ==
  /\ "cancel" \in Moves
  /\ InBase(t)
  /\ pc[t] \in {"start", "init"}
  /\ Goto(t, "dead")
  /\ UNCHANGED <<exitVars, lock, listVars, in_exit_cleanup, flagVars, fini_thread_done,
                 tn, xpc, hpc, xkind, key, arg, child, sigpend, shootVars,
                 terminated, fini_thread_calls, fini_process_calls, live_at_exit>>

-----------------------------------------------------------------------------
(* pthread.c: the end of a thread *)

\* What the shootdown handler, the cleanup routine and the sigwait helper all
\* ask before they run monitor_fini_thread.
MayRunFiniThread(n) ==
  /\ tn[n].appl_started
  /\ ~tn[n].fini_started
  /\ ~tn[n].block_shootdown
  /\ ~fini_thread_done

\* The start routine returned, or called pthread_exit, or was cancelled:
\* monitor_pthread_cleanup_routine up to its last check.
CleanupCheck(t) ==
  /\ t # Main
  /\ At(t, "run")
  /\ Goto(t, IF MayRunFiniThread(arg[t]) THEN "chk" ELSE "dead")
  /\ UNCHANGED <<exitVars, lock, listVars, in_exit_cleanup, flagVars, fini_thread_done,
                 tn, xpc, hpc, xkind, key, arg, child, sigpend, shootVars,
                 terminated, fini_thread_calls, fini_process_calls, live_at_exit>>

\* A base frame marks the node and calls monitor_fini_thread ...
FiniThreadStart(t, from, to) ==
  /\ At(t, from)
  /\ tn' = [tn EXCEPT ![key[t]].fini_started = TRUE]
  /\ CallFiniThread(t)
  /\ Goto(t, to)
  /\ UNCHANGED <<exitVars, lock, listVars, in_exit_cleanup, flagVars, fini_thread_done,
                 xpc, hpc, xkind, key, arg, child, sigpend, shootVars, terminated,
                 fini_process_calls, live_at_exit>>

\* ... and the callback returns.
FiniThreadDone(t, from, to) ==
  /\ At(t, from)
  /\ tn' = [tn EXCEPT ![key[t]].fini_done = TRUE]
  /\ Goto(t, to)
  /\ UNCHANGED <<exitVars, lock, listVars, in_exit_cleanup, flagVars, fini_thread_done,
                 xpc, hpc, xkind, key, arg, child, sigpend, shootVars, terminated,
                 fini_thread_calls, fini_process_calls, live_at_exit>>

\* pthread_cancel in the monitor_fini_thread that the cleanup routine calls: unlike
\* the handler and the sigwait helper it does not disable cancellation.  The start
\* routine has returned, so no cleanup routine is left to run: the thread ends with
\* its node on the list, started and never done.
CancelCleanup(t) ==
  /\ "cancel" \in Moves
  /\ At(t, "fini")
  /\ xkind[t] = "none"
  /\ Goto(t, "dead")
  /\ UNCHANGED <<exitVars, lock, listVars, in_exit_cleanup, flagVars, fini_thread_done,
                 tn, xpc, hpc, xkind, key, arg, child, sigpend, shootVars,
                 terminated, fini_thread_calls, fini_process_calls, live_at_exit>>

\* monitor_unlink_thread_node under the lock.
UnlinkThreadNode(t) ==
  /\ At(t, "unlinking")
  /\ LET n == arg[t] IN
     IF ListFixed
     THEN /\ tn' = [tn EXCEPT ![n].fini_started = TRUE, ![n].fini_done = TRUE]
          /\ UNCHANGED <<thread_list, free_list>>
     ELSE /\ tn' = [tn EXCEPT ![n] = ZeroNode]
          /\ thread_list' = thread_list \ {n}
          /\ free_list' = free_list \cup {n}
  /\ lock' = NoThread
  /\ Goto(t, "dead")
  /\ UNCHANGED <<exitVars, tn_array, tn_array_pos, in_exit_cleanup, flagVars,
                 fini_thread_done, xpc, hpc, xkind, key, arg, child, sigpend,
                 shootVars, terminated, fini_thread_calls, fini_process_calls,
                 live_at_exit>>

\* An ignored thread's start routine returns.
RawReturn(t) ==
  /\ At(t, "raw")
  /\ Goto(t, "dead")
  /\ UNCHANGED <<exitVars, lock, listVars, in_exit_cleanup, flagVars, fini_thread_done,
                 tn, xpc, hpc, xkind, key, arg, child, sigpend, shootVars,
                 terminated, fini_thread_calls, fini_process_calls, live_at_exit>>

\* The last thread of a process whose main thread left by pthread_exit.
LastThreadGone ==
  /\ ~terminated
  /\ \A t \in All : ~Alive(t)
  /\ terminated' = TRUE
  /\ UNCHANGED <<exitVars, lock, listVars, in_exit_cleanup, flagVars, fini_thread_done,
                 tn, pc, xpc, hpc, xkind, key, arg, child, sigpend, shootVars,
                 fini_thread_calls, fini_process_calls, live_at_exit>>

-----------------------------------------------------------------------------
(* pthread.c: client support *)

\* monitor_block_shootdown and monitor_unblock_shootdown, called from a sample
\* handler over the application.
BlockShootdown(t, on) ==
  /\ "block" \in Moves
  /\ At(t, "run")
  /\ GetTn(t) # NoNode
  /\ tn' = [tn EXCEPT ![GetTn(t)].block_shootdown = on]
  /\ UNCHANGED <<exitVars, lock, listVars, in_exit_cleanup, flagVars, fini_thread_done,
                 pc, xpc, hpc, xkind, key, arg, child, sigpend, shootVars,
                 terminated, fini_thread_calls, fini_process_calls, live_at_exit>>

\* monitor_disable_new_threads and monitor_enable_new_threads.
IgnoreNewThreads(t, on) ==
  /\ "ignore" \in Moves
  /\ At(t, "run")
  /\ GetTn(t) # NoNode
  /\ tn' = [tn EXCEPT ![GetTn(t)].ignore_threads = on]
  /\ UNCHANGED <<exitVars, lock, listVars, in_exit_cleanup, flagVars, fini_thread_done,
                 pc, xpc, hpc, xkind, key, arg, child, sigpend, shootVars,
                 terminated, fini_thread_calls, fini_process_calls, live_at_exit>>

-----------------------------------------------------------------------------
(* pthread.c: delivery of the shootdown signal *)

\* monitor_shootdown_handler interrupts whatever frame t is in.  The signal is
\* masked while its handler runs, so it never interrupts itself.
ShootdownHandler(t) ==
  /\ ~terminated
  /\ t \in sigpend
  /\ Alive(t)
  /\ hpc[t] = "none"
  /\ sigpend' = sigpend \ {t}
  /\ hpc' = [hpc EXCEPT ![t] = IF key[t] # NoNode /\ MayRunFiniThread(key[t])
                               THEN "chk" ELSE "none"]
  /\ UNCHANGED <<exitVars, lock, listVars, in_exit_cleanup, flagVars, fini_thread_done,
                 tn, pc, xpc, xkind, key, arg, child, shootVars, terminated,
                 fini_thread_calls, fini_process_calls, live_at_exit>>

HandlerFiniStart(t) ==
  /\ InHandler(t)
  /\ hpc[t] = "chk"
  /\ tn' = [tn EXCEPT ![key[t]].fini_started = TRUE]
  /\ CallFiniThread(t)
  /\ hpc' = [hpc EXCEPT ![t] = "fini"]
  /\ UNCHANGED <<exitVars, lock, listVars, in_exit_cleanup, flagVars, fini_thread_done,
                 pc, xpc, xkind, key, arg, child, sigpend, shootVars, terminated,
                 fini_process_calls, live_at_exit>>

HandlerFiniDone(t) ==
  /\ InHandler(t)
  /\ hpc[t] = "fini"
  /\ tn' = [tn EXCEPT ![key[t]].fini_done = TRUE]
  /\ hpc' = [hpc EXCEPT ![t] = "none"]
  /\ UNCHANGED <<exitVars, lock, listVars, in_exit_cleanup, flagVars, fini_thread_done,
                 pc, xpc, xkind, key, arg, child, sigpend, shootVars, terminated,
                 fini_thread_calls, fini_process_calls, live_at_exit>>

\* The application waits in sigwait, sigwaitinfo or sigtimedwait, which takes the
\* pending signal instead of the handler: monitor_sigwait_helper up to its check.
\* When the check fails the application sees the signal or waits again.
SigwaitHelper(t) ==
  /\ "sigwait" \in Moves
  /\ t \in sigpend
  /\ At(t, "run")
  /\ sigpend' = sigpend \ {t}
  /\ Goto(t, IF in_exit_cleanup /\ GetTn(t) # NoNode /\ MayRunFiniThread(GetTn(t))
             THEN "swchk" ELSE "run")
  /\ UNCHANGED <<exitVars, lock, listVars, in_exit_cleanup, flagVars, fini_thread_done,
                 tn, xpc, hpc, xkind, key, arg, child, shootVars, terminated,
                 fini_thread_calls, fini_process_calls, live_at_exit>>

-----------------------------------------------------------------------------
(* main.c: monitor_end_process_fcn and its callers *)

\* exit, _exit, _Exit, or the return of main; pthread_exit ends the process only
\* in the main thread and in a thread without a node.
CallExit(t, kind) ==
  /\ t \in Exiters
  /\ InBase(t)
  /\ \/ kind = "exit" /\ pc[t] \in {"run", "raw", "premain"}
     \/ kind = "pthread_exit" /\ pc[t] \in {"run", "raw"} /\ GetTn(t) \in {NoNode, MainTn}
  /\ ExitTo(t, "cas")
  /\ xkind' = [xkind EXCEPT ![t] = kind]
  /\ UNCHANGED <<exitVars, lock, listVars, in_exit_cleanup, flagVars, fini_thread_done,
                 tn, pc, hpc, key, arg, child, sigpend, shootVars, terminated,
                 fini_thread_calls, fini_process_calls, live_at_exit>>

\* A signal whose default action ends the process arrives at any point, in a
\* callback or in a critical section too.
FatalSignal(t) ==
  /\ "crash" \in Moves /\ t \in Exiters
  /\ ~terminated
  /\ Alive(t)
  /\ xpc[t] = "none"
  /\ hpc' = [hpc EXCEPT ![t] = IF @ = "none" THEN @ ELSE "cut"]
  /\ ExitTo(t, "cas")
  /\ xkind' = [xkind EXCEPT ![t] = "signal"]
  /\ UNCHANGED <<exitVars, lock, listVars, in_exit_cleanup, flagVars, fini_thread_done,
                 tn, pc, key, arg, child, sigpend, shootVars, terminated,
                 fini_thread_calls, fini_process_calls, live_at_exit>>

WinsCookie_Always == TRUE
\* compare_and_swap(&monitor_end_process_cookie, 0, 1) returns 0.
WinsCookie == end_process_cookie = 0

\* The race for the cookie: the winner goes on to the callbacks, a winner that
\* comes back returns at once, a loser waits.
CasCookie(t) ==
  /\ ExitAt(t, "cas")
  /\ LET n == GetTn(t) IN
     IF WinsCookie
     THEN /\ end_process_cookie' = 1
          /\ ExitTo(t, "won")
          /\ UNCHANGED fini_process_done
     ELSE IF n # NoNode /\ tn[n].exit_win
     THEN /\ fini_process_done' = TRUE
          /\ ExitTo(t, "done")
          /\ UNCHANGED end_process_cookie
     ELSE /\ ExitTo(t, "wait")
          /\ UNCHANGED <<end_process_cookie, fini_process_done>>
  /\ UNCHANGED <<fini_library_called, lock, listVars, in_exit_cleanup, flagVars,
                 fini_thread_done, tn, pc, hpc, xkind, key, arg, child, sigpend,
                 shootVars, terminated, fini_thread_calls, fini_process_calls,
                 live_at_exit>>

\* The winner's node, if it has one, remembers it.
MarkExitWin(t) ==
  /\ ExitAt(t, "won")
  /\ tn' = IF GetTn(t) = NoNode THEN tn ELSE [tn EXCEPT ![GetTn(t)].exit_win = TRUE]
  /\ ExitTo(t, "begin")
  /\ UNCHANGED <<exitVars, lock, listVars, in_exit_cleanup, flagVars, fini_thread_done,
                 pc, hpc, xkind, key, arg, child, sigpend, shootVars, terminated,
                 fini_thread_calls, fini_process_calls, live_at_exit>>

CallbacksOver_NoWait == TRUE
\* The loser's poll ends.
CallbacksOver == fini_process_done

\* The loser polls until the callbacks are over.
LoserReleased(t) ==
  /\ ExitAt(t, "wait")
  /\ CallbacksOver
  /\ fini_process_done' = TRUE
  /\ ExitTo(t, "done")
  /\ UNCHANGED <<end_process_cookie, fini_library_called, lock, listVars,
                 in_exit_cleanup, flagVars, fini_thread_done, tn, pc, hpc, xkind, key,
                 arg, child, sigpend, shootVars, terminated, fini_thread_calls,
                 fini_process_calls, live_at_exit>>

\* pthread_cancel of a thread that calls exit: in the sleep of the loser's poll, in
\* an exit handler, or in one of the callbacks begin_process_exit, fini_process and
\* fini_library (the shootdown in between disables it).  The exit is abandoned, and
\* the cleanup routine runs in a thread that has a node.
CancelExit(t) ==
  /\ "cancel" \in Moves
  /\ t # Main
  /\ InExit(t)
  /\ xpc[t] \in {"begin", "wait", "fini", "lib"} \/ (xpc[t] = "done" /\ xkind[t] = "exit")
  /\ hpc[t] = "none" /\ pc[t] \in {"run", "raw"}
  /\ ExitTo(t, "none")
  /\ Goto(t, IF pc[t] = "run" /\ MayRunFiniThread(arg[t]) THEN "chk" ELSE "dead")
  /\ UNCHANGED <<exitVars, lock, listVars, in_exit_cleanup, flagVars, fini_thread_done,
                 tn, hpc, xkind, key, arg, child, sigpend, shootVars, terminated,
                 fini_thread_calls, fini_process_calls, live_at_exit>>

\* The same thread starts process exit again: from an exit handler that calls
\* exit, or from a fatal signal in one of the winner's callbacks, which are then
\* abandoned.  Bound: once per thread.
ExitAgain(t) ==
  /\ InExit(t)
  /\ \/ xpc[t] = "done" /\ xkind[t] = "exit"
     \/ xpc[t] \in Winner /\ xkind[t] # "again" /\ "crash" \in Moves
  /\ xkind' = [xkind EXCEPT ![t] = "again"]
  /\ ExitTo(t, "cas")
  /\ UNCHANGED <<exitVars, lock, listVars, in_exit_cleanup, flagVars, fini_thread_done,
                 tn, pc, hpc, key, arg, child, sigpend, shootVars, terminated,
                 fini_thread_calls, fini_process_calls, live_at_exit>>

\* monitor_fini_process is called from here on.
CallFiniProcess(t) ==
  /\ ExitTo(t, "fini")
  /\ fini_process_calls' = fini_process_calls + 1

\* The monitor_begin_process_exit callback has returned.
BeginProcessExitDone(t) ==
  /\ ExitAt(t, "begin")
  /\ IF has_used_threads THEN ExitTo(t, "sdlock") /\ UNCHANGED fini_process_calls
                         ELSE CallFiniProcess(t)
  /\ UNCHANGED <<exitVars, lock, listVars, in_exit_cleanup, flagVars, fini_thread_done,
                 tn, pc, hpc, xkind, key, arg, child, sigpend, shootVars, terminated,
                 fini_thread_calls, live_at_exit>>

\* The monitor_fini_process callback has returned.
FiniProcessDone(t) ==
  /\ ExitAt(t, "fini")
  /\ fini_process_done' = TRUE
  /\ ExitTo(t, "done")
  /\ UNCHANGED <<end_process_cookie, fini_library_called, lock, listVars,
                 in_exit_cleanup, flagVars, fini_thread_done, tn, pc, hpc, xkind, key,
                 arg, child, sigpend, shootVars, terminated, fini_thread_calls,
                 fini_process_calls, live_at_exit>>

\* After monitor_end_process_fcn: pthread_exit ends its thread; exit, _exit and a
\* fatal signal run monitor_end_library_fcn and then end the process.
AfterEndProcess(t) ==
  /\ ExitAt(t, "done")
  /\ IF xkind[t] = "pthread_exit"
     THEN ExitTo(t, "none") /\ Goto(t, "dead") /\ UNCHANGED terminated
     ELSE /\ ExitTo(t, IF fini_library_called THEN "done" ELSE "lib")
          /\ terminated' = fini_library_called
          /\ UNCHANGED pc
  /\ UNCHANGED <<exitVars, lock, listVars, in_exit_cleanup, flagVars, fini_thread_done,
                 tn, hpc, xkind, key, arg, child, sigpend, shootVars,
                 fini_thread_calls, fini_process_calls, live_at_exit>>

\* The monitor_fini_library callback has returned, and the real exit or the raise
\* of the fatal signal follows.
FiniLibraryDone(t) ==
  /\ ExitAt(t, "lib")
  /\ fini_library_called' = TRUE
  /\ terminated' = TRUE
  /\ UNCHANGED <<end_process_cookie, fini_process_done, lock, listVars,
                 in_exit_cleanup, flagVars, fini_thread_done, tn, pc, xpc, hpc, xkind,
                 key, arg, child, sigpend, shootVars, fini_thread_calls,
                 fini_process_calls, live_at_exit>>

-----------------------------------------------------------------------------
(* pthread.c: monitor_thread_shootdown, run by the winner *)

\* Enter exit cleanup, under the lock; from now on the list is walked without it.
EnterExitCleanup(t) ==
  /\ ExitAt(t, "sdlock")
  /\ lock = NoThread
  /\ in_exit_cleanup' = TRUE
  /\ ExitTo(t, "scan")
  /\ visited' = {} /\ my_tn' = NoNode /\ scan' = ZeroScan /\ last_started' = 0
  /\ live_at_exit' = {n \in thread_list : tn[n].appl_started /\ tn[n].self # t}
  /\ UNCHANGED <<exitVars, lock, listVars, flagVars, fini_thread_done, tn, pc, hpc,
                 xkind, key, arg, child, sigpend, cur, timed_out, terminated,
                 fini_thread_calls, fini_process_calls>>

\* One node of the walk, up to the test of tn_fini_started.
ScanNode(t) ==
  /\ ExitAt(t, "scan")
  /\ \E n \in thread_list \ visited :
       /\ visited' = visited \cup {n}
       /\ my_tn' = IF tn[n].self = t THEN n ELSE my_tn
       /\ LET skip == tn[n].self = t \/ ~tn[n].appl_started
              shot == tn[n].fini_started
          IN  /\ cur' = IF skip THEN NoNode ELSE n
              /\ ExitTo(t, IF skip THEN "scan" ELSE IF shot THEN "chkdone" ELSE "kill")
              /\ scan' = IF ~skip /\ shot THEN [scan EXCEPT !.started = @ + 1] ELSE scan
  /\ UNCHANGED <<exitVars, lock, listVars, in_exit_cleanup, flagVars, fini_thread_done,
                 tn, pc, hpc, xkind, key, arg, child, sigpend, last_started, timed_out,
                 terminated, fini_thread_calls, fini_process_calls, live_at_exit>>

\* pthread_kill: the node's thread may have ended since the test.
KillThread(t) ==
  /\ ExitAt(t, "kill")
  /\ sigpend' = sigpend \cup {tn[cur].self}
  /\ scan' = [scan EXCEPT !.unstarted = @ + 1]
  /\ ExitTo(t, "chkdone")
  /\ UNCHANGED <<exitVars, lock, listVars, in_exit_cleanup, flagVars, fini_thread_done,
                 tn, pc, hpc, xkind, key, arg, child, visited, cur, my_tn, last_started,
                 timed_out, terminated, fini_thread_calls, fini_process_calls,
                 live_at_exit>>

ThreadFinished_Started(n) == tn[n].fini_started
\* The walk counts a thread as finished.
ThreadFinished(n) == tn[n].fini_done

\* The test of tn_fini_done.
CheckFiniDone(t) ==
  /\ ExitAt(t, "chkdone")
  /\ scan' = IF ThreadFinished(cur) THEN scan ELSE [scan EXCEPT !.unfinished = @ + 1]
  /\ cur' = NoNode
  /\ ExitTo(t, "scan")
  /\ UNCHANGED <<exitVars, lock, listVars, in_exit_cleanup, flagVars, fini_thread_done,
                 tn, pc, hpc, xkind, key, arg, child, sigpend, visited, my_tn,
                 last_started, timed_out, terminated, fini_thread_calls,
                 fini_process_calls, live_at_exit>>

MadeProgress_NotStrict == scan.started >= last_started
\* One more thread has taken the signal, which restarts the clock.
MadeProgress == scan.started > last_started

\* The walk's locals are not used again.
ScanOver == visited' = {} /\ cur' = NoNode /\ scan' = ZeroScan /\ last_started' = 0

\* The end of one walk: every thread has finished, ...
ScanFinished(t) ==
  /\ ExitAt(t, "scan")
  /\ thread_list \subseteq visited
  /\ scan.unfinished = 0
  /\ ExitTo(t, "shot")
  /\ ScanOver
  /\ UNCHANGED <<exitVars, lock, listVars, in_exit_cleanup, flagVars, fini_thread_done,
                 tn, pc, hpc, xkind, key, arg, child, sigpend, my_tn, timed_out,
                 terminated, fini_thread_calls, fini_process_calls, live_at_exit>>

\* ... or it starts again, ...
ScanAgain(t) ==
  /\ ExitAt(t, "scan")
  /\ thread_list \subseteq visited
  /\ scan.unfinished # 0
  /\ last_started' = IF MadeProgress THEN scan.started ELSE last_started
  /\ visited' = {}
  /\ scan' = ZeroScan
  /\ UNCHANGED <<exitVars, lock, listVars, in_exit_cleanup, flagVars, fini_thread_done,
                 tn, pc, xpc, hpc, xkind, key, arg, child, sigpend, cur, my_tn,
                 timed_out, terminated, fini_thread_calls, fini_process_calls,
                 live_at_exit>>

\* ... or no thread took the signal for MONITOR_SHOOTDOWN_TIMEOUT seconds.
ScanTimeout(t) ==
  /\ ExitAt(t, "scan")
  /\ thread_list \subseteq visited
  /\ scan.unfinished # 0
  /\ ~MadeProgress
  /\ scan.unstarted > 0
  /\ timed_out' = TRUE
  /\ ExitTo(t, "shot")
  /\ ScanOver
  /\ UNCHANGED <<exitVars, lock, listVars, in_exit_cleanup, flagVars, fini_thread_done,
                 tn, pc, hpc, xkind, key, arg, child, sigpend, my_tn, terminated,
                 fini_thread_calls, fini_process_calls, live_at_exit>>

SetFiniThreadDone(t) ==
  /\ ExitAt(t, "shot")
  /\ fini_thread_done' = TRUE
  /\ ExitTo(t, "self")
  /\ UNCHANGED <<exitVars, lock, listVars, in_exit_cleanup, flagVars, tn, pc, hpc,
                 xkind, key, arg, child, sigpend, shootVars, terminated,
                 fini_thread_calls, fini_process_calls, live_at_exit>>

\* The shooter's own fini_thread, if the walk met its node.
FiniSelf(t) ==
  /\ ExitAt(t, "self")
  /\ IF my_tn # NoNode /\ ~tn[my_tn].fini_started
     THEN /\ tn' = [tn EXCEPT ![my_tn].fini_started = TRUE]
          /\ CallFiniThread(t)
          /\ ExitTo(t, "selffini")
          /\ UNCHANGED fini_process_calls
     ELSE CallFiniProcess(t) /\ UNCHANGED <<tn, fini_thread_calls>>
  /\ UNCHANGED <<exitVars, lock, listVars, in_exit_cleanup, flagVars, fini_thread_done,
                 pc, hpc, xkind, key, arg, child, sigpend, shootVars, terminated,
                 live_at_exit>>

FiniSelfDone(t) ==
  /\ ExitAt(t, "selffini")
  /\ tn' = [tn EXCEPT ![my_tn].fini_done = TRUE]
  /\ CallFiniProcess(t)
  /\ UNCHANGED <<exitVars, lock, listVars, in_exit_cleanup, flagVars, fini_thread_done,
                 pc, hpc, xkind, key, arg, child, sigpend, shootVars, terminated,
                 fini_thread_calls, live_at_exit>>

-----------------------------------------------------------------------------
(* Specification *)

\* Monitor's own code in t: it runs whenever the thread is scheduled.
LibraryStep(t) ==
  \/ ThreadSupportDone(t)
  \/ AcquireThreadLock(t, "make", "making") \/ MakeThreadNode(t)
  \/ RealPthreadCreate(t, TRUE)
  \/ BeginThread(t)
  \/ AcquireThreadLock(t, "link", "linking") \/ LinkThreadNode(t)
  \/ ApplStarted(t)
  \/ FiniThreadStart(t, "chk", "fini") \/ FiniThreadDone(t, "fini", "unlink")
  \/ FiniThreadStart(t, "swchk", "swfini") \/ FiniThreadDone(t, "swfini", "run")
  \/ AcquireThreadLock(t, "unlink", "unlinking") \/ UnlinkThreadNode(t)
  \/ HandlerFiniStart(t) \/ HandlerFiniDone(t)
  \/ CasCookie(t) \/ MarkExitWin(t) \/ LoserReleased(t)
  \/ BeginProcessExitDone(t)
  \/ EnterExitCleanup(t)
  \/ ScanNode(t) \/ KillThread(t) \/ CheckFiniDone(t) \/ ScanFinished(t) \/ ScanAgain(t)
  \/ SetFiniThreadDone(t) \/ FiniSelf(t) \/ FiniSelfDone(t)
  \/ FiniProcessDone(t)
  \/ AfterEndProcess(t) \/ FiniLibraryDone(t)

\* What the application, the client and the system decide.
EnvironmentStep(t) ==
  \/ \E u \in Threads : PthreadCreate(t, u)
  \/ RealPthreadCreate(t, FALSE)
  \/ CleanupCheck(t) \/ RawReturn(t)
  \/ \E kind \in {"exit", "pthread_exit"} : CallExit(t, kind)
  \/ \E on \in BOOLEAN : BlockShootdown(t, on) \/ IgnoreNewThreads(t, on)
  \/ ShootdownHandler(t) \/ SigwaitHelper(t)
  \/ ScanTimeout(t)
  \/ CancelEarly(t) \/ CancelCleanup(t) \/ CancelExit(t)
  \/ FatalSignal(t) \/ ExitAgain(t)

\* The process is gone: nothing more happens.
Gone == terminated /\ UNCHANGED vars

Next ==
  \/ MainStart \/ ThreadRelease
  \/ \E t \in All : LibraryStep(t) \/ EnvironmentStep(t)
  \/ LastThreadGone
  \/ Gone

Spec == Init /\ [][Next]_vars

\* Every thread is scheduled and every callback returns (weak fairness of the
\* library's steps); ten seconds without progress are noticed however often the
\* walk starts again (strong fairness of the timeout).
Fairness ==
  /\ \A t \in All : WF_vars(LibraryStep(t))
  /\ \A t \in All : SF_vars(ScanTimeout(t))

FairSpec == Spec /\ Fairness

-----------------------------------------------------------------------------
(* Properties *)

\* Every variable has its type.
TypeOK ==
  /\ end_process_cookie \in {0, 1}
  /\ fini_process_done \in BOOLEAN /\ fini_library_called \in BOOLEAN
  /\ lock \in All \cup {NoThread}
  /\ tn_array \in Node /\ tn_array_pos \in 0 .. ArraySize
  /\ thread_list \subseteq Node /\ free_list \subseteq Node
  /\ in_exit_cleanup \in BOOLEAN
  /\ has_used_threads \in BOOLEAN /\ has_reached_main \in BOOLEAN
  /\ thread_support_done \in BOOLEAN /\ fini_thread_done \in BOOLEAN
  /\ tn \in [Node -> NodeFields]
  /\ pc \in [All -> PCs] /\ xpc \in [All -> XPCs] /\ hpc \in [All -> HPCs]
  /\ xkind \in [All -> {"none", "exit", "pthread_exit", "signal", "again"}]
  /\ key \in [All -> Node \cup {NoNode}]
  /\ arg \in [All -> Node \cup {NoNode}]
  /\ child \in [All -> Threads \cup {NoThread}]
  /\ sigpend \subseteq All
  /\ visited \subseteq Node
  /\ cur \in Node \cup {NoNode} /\ my_tn \in Node \cup {NoNode}
  /\ scan \in [started : Nat, unstarted : Nat, unfinished : Nat]
  /\ last_started \in Nat /\ timed_out \in BOOLEAN
  /\ terminated \in BOOLEAN
  /\ fini_thread_calls \in [All -> Nat] /\ fini_process_calls \in Nat
  /\ live_at_exit \subseteq Node

\* A thread that owns a node: from its creation to its last look at it.
Owner(t) == t \in Threads /\ pc[t] # "dead" /\ arg[t] # NoNode

\* pthread.c, "the global thread mutex protects monitor's list of threads": no node
\* is on both lists, no thread's node is on the free list, and no two threads
\* have the same node, however creations and thread ends interleave.
NodesNotShared ==
  /\ thread_list \cap free_list = {}
  /\ \A t \in All : Owner(t) => arg[t] \notin free_list /\ arg[t] # MainTn
  /\ \A t, u \in All : Owner(t) /\ Owner(u) /\ arg[t] = arg[u] => t = u

\* pthread.c, "After monitor begins exit cleanup, then we don't insert or delete any
\* new thread nodes": the list the shooter walks without the lock never changes.
ListFrozen == [][in_exit_cleanup => UNCHANGED <<thread_list, in_exit_cleanup>>]_vars

\* main.c, "The first thread to get here invokes the callback functions": whatever
\* threads call exit, pthread_exit or die from signals, monitor_fini_process is
\* called at most once and by at most one thread at a time.
OneFiniProcess ==
  /\ fini_process_calls <= 1
  /\ \A t, u \in All : xpc[t] \in Winner /\ xpc[u] \in Winner => t = u

\* main.c, "... and the others wait for that to finish": no thread goes on to end
\* the process while the winner is still in a callback or in the shootdown.
CallbacksBeforeExit ==
  (\E t \in All : xpc[t] \in Leaving) => \A u \in All : xpc[u] \notin Winner

\* A shootdown that did not time out has let every thread that was running the
\* application when it began finish monitor_fini_thread before it tells the
\* others that monitor_fini_process may begin.
ShootdownComplete ==
  fini_thread_done /\ ~timed_out => \A n \in live_at_exit : tn[n].fini_done

\* The winner spins on a lock whose holder it interrupted, or whose holder is
\* itself stopped in a call of exit.
StuckOnLock ==
  \E w \in All : xpc[w] = "sdlock" /\ lock # NoThread /\ xpc[lock] # "none"

\* A thread calls exit, or dies, inside its own monitor_fini_thread: it waits for
\* the winner and the winner, whose timeout needs an unstarted thread, for it.
StuckInCallback ==
  \E u \in All : /\ xpc[u] = "wait"
                 /\ hpc[u] = "cut" \/ (hpc[u] = "none" /\ pc[u] \in {"fini", "swfini"})
                 /\ tn[key[u]].fini_started /\ ~tn[key[u]].fini_done

\* The winner is gone before it was through with the callbacks and no other thread
\* takes its place: it was cancelled in one of them, or exits again inside one (or
\* before tn_exit_win is set) without a node that remembers it as the winner, and
\* waits for itself.
StuckWithoutWinner ==
  /\ end_process_cookie = 1 /\ ~fini_process_done
  /\ \A u \in All : xpc[u] \notin Winner

\* The walk waits for a thread that was cancelled in the monitor_fini_thread of its
\* cleanup routine, and no thread is left that has not taken the signal, which the
\* timeout needs.
StuckOnCancelled ==
  /\ \E w \in All : xpc[w] \in {"scan", "kill", "chkdone"}
  /\ \E n \in thread_list :
       tn[n].fini_started /\ ~tn[n].fini_done /\ pc[tn[n].self] = "dead"
  /\ \A n \in thread_list :
       tn[n].appl_started /\ ~tn[n].fini_started => xpc[tn[n].self] \in Winner

\* A process in which a thread calls exit ends, unless the thread is cancelled on
\* its way (which abandons its exit), or another one was, in a callback: cancellation
\* apart there is no way for the exit to hang without a fatal signal.
ExitCompletes ==
  \A t \in All : (xpc[t] = "cas" /\ xkind[t] # "pthread_exit") ~>
                 (terminated \/ xpc[t] = "none" \/ StuckOnCancelled \/ StuckWithoutWinner)

\* With fatal signals at every point too, the process ends unless it is in one of
\* these situations: there is no other way for the exit to hang.
ExitCompletesOrStuck ==
  \A t \in All : (xpc[t] = "cas" /\ xkind[t] # "pthread_exit") ~>
                 (terminated \/ xpc[t] = "none" \/ StuckOnLock \/ StuckInCallback
                  \/ StuckOnCancelled \/ StuckWithoutWinner)

\* tests/exit.c, "There should be one call to monitor_fini_thread() for each thread":
\* no thread gets the callback twice.
FiniThreadOnce == \A t \in All : fini_thread_calls[t] <= 1

\* t is in its monitor_fini_thread callback.
InFiniThread(t) == pc[t] \in {"fini", "swfini"} \/ hpc[t] = "fini" \/ xpc[t] = "selffini"

\* tests/exit.c, "... followed by exactly one call to monitor_fini_process()": if the
\* shootdown did not time out, no monitor_fini_thread runs once
\* monitor_fini_process has begun.
FiniThreadBeforeFiniProcess ==
  fini_process_calls > 0 /\ ~timed_out => \A t \in All : ~InFiniThread(t)

\* pthread.c, "Don't create any new threads after someone has called exit()": a new
\* thread is refused its start routine only if some thread called exit.
RefusedOnlyAfterExit ==
  [][\A t \in Threads :
       pc[t] = "linking" /\ pc'[t] = "dead" =>
         \E u \in All : xkind[u] \in {"exit", "signal", "again"}]_vars

-----------------------------------------------------------------------------
(* What a client sees *)

\* How far t is, as its client's callbacks tell.
PhaseOf(t) ==
  IF \/ pc[t] \in {"unborn", "reserved", "start", "link", "linking"}
     \/ t = Main /\ ~has_reached_main /\ pc[t] # "release"        THEN "before"
  ELSE IF pc[t] = "init"                                          THEN "init"
  ELSE IF pc[t] \in {"unlink", "unlinking", "dead"}               THEN "over"
  ELSE IF t # Main /\ key[t] = NoNode                             THEN "ignored"
  ELSE "live"

StageOf ==
  IF terminated                  THEN "gone"
  ELSE IF fini_process_done      THEN "finished"
  ELSE IF fini_process_calls > 0 THEN "finishing"
  ELSE IF end_process_cookie = 1 THEN "ending"
  ELSE "running"

\* The one thread in the winner's callbacks.
EnderOf == IF \E t \in All : xpc[t] \in Winner
           THEN CHOOSE t \in All : xpc[t] \in Winner ELSE NoThread

Callbacks == INSTANCE MonitorCallbacks
  WITH Threads <- All, MayBlock <- ("block" \in Moves),
       phase <- [t \in All |-> PhaseOf(t)], fini <- fini_thread_calls,
       stage <- StageOf, ender <- EnderOf

\* monitor.h and tests/exit.c: the callbacks a client gets, however threads begin,
\* end, exit, crash and are cancelled, are among those MonitorCallbacks allows.
ClientPromise == Callbacks!Spec

=============================================================================
