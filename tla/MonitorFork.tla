----------------------------- MODULE MonitorFork -----------------------------
(***************************************************************************)
(* Processes in libmonitor: the fork, exec and system overrides of fork.c, *)
(* process begin and end in main.c, and monitor_reset_thread_list of       *)
(* pthread.c.                                                              *)
(*                                                                         *)
(* Processes share no memory, so the model follows one of them.  fork goes *)
(* on in the child, with a copy of the library's state mem and only the    *)
(* thread that called it; in the parent it changes nothing, which is no    *)
(* step at all.  A successful exec replaces the program in the process:    *)
(* the new one is monitored too.                                           *)
(*                                                                         *)
(* Creating and shooting down threads is reduced to what a fork can break: *)
(* the lock, the list and who is on it.  MonitorThreads has the details.   *)
(***************************************************************************)
EXTENDS Integers

CONSTANTS
  Threads,    \* the threads a process may have
  Main,       \* the thread whose node is monitor_main_tn
  Moves       \* which of the environment's rarer moves are allowed

ForkMoves == {"threads",  \* the application creates threads
              "exec",     \* ... calls exec
              "system"}   \* ... calls system

ASSUME MainAssumption == Main \in Threads
ASSUME ForkMovesAssumption == Moves \subseteq ForkMoves

VARIABLES
  gone,   \* the process has ended
  mem,    \* the library's static data
  pc,     \* where each thread is
  call,   \* the override each thread is in, and the point it was called from
  chld,   \* the action of SIGCHLD: ignored or not
  saved,  \* monitor_system's old_chld
  cmd,    \* the command of a system call in progress
  alone,  \* history: it replaced the action while no other call of system had
  log     \* history: callbacks made in this program of this process

threadVars == <<pc, call>>
sysVars    == <<chld, saved, cmd, alone>>
vars == <<gone, mem, threadVars, sysVars, log>>

-----------------------------------------------------------------------------
(* State *)

Mem == [end_process_cookie : BOOLEAN, fini_process_done : BOOLEAN,
        fini_library_called : BOOLEAN, has_reached_main : BOOLEAN,
        has_used_threads : BOOLEAN, thread_support_done : BOOLEAN,
        in_exit_cleanup : BOOLEAN,
        lock : {"free", "held", "orphan"},  \* orphan: by a thread of the parent
        exit_win : SUBSET Threads,          \* threads whose node has tn_exit_win
        list : SUBSET Threads,              \* threads in monitor_thread_list ...
        fini_done : SUBSET Threads]         \* ... whose node has tn_fini_done

\* A program before its first instruction.
FreshMem == [end_process_cookie |-> FALSE, fini_process_done |-> FALSE,
             fini_library_called |-> FALSE, has_reached_main |-> FALSE,
             has_used_threads |-> FALSE, thread_support_done |-> FALSE,
             in_exit_cleanup |-> FALSE, lock |-> "free",
             exit_win |-> {}, list |-> {}, fini_done |-> {}]

Log == [init : Nat, fini : Nat, lib : Nat,
        late : BOOLEAN]   \* monitor_begin_process_fcn has run after an exit had begun

NoLog == [init |-> 0, fini |-> 0, lib |-> 0, late |-> FALSE]

\* Application code: a constructor, the program, an exit handler.
Appl == {"premain", "run", "atexit"}
\* monitor_end_process_fcn: before the compare_and_swap, the winner, the loser.
Winner == {"begin",    \* in the monitor_begin_process_exit callback
           "sdlock", "shoot",
           "fini"}     \* in the monitor_fini_process callback
EndProcess == {"cas", "poll"} \cup Winner
PCs == Appl \cup EndProcess \cup
       {"none", "new", "dead",
        "mklock", "make",  \* in pthread_create: wants the lock, holds it
        "start",       \* a new thread that waits for thread support and the lock ...
        "link",        \* ... and holds it
        "unlink",      \* in the cleanup routine, holds the lock
        "ended",       \* monitor_end_process_fcn has returned
        "exec",        \* about to call the real exec
        "sysfork",     \* in monitor_system before the real fork ...
        "syswait"}     \* ... and in waitpid

NoCall == [how |-> "none", from |-> "none"]
Calls  == [how : {"none", "exit", "_exit", "exec", "create", "system"}, from : Appl \cup {"none"}]

Dispositions == {"ign", "other"}
NotSaved     == "other"

OnlyMain(point) == [t \in Threads |-> IF t = Main THEN point ELSE "none"]

Init ==
  /\ gone = FALSE
  /\ mem = FreshMem
  /\ pc = OnlyMain("premain")
  /\ call = [t \in Threads |-> NoCall]
  /\ chld \in Dispositions
  /\ saved = [t \in Threads |-> NotSaved]
  /\ cmd = [t \in Threads |-> "none"]
  /\ alone = [t \in Threads |-> FALSE]
  /\ log = NoLog

At(t, from) == ~gone /\ pc[t] = from
InAppl(t)   == ~gone /\ pc[t] \in Appl
Goto(t, to) == pc' = [pc EXCEPT ![t] = to]
Called(t, how) == call' = [call EXCEPT ![t] = [how |-> how, from |-> pc[t]]]
Return(t) ==
  /\ Goto(t, call[t].from)
  /\ call' = [call EXCEPT ![t] = NoCall]

NoCalls ==
  /\ call' = [u \in Threads |-> NoCall]
  /\ saved' = [u \in Threads |-> NotSaved]
  /\ cmd' = [u \in Threads |-> "none"]
  /\ alone' = [u \in Threads |-> FALSE]

-----------------------------------------------------------------------------
(* main.c: process begin *)

InitIfMain_Always(m) == 1
\* init_process is put off until main is reached.
InitIfMain(m) == IF m.has_reached_main THEN 1 ELSE 0

ResetFlags_Kept(m) == m
\* The flags monitor_begin_process_fcn clears.
ResetFlags(m) == [m EXCEPT !.fini_library_called = FALSE, !.fini_process_done = FALSE]

\* monitor_main with monitor_begin_process_fcn(NULL, FALSE): init_process, then
\* thread support for the threads that were created before main.
MonitorMain ==
  /\ At(Main, "premain")
  /\ mem' = [ResetFlags(mem) EXCEPT !.has_reached_main = TRUE,
                                    !.thread_support_done = @ \/ mem.has_used_threads]
  /\ log' = [log EXCEPT !.init = @ + 1,
                        !.late = @ \/ mem.end_process_cookie]
  /\ Goto(Main, "run")
  /\ UNCHANGED <<gone, call, sysVars>>

-----------------------------------------------------------------------------
(* pthread.c: threads, as far as a fork matters *)

\* pthread_create up to monitor_make_thread_node: the first call initialises the
\* list, thread support runs unless main is not reached yet.
PthreadCreate(t, u) ==
  /\ InAppl(t)
  /\ pc[u] = "none"
  /\ mem' = [mem EXCEPT !.list = IF mem.has_used_threads THEN @ ELSE {},
                        !.has_used_threads = TRUE,
                        !.thread_support_done = @ \/ mem.has_reached_main]
  /\ pc' = [pc EXCEPT ![t] = "mklock", ![u] = "new"]
  /\ Called(t, "create")
  /\ UNCHANGED <<gone, sysVars, log>>

MakeThreadNode(t) ==
  /\ At(t, "mklock")
  /\ mem.lock = "free"
  /\ mem' = [mem EXCEPT !.lock = "held"]
  /\ Goto(t, "make")
  /\ UNCHANGED <<gone, call, sysVars, log>>

\* The node is made; the real pthread_create starts the new thread u or fails.
PthreadCreated(t, u, ok) ==
  /\ At(t, "make")
  /\ pc[u] = "new"
  /\ mem' = [mem EXCEPT !.lock = "free"]
  /\ pc' = [pc EXCEPT ![u] = IF ok THEN "start" ELSE "dead",
                     ![t] = call[t].from]
  /\ call' = [call EXCEPT ![t] = NoCall]
  /\ UNCHANGED <<gone, sysVars, log>>

\* monitor_begin_thread once thread support is done, ...
StartThread(t) ==
  /\ At(t, "start")
  /\ mem.thread_support_done
  /\ mem.lock = "free"
  /\ mem' = [mem EXCEPT !.lock = "held"]
  /\ Goto(t, "link")
  /\ UNCHANGED <<gone, call, sysVars, log>>

\* ... and monitor_link_thread_node, which refuses the thread in exit cleanup.
LinkThreadNode(t) ==
  /\ At(t, "link")
  /\ mem' = [mem EXCEPT !.lock = "free",
                        !.list = IF mem.in_exit_cleanup THEN @ ELSE @ \cup {t}]
  /\ Goto(t, IF mem.in_exit_cleanup THEN "dead" ELSE "run")
  /\ UNCHANGED <<gone, call, sysVars, log>>

\* The cleanup routine of a thread that ends takes the lock.
EndThread(t) ==
  /\ t # Main
  /\ At(t, "run")
  /\ mem.lock = "free"
  /\ mem' = [mem EXCEPT !.lock = "held"]
  /\ Goto(t, "unlink")
  /\ UNCHANGED <<gone, call, sysVars, log>>

WithoutNode_StillLocked(m, t) ==
  IF m.in_exit_cleanup THEN [m EXCEPT !.fini_done = @ \cup {t}]
  ELSE [m EXCEPT !.list = @ \ {t}, !.lock = "free"]
\* The thread leaves the list unless exit cleanup has begun, when its node stays
\* with tn_fini_done set; the lock is released in both cases.
WithoutNode(m, t) ==
  IF m.in_exit_cleanup THEN [m EXCEPT !.fini_done = @ \cup {t}, !.lock = "free"]
  ELSE [m EXCEPT !.list = @ \ {t}, !.lock = "free"]

UnlinkThreadNode(t) ==
  /\ At(t, "unlink")
  /\ mem' = WithoutNode(mem, t)
  /\ Goto(t, "dead")
  /\ UNCHANGED <<gone, call, sysVars, log>>

ResetThreadList_Skipped(m, t) == m
\* monitor_reset_thread_list in the child: the thread t that forked is the main
\* thread now.  Exit state and lock stay as they are.
ResetThreadList(m, t) ==
  IF ~m.has_used_threads THEN m
  ELSE [m EXCEPT !.exit_win = IF t = Main THEN @ \cap {Main} ELSE {},
                 !.list = {}, !.fini_done = {}, !.has_used_threads = FALSE]

-----------------------------------------------------------------------------
(* fork.c: fork and vfork *)

\* The lock as the child of fork finds it.
LockInChild(m) == IF m.lock = "free" THEN "free" ELSE "orphan"

\* monitor_fork: pre_fork, the real fork and monitor_begin_process_fcn in the child,
\* which the model follows.  The callbacks monitor_pre_fork and monitor_post_fork,
\* the parent's return and a fork that fails change nothing here.
Fork(t) ==
  /\ InAppl(t)
  /\ LET m == ResetThreadList([mem EXCEPT !.lock = LockInChild(mem)], t)
     IN  /\ mem' = ResetFlags(m)
         /\ log' = [NoLog EXCEPT !.init = InitIfMain(m), !.late = m.end_process_cookie]
  /\ pc' = OnlyMain(pc[t])
  /\ NoCalls
  /\ UNCHANGED <<gone, chld>>

-----------------------------------------------------------------------------
(* main.c: monitor_end_process_fcn *)

\* exit, _exit, the return of main, or an exec whose file looks executable.
EndProcessCall(t, how) ==
  /\ InAppl(t)
  /\ how = "exec" => "exec" \in Moves
  /\ Goto(t, "cas")
  /\ Called(t, how)
  /\ UNCHANGED <<gone, mem, sysVars, log>>

\* The compare_and_swap: race winner, repeat winner or race loser.
CompareAndSwap(t) ==
  /\ At(t, "cas")
  /\ IF ~mem.end_process_cookie
     THEN /\ mem' = [mem EXCEPT !.end_process_cookie = TRUE,
                                !.exit_win = @ \cup {t}]
          /\ Goto(t, "begin")
     ELSE IF t \in mem.exit_win
     THEN /\ mem' = [mem EXCEPT !.fini_process_done = TRUE]
          /\ Goto(t, "ended")
     ELSE /\ Goto(t, "poll")
          /\ UNCHANGED mem
  /\ UNCHANGED <<gone, call, sysVars, log>>

\* monitor_begin_process_exit has returned; no shootdown without threads.
BeginProcessExit(t) ==
  /\ At(t, "begin")
  /\ Goto(t, IF mem.has_used_threads THEN "sdlock" ELSE "fini")
  /\ UNCHANGED <<gone, mem, call, sysVars, log>>

\* monitor_thread_shootdown under the lock.
BeginShootdown(t) ==
  /\ At(t, "sdlock")
  /\ mem.lock = "free"
  /\ mem' = [mem EXCEPT !.in_exit_cleanup = TRUE]
  /\ Goto(t, "shoot")
  /\ UNCHANGED <<gone, call, sysVars, log>>

\* Threads on the list the shooter t waits for.
Awaited(t) == mem.list \ (mem.fini_done \cup {t})

\* The shootdown handler in thread u.
ShootdownHandler(t, u) ==
  /\ At(t, "shoot")
  /\ u \in Awaited(t)
  /\ pc[u] \notin {"none", "new", "dead"}
  /\ mem' = [mem EXCEPT !.fini_done = @ \cup {u}]
  /\ UNCHANGED <<gone, threadVars, sysVars, log>>

ShootdownDone(t) ==
  /\ At(t, "shoot")
  /\ Awaited(t) = {}
  /\ Goto(t, "fini")
  /\ UNCHANGED <<gone, mem, call, sysVars, log>>

FiniProcess_FlagForgotten == UNCHANGED mem
\* What the return of monitor_fini_process tells the losers.
FiniProcessDone == mem' = [mem EXCEPT !.fini_process_done = TRUE]

\* The winner's monitor_fini_process has returned.
FiniProcess(t) ==
  /\ At(t, "fini")
  /\ log' = [log EXCEPT !.fini = @ + 1]
  /\ FiniProcessDone
  /\ Goto(t, "ended")
  /\ UNCHANGED <<gone, call, sysVars>>

LoserMayLeave_AtOnce == TRUE
\* The loop of the losers, and their sleep.
LoserMayLeave == mem.fini_process_done

LoserLeaves(t) ==
  /\ At(t, "poll")
  /\ LoserMayLeave
  /\ mem' = [mem EXCEPT !.fini_process_done = TRUE]
  /\ Goto(t, "ended")
  /\ UNCHANGED <<gone, call, sysVars, log>>

\* monitor_end_library_fcn.  Its test, its callback and its store are one step: of two
\* threads that meet here both may make the callback, which LibraryFinished allows.
EndLibrary ==
  /\ mem' = [mem EXCEPT !.fini_library_called = TRUE]
  /\ log' = [log EXCEPT !.lib = IF mem.fini_library_called THEN @ ELSE @ + 1]

\* The real _exit.
Gone ==
  /\ gone' = TRUE
  /\ pc' = OnlyMain("none")
  /\ NoCalls

\* exit and the return of main: the real exit runs the application's handlers, ...
RunAtExit(t) ==
  /\ At(t, "ended")
  /\ call[t].how = "exit"
  /\ Goto(t, "atexit")
  /\ call' = [call EXCEPT ![t] = NoCall]
  /\ UNCHANGED <<gone, mem, sysVars, log>>

\* ... and then the library's destructor.
FiniDestructor(t) ==
  /\ At(t, "atexit")
  /\ EndLibrary
  /\ Gone
  /\ UNCHANGED chld

\* _exit and _Exit.
UnderscoreExit(t) ==
  /\ At(t, "ended")
  /\ call[t].how = "_exit"
  /\ EndLibrary
  /\ Gone
  /\ UNCHANGED chld

-----------------------------------------------------------------------------
(* fork.c: exec *)

\* The library is finished before the real exec.
BeforeExec(t) ==
  /\ At(t, "ended")
  /\ call[t].how = "exec"
  /\ EndLibrary
  /\ Goto(t, "exec")
  /\ UNCHANGED <<gone, call, sysVars>>

\* A new program in the process; signals that were ignored still are.
NewProgram ==
  /\ mem' = FreshMem
  /\ log' = NoLog
  /\ pc' = OnlyMain("premain")
  /\ NoCalls

ExecSucceeds(t) ==
  /\ At(t, "exec")
  /\ NewProgram
  /\ UNCHANGED <<gone, chld>>

\* "unexpected execve failure": the application goes on.
ExecFails(t) ==
  /\ At(t, "exec")
  /\ Return(t)
  /\ UNCHANGED <<gone, mem, sysVars, log>>

\* access() predicts a failure, no callback is made, and the real exec succeeds.
\* If it fails as predicted nothing has changed.
UnexpectedExec(t) ==
  /\ "exec" \in Moves
  /\ InAppl(t)
  /\ NewProgram
  /\ UNCHANGED <<gone, chld>>

-----------------------------------------------------------------------------
(* fork.c: system *)

ChldAction_Inherited == chld
\* While system waits, SIGCHLD has the default action.
ChldAction == "other"

\* t's command is under way, or about to be.
InSystem(t) == pc[t] \in {"sysfork", "syswait"}

\* monitor_system up to the real fork.  SIGINT and SIGQUIT, which it ignores and puts
\* back in the same way, decide nothing here and are left out.
System(t) ==
  /\ "system" \in Moves
  /\ InAppl(t)
  /\ saved' = [saved EXCEPT ![t] = chld]
  /\ chld' = ChldAction
  /\ alone' = [alone EXCEPT ![t] = \A u \in Threads : ~InSystem(u)]
  /\ Goto(t, "sysfork")
  /\ Called(t, "system")
  /\ UNCHANGED <<gone, mem, cmd, log>>

\* The real fork and the child's execve of the shell.
SystemFork(t) ==
  /\ At(t, "sysfork")
  /\ cmd' = [cmd EXCEPT ![t] = "running"]
  /\ Goto(t, "syswait")
  /\ UNCHANGED <<gone, mem, call, chld, saved, alone, log>>

\* The command ends.  The kernel keeps its status for waitpid unless SIGCHLD is
\* ignored.
CommandEnds(t) ==
  /\ At(t, "syswait")
  /\ cmd[t] = "running"
  /\ cmd' = [cmd EXCEPT ![t] = IF chld = "ign" THEN "reaped" ELSE "zombie"]
  /\ UNCHANGED <<gone, mem, threadVars, chld, saved, alone, log>>

\* waitpid has returned, with the status or with ECHILD, which counts as status 0;
\* or the fork failed.  The old action is put back, whatever it is by now.
SystemReturn(t) ==
  /\ At(t, "sysfork") \/ (At(t, "syswait") /\ cmd[t] # "running")
  /\ chld' = saved[t]
  /\ saved' = [saved EXCEPT ![t] = NotSaved]
  /\ cmd' = [cmd EXCEPT ![t] = "none"]
  /\ alone' = [alone EXCEPT ![t] = FALSE]
  /\ Return(t)
  /\ UNCHANGED <<gone, mem, log>>

-----------------------------------------------------------------------------
(* Specification *)

\* Steps of the library and of the functions it calls, which return.
LibraryStep(t) ==
  \/ MakeThreadNode(t) \/ UnlinkThreadNode(t)
  \/ \E u \in Threads, ok \in BOOLEAN : PthreadCreated(t, u, ok)
  \/ StartThread(t) \/ LinkThreadNode(t)
  \/ CompareAndSwap(t) \/ BeginProcessExit(t)
  \/ BeginShootdown(t) \/ ShootdownDone(t)
  \/ \E u \in Threads : ShootdownHandler(t, u)
  \/ FiniProcess(t) \/ LoserLeaves(t)
  \/ RunAtExit(t) \/ UnderscoreExit(t)
  \/ BeforeExec(t) \/ ExecSucceeds(t) \/ ExecFails(t)
  \/ SystemFork(t) \/ SystemReturn(t)

\* What the application does, or the system does for it.
EnvironmentStep(t) ==
  \/ "threads" \in Moves /\ \E u \in Threads : PthreadCreate(t, u)
  \/ EndThread(t)
  \/ Fork(t)
  \/ \E how \in {"exit", "_exit", "exec"} : EndProcessCall(t, how)
  \/ FiniDestructor(t)
  \/ UnexpectedExec(t)
  \/ System(t) \/ CommandEnds(t)

Next == \/ MonitorMain
        \/ \E t \in Threads : LibraryStep(t) \/ EnvironmentStep(t)

Spec == Init /\ [][Next]_vars

\* The steps of the library are taken in every thread.
Fairness == \A t \in Threads : WF_vars(LibraryStep(t))

FairSpec == Spec /\ Fairness

-----------------------------------------------------------------------------
(* Properties *)

\* The state has the types of the code's variables, and a lock that is held is held
\* by a thread of this process.
TypeOK ==
  /\ gone \in BOOLEAN
  /\ mem \in Mem
  /\ pc \in [Threads -> PCs]
  /\ call \in [Threads -> Calls]
  /\ chld \in Dispositions
  /\ saved \in [Threads -> Dispositions]
  /\ cmd \in [Threads -> {"none", "running", "zombie", "reaped"}]
  /\ alone \in [Threads -> BOOLEAN]
  /\ log \in Log
  /\ ~gone /\ mem.lock = "held" => \E t \in Threads : pc[t] \in {"make", "link", "unlink"}

\* Whoever forks, from a constructor, a thread or an exit handler: the client gets
\* monitor_init_process at most once in a process, and has got it before any
\* thread of that process runs the program.
OneInitProcess ==
  /\ log.init <= 1
  /\ (\E t \in Threads : At(t, "run")) => log.init = 1

\* monitor_end_process_fcn, "The first thread to get here invokes the callback
\* functions, and the others wait for that to finish": a process neither ends nor
\* calls exec, after access() has promised success, without exactly one
\* monitor_fini_process, unless it is a copy of a process whose exit had begun.
FiniBeforeEnd ==
  /\ log.fini <= 1
  /\ (gone \/ \E t \in Threads : pc[t] = "exec") /\ ~log.late => log.fini = 1

\* A thread polls for a winner that the process does not have.
Abandoned ==
  /\ \E t \in Threads : At(t, "poll")
  /\ ~mem.fini_process_done
  /\ \A t \in Threads : pc[t] \notin Winner

\* A loser waits for a winner in its own process, unless monitor_begin_process_fcn
\* has cleared monitor_fini_process_done after an exit had begun.
AbandonedOnlyLate == Abandoned => log.late

\* monitor_reset_thread_list, "the child has only one running thread": the shootdown
\* waits only for threads that its own process has.
NoGhostThreads ==
  \A t \in Threads :
    At(t, "shoot") => \A u \in Awaited(t) : pc[u] \notin {"none", "new", "dead"}

\* monitor_begin_process_fcn clears monitor_fini_library_called: every process ends
\* with a monitor_fini_library of its own, a child of a process whose exec failed
\* after it had called monitor_fini_library included.
LibraryFinished == gone => log.lib >= 1

\* monitor_system, "Stevens describes the issues with signals": if the application
\* ignores SIGCHLD, the status of a command is still there for waitpid, whatever
\* other threads do meanwhile, fork, exec and system included.  Only a call that
\* found another one in progress may lose it: that one puts back what it saved.
StatusKept == \A t \in Threads : cmd[t] = "reaped" => ~alone[t]

\* Without the exception, which TLC refutes: two calls of system that overlap.
StatusAlwaysKept == \A t \in Threads : cmd[t] # "reaped"

\* A thread waits for a lock that a thread of the parent held at the fork.
OrphanLock == mem.lock = "orphan" /\ \E t \in Threads : At(t, "mklock")

\* pthread_create and monitor_end_process_fcn return, or the process ends or becomes
\* another one, but for the two ways in which a child is left waiting for a thread
\* that only its parent has.
OverridesReturn ==
  \A t \in Threads :
    pc[t] \in EndProcess \cup {"mklock", "make"}
      ~> (pc[t] \notin EndProcess \cup {"mklock", "make"} \/ Abandoned \/ OrphanLock)

\* The comment on monitor_end_process_fcn, "we can't block them forever because that
\* would deadlock": a thread that loses the race leaves in the end.
LosersLeave == \A t \in Threads : At(t, "poll") ~> ~At(t, "poll")
=============================================================================
