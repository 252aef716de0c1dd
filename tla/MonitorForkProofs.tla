--------------------------- MODULE MonitorForkProofs ---------------------------
(***************************************************************************)
(* Proofs about MonitorFork: its inductive invariant and the theorems that *)
(* follow from it, for any threads.                                        *)
(***************************************************************************)
EXTENDS MonitorFork, TLAPS

\* Points inside an override, from which a thread returns to call[t].from.
InCall == EndProcess \cup {"mklock", "make", "ended", "exec", "sysfork", "syswait"}

\* Where the application is or was left.
Place(t, a) == pc[t] = a \/ (pc[t] \in InCall /\ call[t].from = a)

\* A thread in an override has a place to return to.
CallInv == \A t \in Threads : pc[t] \in InCall => call[t].from \in Appl

\* The constructors run in the main thread before main; the program runs after
\* init_process.
MainInv ==
  /\ log.init = IF mem.has_reached_main THEN 1 ELSE 0
  /\ mem.thread_support_done => mem.has_reached_main
  /\ \A t \in Threads : Place(t, "premain") => t = Main /\ ~mem.has_reached_main
  /\ \A t \in Threads : Place(t, "run") => mem.has_reached_main
  /\ \A t \in Threads : pc[t] = "link" => mem.thread_support_done

\* t is past monitor_end_process_fcn, or in a handler that runs after it.
Past(t) == pc[t] \in {"ended", "exec"} \/ Place(t, "atexit")

\* The compare_and_swap lets one thread through, and nobody passes while it is busy.
ExitInv ==
  /\ ~mem.end_process_cookie =>
       /\ ~mem.fini_process_done /\ log.fini = 0 /\ mem.exit_win = {}
       /\ \A t \in Threads : pc[t] \notin Winner \cup {"poll"} /\ ~Past(t)
  /\ \A t \in Threads : pc[t] \in Winner =>
       /\ ~mem.fini_process_done /\ log.fini = 0 /\ mem.exit_win = {t}
       /\ \A u \in Threads : ~Past(u) /\ (pc[u] \in Winner => u = t)
  /\ mem.end_process_cookie /\ (\A t \in Threads : pc[t] \notin Winner) /\ ~log.late
       => log.fini = 1 /\ (gone \/ mem.fini_process_done)
  /\ log.fini <= 1
  /\ gone /\ ~log.late => log.fini = 1

\* A thread that is on the list and not finished exists.
ListInv ==
  /\ ~mem.has_used_threads => mem.list = {}
  /\ \A t \in Threads : pc[t] \in {"mklock", "make", "start", "link"} => mem.has_used_threads
  /\ ~gone => \A u \in mem.list \ mem.fini_done : pc[u] \notin {"none", "new", "start", "link", "dead"}

\* monitor_fini_library_called is set by a call of monitor_fini_library.
LibraryInv == (mem.fini_library_called \/ gone) => log.lib >= 1

\* While a call of system that found no other in progress goes on, SIGCHLD has the
\* default action, and so has what the calls that came after it will put back.
SystemInv ==
  /\ \A t \in Threads : alone[t] => InSystem(t)
  /\ \A t \in Threads : cmd[t] = "reaped" => InSystem(t) /\ ~alone[t]
  /\ \A t \in Threads : alone[t] => chld = "other"
  /\ \A t, u \in Threads : alone[t] /\ u # t /\ InSystem(u) => saved[u] = "other"

ForkInv == TypeOK /\ CallInv /\ MainInv /\ ExitInv /\ ListInv /\ LibraryInv

\* A counter of the log may be raised.
LEMMA LogUpdates ==
  ASSUME log \in Log
  PROVE  /\ [log EXCEPT !.fini = @ + 1] \in Log
         /\ [log EXCEPT !.lib = IF mem.fini_library_called THEN @ ELSE @ + 1] \in Log
         /\ \A b \in BOOLEAN : [log EXCEPT !.init = @ + 1, !.late = b] \in Log
<1>1. log.init + 1 \in Nat /\ log.fini + 1 \in Nat /\ log.lib + 1 \in Nat
  BY DEF Log
<1>2. ASSUME NEW b \in BOOLEAN PROVE [log EXCEPT !.init = @ + 1, !.late = b] \in Log
  <2>1. [log EXCEPT !.init = @ + 1] \in Log
    BY <1>1 DEF Log
  <2>2. \A r \in Log : [r EXCEPT !.late = b] \in Log
    BY DEF Log
  <2>3. [log EXCEPT !.init = @ + 1, !.late = b] = [[log EXCEPT !.init = @ + 1] EXCEPT !.late = b]
    OBVIOUS
  <2> QED
    BY <2>1, <2>2, <2>3
<1>3. [log EXCEPT !.fini = @ + 1] \in Log
  BY <1>1 DEF Log
<1>4. [log EXCEPT !.lib = IF mem.fini_library_called THEN @ ELSE @ + 1] \in Log
  BY <1>1 DEF Log
<1> QED
  BY <1>2, <1>3, <1>4

\* The sets of the library's state and what the actions do with them.
LEMMA MemSets ==
  ASSUME NEW r \in Mem, NEW t \in Threads
  PROVE  /\ r.list \in SUBSET Threads
         /\ r.list \cup {t} \in SUBSET Threads
         /\ r.list \ {t} \in SUBSET Threads
         /\ r.fini_done \cup {t} \in SUBSET Threads
         /\ r.exit_win \cup {t} \in SUBSET Threads
         /\ r.exit_win \cap {t} \in SUBSET Threads
<1>1. (r.list \subseteq Threads) /\ (r.fini_done \subseteq Threads) /\ (r.exit_win \subseteq Threads)
  BY DEF Mem
<1> QED
  BY <1>1

\* The sets of the library's state may be replaced.
LEMMA MemUpdates ==
  ASSUME NEW r \in Mem, NEW S \in SUBSET Threads
  PROVE  /\ [r EXCEPT !.lock = "free", !.list = S] \in Mem
         /\ [r EXCEPT !.list = S, !.lock = "free"] \in Mem
         /\ [r EXCEPT !.fini_done = S, !.lock = "free"] \in Mem
         /\ [r EXCEPT !.fini_done = S] \in Mem
         /\ [r EXCEPT !.end_process_cookie = TRUE, !.exit_win = S] \in Mem
         /\ [r EXCEPT !.exit_win = S, !.list = {}, !.fini_done = {},
                      !.has_used_threads = FALSE] \in Mem
         /\ \A b \in BOOLEAN : [r EXCEPT !.list = S, !.has_used_threads = TRUE,
                                         !.thread_support_done = b] \in Mem
<1> USE DEF Mem
<1>1. [r EXCEPT !.lock = "free", !.list = S] \in Mem
  OBVIOUS
<1>2. [r EXCEPT !.list = S, !.lock = "free"] \in Mem
  OBVIOUS
<1>3. [r EXCEPT !.fini_done = S, !.lock = "free"] \in Mem
  OBVIOUS
<1>4. [r EXCEPT !.fini_done = S] \in Mem
  OBVIOUS
<1>5. [r EXCEPT !.end_process_cookie = TRUE, !.exit_win = S] \in Mem
  OBVIOUS
<1>6. [r EXCEPT !.exit_win = S, !.list = {}, !.fini_done = {}, !.has_used_threads = FALSE] \in Mem
  OBVIOUS
<1>7. ASSUME NEW b \in BOOLEAN
      PROVE  [r EXCEPT !.list = S, !.has_used_threads = TRUE, !.thread_support_done = b] \in Mem
  OBVIOUS
<1> QED
  BY <1>1, <1>2, <1>3, <1>4, <1>5, <1>6, <1>7

\* Fields that the compare_and_swap leaves alone.
SameButExit ==
  /\ mem'.fini_library_called = mem.fini_library_called
  /\ mem'.has_reached_main = mem.has_reached_main
  /\ mem'.has_used_threads = mem.has_used_threads
  /\ mem'.thread_support_done = mem.thread_support_done
  /\ mem'.in_exit_cleanup = mem.in_exit_cleanup
  /\ mem'.lock = mem.lock
  /\ mem'.list = mem.list
  /\ mem'.fini_done = mem.fini_done

\* What the compare_and_swap does to the library's state: the thread wins, comes back
\* or loses.
LEMMA CasStep ==
  ASSUME TypeOK, NEW t \in Threads, CompareAndSwap(t)
  PROVE  /\ mem' \in Mem /\ SameButExit /\ mem'.end_process_cookie
         /\ \/ /\ ~mem.end_process_cookie
               /\ mem'.exit_win = mem.exit_win \cup {t}
               /\ mem'.fini_process_done = mem.fini_process_done
               /\ pc' = [pc EXCEPT ![t] = "begin"]
            \/ /\ mem.end_process_cookie /\ t \in mem.exit_win
               /\ mem'.exit_win = mem.exit_win
               /\ mem'.fini_process_done
               /\ pc' = [pc EXCEPT ![t] = "ended"]
            \/ /\ mem.end_process_cookie /\ t \notin mem.exit_win
               /\ mem' = mem
               /\ pc' = [pc EXCEPT ![t] = "poll"]
<1> USE DEF CompareAndSwap, Goto, SameButExit
<1>1. mem \in Mem /\ mem.exit_win \cup {t} \in SUBSET Threads
  BY MemSets DEF TypeOK
<1>2. CASE ~mem.end_process_cookie
  <2>1. mem' = [mem EXCEPT !.end_process_cookie = TRUE, !.exit_win = mem.exit_win \cup {t}]
    BY <1>2
  <2>2. mem' \in Mem
    BY <1>1, <2>1, MemUpdates
  <2>3. SameButExit /\ mem'.end_process_cookie /\ (mem'.exit_win = mem.exit_win \cup {t})
           /\ (mem'.fini_process_done = mem.fini_process_done)
    BY <1>1, <2>1 DEF Mem
  <2> QED
    BY <1>2, <2>2, <2>3
<1>3. CASE mem.end_process_cookie /\ t \in mem.exit_win
  <2>1. mem' = [mem EXCEPT !.fini_process_done = TRUE]
    BY <1>3
  <2>2. mem' \in Mem /\ SameButExit /\ mem'.end_process_cookie /\ (mem'.exit_win = mem.exit_win)
           /\ mem'.fini_process_done
    BY <1>1, <1>3, <2>1 DEF Mem
  <2> QED
    BY <1>3, <2>2
<1>4. CASE mem.end_process_cookie /\ t \notin mem.exit_win
  BY <1>1, <1>4
<1> QED
  BY <1>2, <1>3, <1>4

\* Every step keeps the types.
LEMMA TypeStep ==
  ASSUME TypeOK, CallInv, [Next]_vars
  PROVE  TypeOK'
<1> USE MainAssumption
    DEF TypeOK, CallInv, InCall, Mem, Log, NoLog, NoCall, Calls, Dispositions, NotSaved, PCs, Appl, Winner, EndProcess,
        At, InAppl, Goto, Called, threadVars, sysVars, vars
<1>1. ASSUME MonitorMain PROVE TypeOK'
  <2>1. mem' \in Mem
    BY <1>1 DEF MonitorMain, ResetFlags, OnlyMain
  <2>2. (gone' \in BOOLEAN) /\ (pc' \in [Threads -> PCs]) /\ (call' \in [Threads -> Calls])
    BY <1>1 DEF MonitorMain, ResetFlags, OnlyMain
  <2>3. (chld' \in Dispositions) /\ (saved' \in [Threads -> Dispositions]) /\ (alone' \in [Threads -> BOOLEAN])
    BY <1>1 DEF MonitorMain, ResetFlags, OnlyMain
  <2>4. (cmd' \in [Threads -> {"none", "running", "zombie", "reaped"}]) /\ log' \in Log
    <3>1. log' \in Log
      BY <1>1, LogUpdates DEF MonitorMain, ResetFlags, OnlyMain
    <3>2. cmd' \in [Threads -> {"none", "running", "zombie", "reaped"}]
      BY <1>1 DEF MonitorMain, ResetFlags, OnlyMain
    <3> QED
      BY <3>1, <3>2
  <2>5. (~gone /\ mem.lock = "held" => \E v \in Threads : pc[v] \in {"make", "link", "unlink"})'
    BY <1>1 DEF MonitorMain, ResetFlags, OnlyMain
  <2> QED
    BY <2>1, <2>2, <2>3, <2>4, <2>5
<1>2. ASSUME NEW t \in Threads, NEW u \in Threads, PthreadCreate(t, u) PROVE TypeOK'
  <2>1. mem' \in Mem
    <3> DEFINE S == IF mem.has_used_threads THEN mem.list ELSE {}
               b == mem.thread_support_done \/ mem.has_reached_main
    <3>1. mem' = [mem EXCEPT !.list = S, !.has_used_threads = TRUE, !.thread_support_done = b]
      BY <1>2 DEF PthreadCreate
    <3>2. (mem \in Mem) /\ b \in BOOLEAN
      OBVIOUS
    <3> HIDE DEF Mem, TypeOK
    <3>3. S \in SUBSET Threads
      BY <3>2, MemSets
    <3> HIDE DEF S, b
    <3> QED
      BY <3>1, <3>2, <3>3, MemUpdates
  <2>2. (gone' \in BOOLEAN) /\ (pc' \in [Threads -> PCs]) /\ (call' \in [Threads -> Calls])
    BY <1>2 DEF PthreadCreate
  <2>3. (chld' \in Dispositions) /\ (saved' \in [Threads -> Dispositions]) /\ (alone' \in [Threads -> BOOLEAN])
    BY <1>2 DEF PthreadCreate
  <2>4. (cmd' \in [Threads -> {"none", "running", "zombie", "reaped"}]) /\ log' \in Log
    BY <1>2 DEF PthreadCreate
  <2>5. (~gone /\ mem.lock = "held" => \E v \in Threads : pc[v] \in {"make", "link", "unlink"})'
    BY <1>2 DEF PthreadCreate
  <2> QED
    BY <2>1, <2>2, <2>3, <2>4, <2>5
<1>3. ASSUME NEW t \in Threads, MakeThreadNode(t) PROVE TypeOK'
  <2>1. mem' \in Mem
    BY <1>3 DEF MakeThreadNode
  <2>2. (gone' \in BOOLEAN) /\ (pc' \in [Threads -> PCs]) /\ (call' \in [Threads -> Calls])
    BY <1>3 DEF MakeThreadNode
  <2>3. (chld' \in Dispositions) /\ (saved' \in [Threads -> Dispositions]) /\ (alone' \in [Threads -> BOOLEAN])
    BY <1>3 DEF MakeThreadNode
  <2>4. (cmd' \in [Threads -> {"none", "running", "zombie", "reaped"}]) /\ log' \in Log
    BY <1>3 DEF MakeThreadNode
  <2>5. (~gone /\ mem.lock = "held" => \E v \in Threads : pc[v] \in {"make", "link", "unlink"})'
    BY <1>3 DEF MakeThreadNode
  <2> QED
    BY <2>1, <2>2, <2>3, <2>4, <2>5
<1>4. ASSUME NEW t \in Threads, NEW u \in Threads, NEW ok \in BOOLEAN, PthreadCreated(t, u, ok) PROVE TypeOK'
  <2>1. mem' \in Mem
    BY <1>4 DEF PthreadCreated
  <2>2. (gone' \in BOOLEAN) /\ (pc' \in [Threads -> PCs]) /\ (call' \in [Threads -> Calls])
    BY <1>4 DEF PthreadCreated
  <2>3. (chld' \in Dispositions) /\ (saved' \in [Threads -> Dispositions]) /\ (alone' \in [Threads -> BOOLEAN])
    BY <1>4 DEF PthreadCreated
  <2>4. (cmd' \in [Threads -> {"none", "running", "zombie", "reaped"}]) /\ log' \in Log
    BY <1>4 DEF PthreadCreated
  <2>5. (~gone /\ mem.lock = "held" => \E v \in Threads : pc[v] \in {"make", "link", "unlink"})'
    BY <1>4 DEF PthreadCreated
  <2> QED
    BY <2>1, <2>2, <2>3, <2>4, <2>5
<1>5. ASSUME NEW t \in Threads, StartThread(t) PROVE TypeOK'
  <2>1. mem' \in Mem
    BY <1>5 DEF StartThread
  <2>2. (gone' \in BOOLEAN) /\ (pc' \in [Threads -> PCs]) /\ (call' \in [Threads -> Calls])
    BY <1>5 DEF StartThread
  <2>3. (chld' \in Dispositions) /\ (saved' \in [Threads -> Dispositions]) /\ (alone' \in [Threads -> BOOLEAN])
    BY <1>5 DEF StartThread
  <2>4. (cmd' \in [Threads -> {"none", "running", "zombie", "reaped"}]) /\ log' \in Log
    BY <1>5 DEF StartThread
  <2>5. (~gone /\ mem.lock = "held" => \E v \in Threads : pc[v] \in {"make", "link", "unlink"})'
    BY <1>5 DEF StartThread
  <2> QED
    BY <2>1, <2>2, <2>3, <2>4, <2>5
<1>6. ASSUME NEW t \in Threads, LinkThreadNode(t) PROVE TypeOK'
  <2>1. mem' \in Mem
    <3>1. \/ mem' = [mem EXCEPT !.lock = "free", !.list = mem.list]
          \/ mem' = [mem EXCEPT !.lock = "free", !.list = mem.list \cup {t}]
      BY <1>6 DEF LinkThreadNode
    <3>2. mem \in Mem
      OBVIOUS
    <3> HIDE DEF Mem, TypeOK
    <3>3. mem.list \in SUBSET Threads /\ mem.list \cup {t} \in SUBSET Threads
      BY <3>2, MemSets
    <3>4. [mem EXCEPT !.lock = "free", !.list = mem.list] \in Mem
      BY <3>2, <3>3, MemUpdates
    <3>5. [mem EXCEPT !.lock = "free", !.list = mem.list \cup {t}] \in Mem
      BY <3>2, <3>3, MemUpdates
    <3> QED
      BY <3>1, <3>4, <3>5
  <2>2. (gone' \in BOOLEAN) /\ (pc' \in [Threads -> PCs]) /\ (call' \in [Threads -> Calls])
    BY <1>6 DEF LinkThreadNode
  <2>3. (chld' \in Dispositions) /\ (saved' \in [Threads -> Dispositions]) /\ (alone' \in [Threads -> BOOLEAN])
    BY <1>6 DEF LinkThreadNode
  <2>4. (cmd' \in [Threads -> {"none", "running", "zombie", "reaped"}]) /\ log' \in Log
    BY <1>6 DEF LinkThreadNode
  <2>5. (~gone /\ mem.lock = "held" => \E v \in Threads : pc[v] \in {"make", "link", "unlink"})'
    BY <1>6 DEF LinkThreadNode
  <2> QED
    BY <2>1, <2>2, <2>3, <2>4, <2>5
<1>7. ASSUME NEW t \in Threads, EndThread(t) PROVE TypeOK'
  <2>1. mem' \in Mem
    BY <1>7 DEF EndThread
  <2>2. (gone' \in BOOLEAN) /\ (pc' \in [Threads -> PCs]) /\ (call' \in [Threads -> Calls])
    BY <1>7 DEF EndThread
  <2>3. (chld' \in Dispositions) /\ (saved' \in [Threads -> Dispositions]) /\ (alone' \in [Threads -> BOOLEAN])
    BY <1>7 DEF EndThread
  <2>4. (cmd' \in [Threads -> {"none", "running", "zombie", "reaped"}]) /\ log' \in Log
    BY <1>7 DEF EndThread
  <2>5. (~gone /\ mem.lock = "held" => \E v \in Threads : pc[v] \in {"make", "link", "unlink"})'
    BY <1>7 DEF EndThread
  <2> QED
    BY <2>1, <2>2, <2>3, <2>4, <2>5
<1>8. ASSUME NEW t \in Threads, UnlinkThreadNode(t) PROVE TypeOK'
  <2>1. mem' \in Mem
    <3>1. \/ mem' = [mem EXCEPT !.fini_done = mem.fini_done \cup {t}, !.lock = "free"]
          \/ mem' = [mem EXCEPT !.list = mem.list \ {t}, !.lock = "free"]
      BY <1>8 DEF UnlinkThreadNode, WithoutNode
    <3>2. mem \in Mem
      OBVIOUS
    <3> HIDE DEF Mem, TypeOK
    <3>3. mem.fini_done \cup {t} \in SUBSET Threads /\ mem.list \ {t} \in SUBSET Threads
      BY <3>2, MemSets
    <3>4. [mem EXCEPT !.fini_done = mem.fini_done \cup {t}, !.lock = "free"] \in Mem
      BY <3>2, <3>3, MemUpdates
    <3>5. [mem EXCEPT !.list = mem.list \ {t}, !.lock = "free"] \in Mem
      BY <3>2, <3>3, MemUpdates
    <3> QED
      BY <3>1, <3>4, <3>5
  <2>2. (gone' \in BOOLEAN) /\ (pc' \in [Threads -> PCs]) /\ (call' \in [Threads -> Calls])
    BY <1>8 DEF UnlinkThreadNode, WithoutNode
  <2>3. (chld' \in Dispositions) /\ (saved' \in [Threads -> Dispositions]) /\ (alone' \in [Threads -> BOOLEAN])
    BY <1>8 DEF UnlinkThreadNode, WithoutNode
  <2>4. (cmd' \in [Threads -> {"none", "running", "zombie", "reaped"}]) /\ log' \in Log
    BY <1>8 DEF UnlinkThreadNode, WithoutNode
  <2>5. (~gone /\ mem.lock = "held" => \E v \in Threads : pc[v] \in {"make", "link", "unlink"})'
    BY <1>8 DEF UnlinkThreadNode, WithoutNode
  <2> QED
    BY <2>1, <2>2, <2>3, <2>4, <2>5
<1>9. ASSUME NEW t \in Threads, Fork(t) PROVE TypeOK'
  <2>1. mem' \in Mem
    <3> DEFINE c == [mem EXCEPT !.lock = LockInChild(mem)]
    <3>1. c \in Mem
      BY DEF LockInChild
    <3> HIDE DEF c, Mem, TypeOK
    <3>2. ResetThreadList(c, t) \in Mem
      <4> DEFINE W == IF t = Main THEN c.exit_win \cap {Main} ELSE {}
      <4>1. W \in SUBSET Threads
        BY <3>1, MemSets
      <4>2. \/ ResetThreadList(c, t) = c
            \/ ResetThreadList(c, t) = [c EXCEPT !.exit_win = W, !.list = {}, !.fini_done = {},
                                                !.has_used_threads = FALSE]
        BY DEF ResetThreadList
      <4> HIDE DEF W
      <4>3. [c EXCEPT !.exit_win = W, !.list = {}, !.fini_done = {}, !.has_used_threads = FALSE] \in Mem
        BY <3>1, <4>1, MemUpdates
      <4> QED
        BY <3>1, <4>2, <4>3
    <3>3. mem' = ResetFlags(ResetThreadList(c, t))
      BY <1>9 DEF Fork, c
    <3> QED
      BY <3>2, <3>3 DEF ResetFlags, Mem
  <2>2. (gone' \in BOOLEAN) /\ (pc' \in [Threads -> PCs]) /\ (call' \in [Threads -> Calls])
    BY <1>9 DEF Fork, ResetThreadList, ResetFlags, InitIfMain, LockInChild, OnlyMain, NoCalls
  <2>3. (chld' \in Dispositions) /\ (saved' \in [Threads -> Dispositions]) /\ (alone' \in [Threads -> BOOLEAN])
    BY <1>9 DEF Fork, ResetThreadList, ResetFlags, InitIfMain, LockInChild, OnlyMain, NoCalls
  <2>4. (cmd' \in [Threads -> {"none", "running", "zombie", "reaped"}]) /\ log' \in Log
    BY <1>9 DEF Fork, ResetThreadList, ResetFlags, InitIfMain, LockInChild, OnlyMain, NoCalls
  <2>5. (~gone /\ mem.lock = "held" => \E v \in Threads : pc[v] \in {"make", "link", "unlink"})'
    BY <1>9 DEF Fork, ResetThreadList, ResetFlags, InitIfMain, LockInChild, OnlyMain, NoCalls
  <2> QED
    BY <2>1, <2>2, <2>3, <2>4, <2>5
<1>10. ASSUME NEW t \in Threads, NEW how \in {"exit", "_exit", "exec"}, EndProcessCall(t, how) PROVE TypeOK'
  BY <1>10 DEF EndProcessCall
<1>11. ASSUME NEW t \in Threads, CompareAndSwap(t) PROVE TypeOK'
  <2>1. mem' \in Mem
    BY <1>11, CasStep
  <2>2. (gone' \in BOOLEAN) /\ (pc' \in [Threads -> PCs]) /\ (call' \in [Threads -> Calls])
    <3>1. (gone' = gone) /\ (call' = call)
      BY <1>11 DEF CompareAndSwap
    <3>2. \E to \in {"begin", "ended", "poll"} : pc' = [pc EXCEPT ![t] = to]
      BY <1>11, CasStep
    <3>3. pc' \in [Threads -> PCs]
      BY <3>2
    <3> QED
      BY <3>1, <3>3
  <2>3. (chld' \in Dispositions) /\ (saved' \in [Threads -> Dispositions]) /\ (alone' \in [Threads -> BOOLEAN])
    BY <1>11 DEF CompareAndSwap
  <2>4. (cmd' \in [Threads -> {"none", "running", "zombie", "reaped"}]) /\ log' \in Log
    BY <1>11 DEF CompareAndSwap
  <2>5. (~gone /\ mem.lock = "held" => \E v \in Threads : pc[v] \in {"make", "link", "unlink"})'
    <3>1. mem.lock' = mem.lock
      BY <1>11, CasStep DEF SameButExit
    <3>2. \A v \in Threads : pc[v] \in {"make", "link", "unlink"} => pc'[v] = pc[v]
      BY <1>11 DEF CompareAndSwap
    <3> QED
      BY <1>11, <3>1, <3>2 DEF CompareAndSwap
  <2> QED
    BY <2>1, <2>2, <2>3, <2>4, <2>5
<1>12. ASSUME NEW t \in Threads, BeginProcessExit(t) PROVE TypeOK'
  BY <1>12 DEF BeginProcessExit
<1>13. ASSUME NEW t \in Threads, BeginShootdown(t) PROVE TypeOK'
  BY <1>13 DEF BeginShootdown
<1>14. ASSUME NEW t \in Threads, NEW u \in Threads, ShootdownHandler(t, u) PROVE TypeOK'
  <2>1. mem' \in Mem
    <3>1. mem' = [mem EXCEPT !.fini_done = mem.fini_done \cup {u}]
      BY <1>14 DEF ShootdownHandler
    <3>2. mem \in Mem
      OBVIOUS
    <3> HIDE DEF Mem, TypeOK
    <3> QED
      BY <3>1, <3>2, MemSets, MemUpdates
  <2>2. (gone' \in BOOLEAN) /\ (pc' \in [Threads -> PCs]) /\ (call' \in [Threads -> Calls])
    BY <1>14 DEF ShootdownHandler
  <2>3. (chld' \in Dispositions) /\ (saved' \in [Threads -> Dispositions]) /\ (alone' \in [Threads -> BOOLEAN])
    BY <1>14 DEF ShootdownHandler
  <2>4. (cmd' \in [Threads -> {"none", "running", "zombie", "reaped"}]) /\ log' \in Log
    BY <1>14 DEF ShootdownHandler
  <2>5. (~gone /\ mem.lock = "held" => \E v \in Threads : pc[v] \in {"make", "link", "unlink"})'
    BY <1>14 DEF ShootdownHandler
  <2> QED
    BY <2>1, <2>2, <2>3, <2>4, <2>5
<1>15. ASSUME NEW t \in Threads, ShootdownDone(t) PROVE TypeOK'
  BY <1>15 DEF ShootdownDone
<1>16. ASSUME NEW t \in Threads, FiniProcess(t) PROVE TypeOK'
  <2>1. mem' \in Mem
    BY <1>16 DEF FiniProcess, FiniProcessDone
  <2>2. (gone' \in BOOLEAN) /\ (pc' \in [Threads -> PCs]) /\ (call' \in [Threads -> Calls])
    BY <1>16 DEF FiniProcess, FiniProcessDone
  <2>3. (chld' \in Dispositions) /\ (saved' \in [Threads -> Dispositions]) /\ (alone' \in [Threads -> BOOLEAN])
    BY <1>16 DEF FiniProcess, FiniProcessDone
  <2>4. (cmd' \in [Threads -> {"none", "running", "zombie", "reaped"}]) /\ log' \in Log
    <3>1. log' \in Log
      BY <1>16, LogUpdates DEF FiniProcess, FiniProcessDone
    <3>2. cmd' \in [Threads -> {"none", "running", "zombie", "reaped"}]
      BY <1>16 DEF FiniProcess, FiniProcessDone
    <3> QED
      BY <3>1, <3>2
  <2>5. (~gone /\ mem.lock = "held" => \E v \in Threads : pc[v] \in {"make", "link", "unlink"})'
    BY <1>16 DEF FiniProcess, FiniProcessDone
  <2> QED
    BY <2>1, <2>2, <2>3, <2>4, <2>5
<1>17. ASSUME NEW t \in Threads, LoserLeaves(t) PROVE TypeOK'
  <2>1. mem' \in Mem
    BY <1>17 DEF LoserLeaves, LoserMayLeave
  <2>2. (gone' \in BOOLEAN) /\ (pc' \in [Threads -> PCs]) /\ (call' \in [Threads -> Calls])
    BY <1>17 DEF LoserLeaves, LoserMayLeave
  <2>3. (chld' \in Dispositions) /\ (saved' \in [Threads -> Dispositions]) /\ (alone' \in [Threads -> BOOLEAN])
    BY <1>17 DEF LoserLeaves, LoserMayLeave
  <2>4. (cmd' \in [Threads -> {"none", "running", "zombie", "reaped"}]) /\ log' \in Log
    BY <1>17 DEF LoserLeaves, LoserMayLeave
  <2>5. (~gone /\ mem.lock = "held" => \E v \in Threads : pc[v] \in {"make", "link", "unlink"})'
    BY <1>17 DEF LoserLeaves, LoserMayLeave
  <2> QED
    BY <2>1, <2>2, <2>3, <2>4, <2>5
<1>18. ASSUME NEW t \in Threads, RunAtExit(t) PROVE TypeOK'
  BY <1>18 DEF RunAtExit
<1>19. ASSUME NEW t \in Threads, FiniDestructor(t) PROVE TypeOK'
  <2>1. mem' \in Mem
    BY <1>19 DEF FiniDestructor, EndLibrary, Gone, NoCalls, OnlyMain
  <2>2. (gone' \in BOOLEAN) /\ (pc' \in [Threads -> PCs]) /\ (call' \in [Threads -> Calls])
    BY <1>19 DEF FiniDestructor, EndLibrary, Gone, NoCalls, OnlyMain
  <2>3. (chld' \in Dispositions) /\ (saved' \in [Threads -> Dispositions]) /\ (alone' \in [Threads -> BOOLEAN])
    BY <1>19 DEF FiniDestructor, EndLibrary, Gone, NoCalls, OnlyMain
  <2>4. (cmd' \in [Threads -> {"none", "running", "zombie", "reaped"}]) /\ log' \in Log
    <3>1. log' \in Log
      BY <1>19, LogUpdates DEF FiniDestructor, EndLibrary, Gone, NoCalls, OnlyMain
    <3>2. cmd' \in [Threads -> {"none", "running", "zombie", "reaped"}]
      BY <1>19 DEF FiniDestructor, EndLibrary, Gone, NoCalls, OnlyMain
    <3> QED
      BY <3>1, <3>2
  <2>5. (~gone /\ mem.lock = "held" => \E v \in Threads : pc[v] \in {"make", "link", "unlink"})'
    BY <1>19 DEF FiniDestructor, EndLibrary, Gone, NoCalls, OnlyMain
  <2> QED
    BY <2>1, <2>2, <2>3, <2>4, <2>5
<1>20. ASSUME NEW t \in Threads, UnderscoreExit(t) PROVE TypeOK'
  <2>1. mem' \in Mem
    BY <1>20 DEF UnderscoreExit, EndLibrary, Gone, NoCalls, OnlyMain
  <2>2. (gone' \in BOOLEAN) /\ (pc' \in [Threads -> PCs]) /\ (call' \in [Threads -> Calls])
    BY <1>20 DEF UnderscoreExit, EndLibrary, Gone, NoCalls, OnlyMain
  <2>3. (chld' \in Dispositions) /\ (saved' \in [Threads -> Dispositions]) /\ (alone' \in [Threads -> BOOLEAN])
    BY <1>20 DEF UnderscoreExit, EndLibrary, Gone, NoCalls, OnlyMain
  <2>4. (cmd' \in [Threads -> {"none", "running", "zombie", "reaped"}]) /\ log' \in Log
    <3>1. log' \in Log
      BY <1>20, LogUpdates DEF UnderscoreExit, EndLibrary, Gone, NoCalls, OnlyMain
    <3>2. cmd' \in [Threads -> {"none", "running", "zombie", "reaped"}]
      BY <1>20 DEF UnderscoreExit, EndLibrary, Gone, NoCalls, OnlyMain
    <3> QED
      BY <3>1, <3>2
  <2>5. (~gone /\ mem.lock = "held" => \E v \in Threads : pc[v] \in {"make", "link", "unlink"})'
    BY <1>20 DEF UnderscoreExit, EndLibrary, Gone, NoCalls, OnlyMain
  <2> QED
    BY <2>1, <2>2, <2>3, <2>4, <2>5
<1>21. ASSUME NEW t \in Threads, BeforeExec(t) PROVE TypeOK'
  <2>1. mem' \in Mem
    BY <1>21 DEF BeforeExec, EndLibrary
  <2>2. (gone' \in BOOLEAN) /\ (pc' \in [Threads -> PCs]) /\ (call' \in [Threads -> Calls])
    BY <1>21 DEF BeforeExec, EndLibrary
  <2>3. (chld' \in Dispositions) /\ (saved' \in [Threads -> Dispositions]) /\ (alone' \in [Threads -> BOOLEAN])
    BY <1>21 DEF BeforeExec, EndLibrary
  <2>4. (cmd' \in [Threads -> {"none", "running", "zombie", "reaped"}]) /\ log' \in Log
    <3>1. log' \in Log
      BY <1>21, LogUpdates DEF BeforeExec, EndLibrary
    <3>2. cmd' \in [Threads -> {"none", "running", "zombie", "reaped"}]
      BY <1>21 DEF BeforeExec, EndLibrary
    <3> QED
      BY <3>1, <3>2
  <2>5. (~gone /\ mem.lock = "held" => \E v \in Threads : pc[v] \in {"make", "link", "unlink"})'
    BY <1>21 DEF BeforeExec, EndLibrary
  <2> QED
    BY <2>1, <2>2, <2>3, <2>4, <2>5
<1>22. ASSUME NEW t \in Threads, ExecSucceeds(t) PROVE TypeOK'
  BY <1>22 DEF ExecSucceeds, NewProgram, FreshMem, OnlyMain, NoCalls
<1>23. ASSUME NEW t \in Threads, ExecFails(t) PROVE TypeOK'
  BY <1>23 DEF ExecFails, Return
<1>24. ASSUME NEW t \in Threads, UnexpectedExec(t) PROVE TypeOK'
  BY <1>24 DEF UnexpectedExec, NewProgram, FreshMem, OnlyMain, NoCalls
<1>25. ASSUME NEW t \in Threads, System(t) PROVE TypeOK'
  BY <1>25 DEF System, ChldAction, InSystem
<1>26. ASSUME NEW t \in Threads, SystemFork(t) PROVE TypeOK'
  BY <1>26 DEF SystemFork
<1>27. ASSUME NEW t \in Threads, CommandEnds(t) PROVE TypeOK'
  BY <1>27 DEF CommandEnds
<1>28. ASSUME NEW t \in Threads, SystemReturn(t) PROVE TypeOK'
  BY <1>28 DEF SystemReturn, Return
<1>29. ASSUME UNCHANGED vars PROVE TypeOK'
  BY <1>29
<1> HIDE DEF TypeOK, CallInv, InCall, Mem, Log, NoLog, NoCall, Calls, Dispositions, NotSaved, PCs, Appl, Winner, EndProcess,
         At, InAppl, Goto, Called, threadVars, sysVars, vars
<1>30. ASSUME NEW t \in Threads, LibraryStep(t) PROVE TypeOK'
  BY <1>30, <1>3, <1>8, <1>4, <1>5, <1>6, <1>11, <1>12, <1>13, <1>15,
     <1>14, <1>16, <1>17, <1>18, <1>20, <1>21, <1>22, <1>23, <1>26, <1>28 DEF LibraryStep
<1>31. ASSUME NEW t \in Threads, EnvironmentStep(t) PROVE TypeOK'
  BY <1>31, <1>2, <1>7, <1>9, <1>10, <1>19, <1>24, <1>25, <1>27
  DEF EnvironmentStep
<1> QED
  BY <1>1, <1>29, <1>30, <1>31 DEF Next

\* Every step leaves a thread in an override with a place to return to.
LEMMA CallStep ==
  ASSUME TypeOK, CallInv, [Next]_vars
  PROVE  CallInv'
<1> USE MainAssumption
    DEF TypeOK, CallInv, InCall, NoCall, Calls, PCs, Appl, Winner, EndProcess,
        At, InAppl, Goto, Called, threadVars, sysVars, vars
<1>1. ASSUME MonitorMain PROVE CallInv'
  BY <1>1 DEF MonitorMain, ResetFlags, OnlyMain
<1>2. ASSUME NEW t \in Threads, NEW u \in Threads, PthreadCreate(t, u) PROVE CallInv'
  BY <1>2 DEF PthreadCreate
<1>3. ASSUME NEW t \in Threads, MakeThreadNode(t) PROVE CallInv'
  BY <1>3 DEF MakeThreadNode
<1>4. ASSUME NEW t \in Threads, NEW u \in Threads, NEW ok \in BOOLEAN, PthreadCreated(t, u, ok) PROVE CallInv'
  BY <1>4 DEF PthreadCreated
<1>5. ASSUME NEW t \in Threads, StartThread(t) PROVE CallInv'
  BY <1>5 DEF StartThread
<1>6. ASSUME NEW t \in Threads, LinkThreadNode(t) PROVE CallInv'
  BY <1>6 DEF LinkThreadNode
<1>7. ASSUME NEW t \in Threads, EndThread(t) PROVE CallInv'
  BY <1>7 DEF EndThread
<1>8. ASSUME NEW t \in Threads, UnlinkThreadNode(t) PROVE CallInv'
  BY <1>8 DEF UnlinkThreadNode, WithoutNode
<1>9. ASSUME NEW t \in Threads, Fork(t) PROVE CallInv'
  BY <1>9 DEF Fork, ResetThreadList, ResetFlags, InitIfMain, LockInChild, OnlyMain, NoCalls
<1>10. ASSUME NEW t \in Threads, NEW how \in {"exit", "_exit", "exec"}, EndProcessCall(t, how) PROVE CallInv'
  BY <1>10 DEF EndProcessCall
<1>11. ASSUME NEW t \in Threads, CompareAndSwap(t) PROVE CallInv'
  BY <1>11 DEF CompareAndSwap
<1>12. ASSUME NEW t \in Threads, BeginProcessExit(t) PROVE CallInv'
  BY <1>12 DEF BeginProcessExit
<1>13. ASSUME NEW t \in Threads, BeginShootdown(t) PROVE CallInv'
  BY <1>13 DEF BeginShootdown
<1>14. ASSUME NEW t \in Threads, NEW u \in Threads, ShootdownHandler(t, u) PROVE CallInv'
  BY <1>14 DEF ShootdownHandler
<1>15. ASSUME NEW t \in Threads, ShootdownDone(t) PROVE CallInv'
  BY <1>15 DEF ShootdownDone
<1>16. ASSUME NEW t \in Threads, FiniProcess(t) PROVE CallInv'
  BY <1>16 DEF FiniProcess, FiniProcessDone
<1>17. ASSUME NEW t \in Threads, LoserLeaves(t) PROVE CallInv'
  BY <1>17 DEF LoserLeaves, LoserMayLeave
<1>18. ASSUME NEW t \in Threads, RunAtExit(t) PROVE CallInv'
  BY <1>18 DEF RunAtExit
<1>19. ASSUME NEW t \in Threads, FiniDestructor(t) PROVE CallInv'
  BY <1>19 DEF FiniDestructor, EndLibrary, Gone, NoCalls, OnlyMain
<1>20. ASSUME NEW t \in Threads, UnderscoreExit(t) PROVE CallInv'
  BY <1>20 DEF UnderscoreExit, EndLibrary, Gone, NoCalls, OnlyMain
<1>21. ASSUME NEW t \in Threads, BeforeExec(t) PROVE CallInv'
  BY <1>21 DEF BeforeExec, EndLibrary
<1>22. ASSUME NEW t \in Threads, ExecSucceeds(t) PROVE CallInv'
  BY <1>22 DEF ExecSucceeds, NewProgram, FreshMem, OnlyMain, NoCalls
<1>23. ASSUME NEW t \in Threads, ExecFails(t) PROVE CallInv'
  BY <1>23 DEF ExecFails, Return
<1>24. ASSUME NEW t \in Threads, UnexpectedExec(t) PROVE CallInv'
  BY <1>24 DEF UnexpectedExec, NewProgram, FreshMem, OnlyMain, NoCalls
<1>25. ASSUME NEW t \in Threads, System(t) PROVE CallInv'
  BY <1>25 DEF System, ChldAction, InSystem
<1>26. ASSUME NEW t \in Threads, SystemFork(t) PROVE CallInv'
  BY <1>26 DEF SystemFork
<1>27. ASSUME NEW t \in Threads, CommandEnds(t) PROVE CallInv'
  BY <1>27 DEF CommandEnds
<1>28. ASSUME NEW t \in Threads, SystemReturn(t) PROVE CallInv'
  BY <1>28 DEF SystemReturn, Return
<1>29. ASSUME UNCHANGED vars PROVE CallInv'
  BY <1>29
<1> HIDE DEF TypeOK, CallInv, InCall, NoCall, Calls, PCs, Appl, Winner, EndProcess,
         At, InAppl, Goto, Called, threadVars, sysVars, vars
<1>30. ASSUME NEW t \in Threads, LibraryStep(t) PROVE CallInv'
  BY <1>30, <1>3, <1>8, <1>4, <1>5, <1>6, <1>11, <1>12, <1>13, <1>15,
     <1>14, <1>16, <1>17, <1>18, <1>20, <1>21, <1>22, <1>23, <1>26, <1>28 DEF LibraryStep
<1>31. ASSUME NEW t \in Threads, EnvironmentStep(t) PROVE CallInv'
  BY <1>31, <1>2, <1>7, <1>9, <1>10, <1>19, <1>24, <1>25, <1>27
  DEF EnvironmentStep
<1> QED
  BY <1>1, <1>29, <1>30, <1>31 DEF Next

\* Every step keeps init_process and main together.
LEMMA MainStep ==
  ASSUME TypeOK, CallInv, MainInv, [Next]_vars
  PROVE  MainInv'
<1> USE MainAssumption
    DEF TypeOK, CallInv, MainInv, Place, InCall, Mem, Log, NoLog, NoCall, Calls, PCs, Appl, Winner, EndProcess,
        At, InAppl, Goto, Called, threadVars, sysVars, vars
<1>1. ASSUME MonitorMain PROVE MainInv'
  BY <1>1 DEF MonitorMain, ResetFlags, OnlyMain
<1>2. ASSUME NEW t \in Threads, NEW u \in Threads, PthreadCreate(t, u) PROVE MainInv'
  BY <1>2 DEF PthreadCreate
<1>3. ASSUME NEW t \in Threads, MakeThreadNode(t) PROVE MainInv'
  BY <1>3 DEF MakeThreadNode
<1>4. ASSUME NEW t \in Threads, NEW u \in Threads, NEW ok \in BOOLEAN, PthreadCreated(t, u, ok) PROVE MainInv'
  BY <1>4 DEF PthreadCreated
<1>5. ASSUME NEW t \in Threads, StartThread(t) PROVE MainInv'
  BY <1>5 DEF StartThread
<1>6. ASSUME NEW t \in Threads, LinkThreadNode(t) PROVE MainInv'
  BY <1>6 DEF LinkThreadNode
<1>7. ASSUME NEW t \in Threads, EndThread(t) PROVE MainInv'
  BY <1>7 DEF EndThread
<1>8. ASSUME NEW t \in Threads, UnlinkThreadNode(t) PROVE MainInv'
  BY <1>8 DEF UnlinkThreadNode, WithoutNode
<1>9. ASSUME NEW t \in Threads, Fork(t) PROVE MainInv'
  BY <1>9 DEF Fork, ResetThreadList, ResetFlags, InitIfMain, LockInChild, OnlyMain, NoCalls
<1>10. ASSUME NEW t \in Threads, NEW how \in {"exit", "_exit", "exec"}, EndProcessCall(t, how) PROVE MainInv'
  BY <1>10 DEF EndProcessCall
<1>11. ASSUME NEW t \in Threads, CompareAndSwap(t) PROVE MainInv'
  <2> USE <1>11
  <2>1. mem' \in Mem /\ SameButExit /\ mem'.end_process_cookie
    BY CasStep
  <2>2. (gone' = gone) /\ (call' = call) /\ (log' = log) /\ pc[t] = "cas"
    BY DEF CompareAndSwap
  <2>3. CASE ~mem.end_process_cookie
    <3>1. (mem'.exit_win = mem.exit_win \cup {t}) /\ (mem'.fini_process_done = mem.fini_process_done)
             /\ (pc' = [pc EXCEPT ![t] = "begin"])
      BY <2>3, CasStep
    <3> QED
      BY <2>1, <2>2, <2>3, <3>1 DEF SameButExit
  <2>4. CASE mem.end_process_cookie /\ t \in mem.exit_win
    <3>1. (mem'.exit_win = mem.exit_win) /\ mem'.fini_process_done /\ (pc' = [pc EXCEPT ![t] = "ended"])
      BY <2>4, CasStep
    <3> QED
      BY <2>1, <2>2, <2>4, <3>1 DEF SameButExit
  <2>5. CASE mem.end_process_cookie /\ t \notin mem.exit_win
    <3>1. (mem' = mem) /\ (pc' = [pc EXCEPT ![t] = "poll"])
      BY <2>5, CasStep
    <3> QED
      BY <2>1, <2>2, <2>5, <3>1
  <2> QED
    BY <2>3, <2>4, <2>5
<1>12. ASSUME NEW t \in Threads, BeginProcessExit(t) PROVE MainInv'
  BY <1>12 DEF BeginProcessExit
<1>13. ASSUME NEW t \in Threads, BeginShootdown(t) PROVE MainInv'
  BY <1>13 DEF BeginShootdown
<1>14. ASSUME NEW t \in Threads, NEW u \in Threads, ShootdownHandler(t, u) PROVE MainInv'
  BY <1>14 DEF ShootdownHandler
<1>15. ASSUME NEW t \in Threads, ShootdownDone(t) PROVE MainInv'
  BY <1>15 DEF ShootdownDone
<1>16. ASSUME NEW t \in Threads, FiniProcess(t) PROVE MainInv'
  BY <1>16 DEF FiniProcess, FiniProcessDone
<1>17. ASSUME NEW t \in Threads, LoserLeaves(t) PROVE MainInv'
  BY <1>17 DEF LoserLeaves, LoserMayLeave
<1>18. ASSUME NEW t \in Threads, RunAtExit(t) PROVE MainInv'
  BY <1>18 DEF RunAtExit
<1>19. ASSUME NEW t \in Threads, FiniDestructor(t) PROVE MainInv'
  BY <1>19 DEF FiniDestructor, EndLibrary, Gone, NoCalls, OnlyMain
<1>20. ASSUME NEW t \in Threads, UnderscoreExit(t) PROVE MainInv'
  BY <1>20 DEF UnderscoreExit, EndLibrary, Gone, NoCalls, OnlyMain
<1>21. ASSUME NEW t \in Threads, BeforeExec(t) PROVE MainInv'
  BY <1>21 DEF BeforeExec, EndLibrary
<1>22. ASSUME NEW t \in Threads, ExecSucceeds(t) PROVE MainInv'
  BY <1>22 DEF ExecSucceeds, NewProgram, FreshMem, OnlyMain, NoCalls
<1>23. ASSUME NEW t \in Threads, ExecFails(t) PROVE MainInv'
  BY <1>23 DEF ExecFails, Return
<1>24. ASSUME NEW t \in Threads, UnexpectedExec(t) PROVE MainInv'
  BY <1>24 DEF UnexpectedExec, NewProgram, FreshMem, OnlyMain, NoCalls
<1>25. ASSUME NEW t \in Threads, System(t) PROVE MainInv'
  BY <1>25 DEF System, ChldAction, InSystem
<1>26. ASSUME NEW t \in Threads, SystemFork(t) PROVE MainInv'
  BY <1>26 DEF SystemFork
<1>27. ASSUME NEW t \in Threads, CommandEnds(t) PROVE MainInv'
  BY <1>27 DEF CommandEnds
<1>28. ASSUME NEW t \in Threads, SystemReturn(t) PROVE MainInv'
  BY <1>28 DEF SystemReturn, Return
<1>29. ASSUME UNCHANGED vars PROVE MainInv'
  BY <1>29
<1> HIDE DEF TypeOK, CallInv, MainInv, Place, InCall, Mem, Log, NoLog, NoCall, Calls, PCs, Appl, Winner, EndProcess,
         At, InAppl, Goto, Called, threadVars, sysVars, vars
<1>30. ASSUME NEW t \in Threads, LibraryStep(t) PROVE MainInv'
  BY <1>30, <1>3, <1>8, <1>4, <1>5, <1>6, <1>11, <1>12, <1>13, <1>15,
     <1>14, <1>16, <1>17, <1>18, <1>20, <1>21, <1>22, <1>23, <1>26, <1>28 DEF LibraryStep
<1>31. ASSUME NEW t \in Threads, EnvironmentStep(t) PROVE MainInv'
  BY <1>31, <1>2, <1>7, <1>9, <1>10, <1>19, <1>24, <1>25, <1>27
  DEF EnvironmentStep
<1> QED
  BY <1>1, <1>29, <1>30, <1>31 DEF Next

\* Every step keeps the exit to one winner.
LEMMA ExitStep ==
  ASSUME TypeOK, CallInv, ExitInv, [Next]_vars
  PROVE  ExitInv'
<1> USE MainAssumption
    DEF TypeOK, CallInv, ExitInv, Past, Place, InCall, Mem, Log, NoLog, NoCall, Calls, PCs, Appl, Winner, EndProcess,
        At, InAppl, Goto, Called, threadVars, sysVars, vars
<1>1. ASSUME MonitorMain PROVE ExitInv'
  BY <1>1 DEF MonitorMain, ResetFlags, OnlyMain
<1>2. ASSUME NEW t \in Threads, NEW u \in Threads, PthreadCreate(t, u) PROVE ExitInv'
  BY <1>2 DEF PthreadCreate
<1>3. ASSUME NEW t \in Threads, MakeThreadNode(t) PROVE ExitInv'
  BY <1>3 DEF MakeThreadNode
<1>4. ASSUME NEW t \in Threads, NEW u \in Threads, NEW ok \in BOOLEAN, PthreadCreated(t, u, ok) PROVE ExitInv'
  BY <1>4 DEF PthreadCreated
<1>5. ASSUME NEW t \in Threads, StartThread(t) PROVE ExitInv'
  BY <1>5 DEF StartThread
<1>6. ASSUME NEW t \in Threads, LinkThreadNode(t) PROVE ExitInv'
  BY <1>6 DEF LinkThreadNode
<1>7. ASSUME NEW t \in Threads, EndThread(t) PROVE ExitInv'
  BY <1>7 DEF EndThread
<1>8. ASSUME NEW t \in Threads, UnlinkThreadNode(t) PROVE ExitInv'
  BY <1>8 DEF UnlinkThreadNode, WithoutNode
<1>9. ASSUME NEW t \in Threads, Fork(t) PROVE ExitInv'
  BY <1>9 DEF Fork, ResetThreadList, ResetFlags, InitIfMain, LockInChild, OnlyMain, NoCalls
<1>10. ASSUME NEW t \in Threads, NEW how \in {"exit", "_exit", "exec"}, EndProcessCall(t, how) PROVE ExitInv'
  BY <1>10 DEF EndProcessCall
<1>11. ASSUME NEW t \in Threads, CompareAndSwap(t) PROVE ExitInv'
  <2> USE <1>11
  <2>1. mem' \in Mem /\ SameButExit /\ mem'.end_process_cookie
    BY CasStep
  <2>2. (gone' = gone) /\ (call' = call) /\ (log' = log) /\ pc[t] = "cas"
    BY DEF CompareAndSwap
  <2>3. CASE ~mem.end_process_cookie
    <3>1. (mem'.exit_win = mem.exit_win \cup {t}) /\ (mem'.fini_process_done = mem.fini_process_done)
             /\ (pc' = [pc EXCEPT ![t] = "begin"])
      BY <2>3, CasStep
    <3> QED
      BY <2>1, <2>2, <2>3, <3>1 DEF SameButExit
  <2>4. CASE mem.end_process_cookie /\ t \in mem.exit_win
    <3>1. (mem'.exit_win = mem.exit_win) /\ mem'.fini_process_done /\ (pc' = [pc EXCEPT ![t] = "ended"])
      BY <2>4, CasStep
    <3> QED
      BY <2>1, <2>2, <2>4, <3>1 DEF SameButExit
  <2>5. CASE mem.end_process_cookie /\ t \notin mem.exit_win
    <3>1. (mem' = mem) /\ (pc' = [pc EXCEPT ![t] = "poll"])
      BY <2>5, CasStep
    <3> QED
      BY <2>1, <2>2, <2>5, <3>1
  <2> QED
    BY <2>3, <2>4, <2>5
<1>12. ASSUME NEW t \in Threads, BeginProcessExit(t) PROVE ExitInv'
  BY <1>12 DEF BeginProcessExit
<1>13. ASSUME NEW t \in Threads, BeginShootdown(t) PROVE ExitInv'
  BY <1>13 DEF BeginShootdown
<1>14. ASSUME NEW t \in Threads, NEW u \in Threads, ShootdownHandler(t, u) PROVE ExitInv'
  BY <1>14 DEF ShootdownHandler
<1>15. ASSUME NEW t \in Threads, ShootdownDone(t) PROVE ExitInv'
  BY <1>15 DEF ShootdownDone
<1>16. ASSUME NEW t \in Threads, FiniProcess(t) PROVE ExitInv'
  BY <1>16 DEF FiniProcess, FiniProcessDone
<1>17. ASSUME NEW t \in Threads, LoserLeaves(t) PROVE ExitInv'
  BY <1>17 DEF LoserLeaves, LoserMayLeave
<1>18. ASSUME NEW t \in Threads, RunAtExit(t) PROVE ExitInv'
  BY <1>18 DEF RunAtExit
<1>19. ASSUME NEW t \in Threads, FiniDestructor(t) PROVE ExitInv'
  BY <1>19 DEF FiniDestructor, EndLibrary, Gone, NoCalls, OnlyMain
<1>20. ASSUME NEW t \in Threads, UnderscoreExit(t) PROVE ExitInv'
  BY <1>20 DEF UnderscoreExit, EndLibrary, Gone, NoCalls, OnlyMain
<1>21. ASSUME NEW t \in Threads, BeforeExec(t) PROVE ExitInv'
  BY <1>21 DEF BeforeExec, EndLibrary
<1>22. ASSUME NEW t \in Threads, ExecSucceeds(t) PROVE ExitInv'
  BY <1>22 DEF ExecSucceeds, NewProgram, FreshMem, OnlyMain, NoCalls
<1>23. ASSUME NEW t \in Threads, ExecFails(t) PROVE ExitInv'
  BY <1>23 DEF ExecFails, Return
<1>24. ASSUME NEW t \in Threads, UnexpectedExec(t) PROVE ExitInv'
  BY <1>24 DEF UnexpectedExec, NewProgram, FreshMem, OnlyMain, NoCalls
<1>25. ASSUME NEW t \in Threads, System(t) PROVE ExitInv'
  BY <1>25 DEF System, ChldAction, InSystem
<1>26. ASSUME NEW t \in Threads, SystemFork(t) PROVE ExitInv'
  BY <1>26 DEF SystemFork
<1>27. ASSUME NEW t \in Threads, CommandEnds(t) PROVE ExitInv'
  BY <1>27 DEF CommandEnds
<1>28. ASSUME NEW t \in Threads, SystemReturn(t) PROVE ExitInv'
  BY <1>28 DEF SystemReturn, Return
<1>29. ASSUME UNCHANGED vars PROVE ExitInv'
  BY <1>29
<1> HIDE DEF TypeOK, CallInv, ExitInv, Past, Place, InCall, Mem, Log, NoLog, NoCall, Calls, PCs, Appl, Winner, EndProcess,
         At, InAppl, Goto, Called, threadVars, sysVars, vars
<1>30. ASSUME NEW t \in Threads, LibraryStep(t) PROVE ExitInv'
  BY <1>30, <1>3, <1>8, <1>4, <1>5, <1>6, <1>11, <1>12, <1>13, <1>15,
     <1>14, <1>16, <1>17, <1>18, <1>20, <1>21, <1>22, <1>23, <1>26, <1>28 DEF LibraryStep
<1>31. ASSUME NEW t \in Threads, EnvironmentStep(t) PROVE ExitInv'
  BY <1>31, <1>2, <1>7, <1>9, <1>10, <1>19, <1>24, <1>25, <1>27
  DEF EnvironmentStep
<1> QED
  BY <1>1, <1>29, <1>30, <1>31 DEF Next

\* Every step keeps threads that do not exist off the list.
LEMMA ListStep ==
  ASSUME TypeOK, CallInv, ListInv, [Next]_vars
  PROVE  ListInv'
<1> USE MainAssumption
    DEF TypeOK, CallInv, ListInv, InCall, Mem, NoCall, Calls, Awaited, PCs, Appl, Winner, EndProcess,
        At, InAppl, Goto, Called, threadVars, sysVars, vars
<1>1. ASSUME MonitorMain PROVE ListInv'
  BY <1>1 DEF MonitorMain, ResetFlags, OnlyMain
<1>2. ASSUME NEW t \in Threads, NEW u \in Threads, PthreadCreate(t, u) PROVE ListInv'
  BY <1>2 DEF PthreadCreate
<1>3. ASSUME NEW t \in Threads, MakeThreadNode(t) PROVE ListInv'
  BY <1>3 DEF MakeThreadNode
<1>4. ASSUME NEW t \in Threads, NEW u \in Threads, NEW ok \in BOOLEAN, PthreadCreated(t, u, ok) PROVE ListInv'
  BY <1>4 DEF PthreadCreated
<1>5. ASSUME NEW t \in Threads, StartThread(t) PROVE ListInv'
  BY <1>5 DEF StartThread
<1>6. ASSUME NEW t \in Threads, LinkThreadNode(t) PROVE ListInv'
  <2>1. CASE mem.in_exit_cleanup
    BY <1>6, <2>1 DEF LinkThreadNode
  <2>2. CASE ~mem.in_exit_cleanup
    <3>1. mem' = [mem EXCEPT !.lock = "free", !.list = mem.list \cup {t}]
      BY <1>6, <2>2 DEF LinkThreadNode
    <3>2. (mem'.list = mem.list \cup {t}) /\ (mem'.fini_done = mem.fini_done) /\ mem.has_used_threads' = mem.has_used_threads
      BY <3>1
    <3>3. pc' = [pc EXCEPT ![t] = "run"]
      BY <1>6, <2>2 DEF LinkThreadNode
    <3> QED
      BY <1>6, <3>2, <3>3 DEF LinkThreadNode
  <2> QED
    BY <2>1, <2>2
<1>7. ASSUME NEW t \in Threads, EndThread(t) PROVE ListInv'
  BY <1>7 DEF EndThread
<1>8. ASSUME NEW t \in Threads, UnlinkThreadNode(t) PROVE ListInv'
  BY <1>8 DEF UnlinkThreadNode, WithoutNode
<1>9. ASSUME NEW t \in Threads, Fork(t) PROVE ListInv'
  BY <1>9 DEF Fork, ResetThreadList, ResetFlags, InitIfMain, LockInChild, OnlyMain, NoCalls
<1>10. ASSUME NEW t \in Threads, NEW how \in {"exit", "_exit", "exec"}, EndProcessCall(t, how) PROVE ListInv'
  BY <1>10 DEF EndProcessCall
<1>11. ASSUME NEW t \in Threads, CompareAndSwap(t) PROVE ListInv'
  <2> USE <1>11
  <2>1. mem' \in Mem /\ SameButExit /\ mem'.end_process_cookie
    BY CasStep
  <2>2. (gone' = gone) /\ (call' = call) /\ (log' = log) /\ pc[t] = "cas"
    BY DEF CompareAndSwap
  <2>3. CASE ~mem.end_process_cookie
    <3>1. (mem'.exit_win = mem.exit_win \cup {t}) /\ (mem'.fini_process_done = mem.fini_process_done)
             /\ (pc' = [pc EXCEPT ![t] = "begin"])
      BY <2>3, CasStep
    <3> QED
      BY <2>1, <2>2, <2>3, <3>1 DEF SameButExit
  <2>4. CASE mem.end_process_cookie /\ t \in mem.exit_win
    <3>1. (mem'.exit_win = mem.exit_win) /\ mem'.fini_process_done /\ (pc' = [pc EXCEPT ![t] = "ended"])
      BY <2>4, CasStep
    <3> QED
      BY <2>1, <2>2, <2>4, <3>1 DEF SameButExit
  <2>5. CASE mem.end_process_cookie /\ t \notin mem.exit_win
    <3>1. (mem' = mem) /\ (pc' = [pc EXCEPT ![t] = "poll"])
      BY <2>5, CasStep
    <3> QED
      BY <2>1, <2>2, <2>5, <3>1
  <2> QED
    BY <2>3, <2>4, <2>5
<1>12. ASSUME NEW t \in Threads, BeginProcessExit(t) PROVE ListInv'
  BY <1>12 DEF BeginProcessExit
<1>13. ASSUME NEW t \in Threads, BeginShootdown(t) PROVE ListInv'
  BY <1>13 DEF BeginShootdown
<1>14. ASSUME NEW t \in Threads, NEW u \in Threads, ShootdownHandler(t, u) PROVE ListInv'
  BY <1>14 DEF ShootdownHandler
<1>15. ASSUME NEW t \in Threads, ShootdownDone(t) PROVE ListInv'
  BY <1>15 DEF ShootdownDone
<1>16. ASSUME NEW t \in Threads, FiniProcess(t) PROVE ListInv'
  BY <1>16 DEF FiniProcess, FiniProcessDone
<1>17. ASSUME NEW t \in Threads, LoserLeaves(t) PROVE ListInv'
  BY <1>17 DEF LoserLeaves, LoserMayLeave
<1>18. ASSUME NEW t \in Threads, RunAtExit(t) PROVE ListInv'
  BY <1>18 DEF RunAtExit
<1>19. ASSUME NEW t \in Threads, FiniDestructor(t) PROVE ListInv'
  BY <1>19 DEF FiniDestructor, EndLibrary, Gone, NoCalls, OnlyMain
<1>20. ASSUME NEW t \in Threads, UnderscoreExit(t) PROVE ListInv'
  BY <1>20 DEF UnderscoreExit, EndLibrary, Gone, NoCalls, OnlyMain
<1>21. ASSUME NEW t \in Threads, BeforeExec(t) PROVE ListInv'
  BY <1>21 DEF BeforeExec, EndLibrary
<1>22. ASSUME NEW t \in Threads, ExecSucceeds(t) PROVE ListInv'
  BY <1>22 DEF ExecSucceeds, NewProgram, FreshMem, OnlyMain, NoCalls
<1>23. ASSUME NEW t \in Threads, ExecFails(t) PROVE ListInv'
  BY <1>23 DEF ExecFails, Return
<1>24. ASSUME NEW t \in Threads, UnexpectedExec(t) PROVE ListInv'
  BY <1>24 DEF UnexpectedExec, NewProgram, FreshMem, OnlyMain, NoCalls
<1>25. ASSUME NEW t \in Threads, System(t) PROVE ListInv'
  BY <1>25 DEF System, ChldAction, InSystem
<1>26. ASSUME NEW t \in Threads, SystemFork(t) PROVE ListInv'
  BY <1>26 DEF SystemFork
<1>27. ASSUME NEW t \in Threads, CommandEnds(t) PROVE ListInv'
  BY <1>27 DEF CommandEnds
<1>28. ASSUME NEW t \in Threads, SystemReturn(t) PROVE ListInv'
  BY <1>28 DEF SystemReturn, Return
<1>29. ASSUME UNCHANGED vars PROVE ListInv'
  BY <1>29
<1> HIDE DEF TypeOK, CallInv, ListInv, InCall, Mem, NoCall, Calls, Awaited, PCs, Appl, Winner, EndProcess,
         At, InAppl, Goto, Called, threadVars, sysVars, vars
<1>30. ASSUME NEW t \in Threads, LibraryStep(t) PROVE ListInv'
  BY <1>30, <1>3, <1>8, <1>4, <1>5, <1>6, <1>11, <1>12, <1>13, <1>15,
     <1>14, <1>16, <1>17, <1>18, <1>20, <1>21, <1>22, <1>23, <1>26, <1>28 DEF LibraryStep
<1>31. ASSUME NEW t \in Threads, EnvironmentStep(t) PROVE ListInv'
  BY <1>31, <1>2, <1>7, <1>9, <1>10, <1>19, <1>24, <1>25, <1>27
  DEF EnvironmentStep
<1> QED
  BY <1>1, <1>29, <1>30, <1>31 DEF Next

\* Every step that sets the flag of the library's end makes the callback.
LEMMA LibraryDoneStep ==
  ASSUME TypeOK, LibraryInv, [Next]_vars
  PROVE  LibraryInv'
<1> USE MainAssumption
    DEF TypeOK, LibraryInv, Mem, Log, NoLog,
        At, InAppl, Goto, Called, threadVars, sysVars, vars
<1>1. ASSUME MonitorMain PROVE LibraryInv'
  BY <1>1 DEF MonitorMain, ResetFlags, OnlyMain
<1>2. ASSUME NEW t \in Threads, NEW u \in Threads, PthreadCreate(t, u) PROVE LibraryInv'
  BY <1>2 DEF PthreadCreate
<1>3. ASSUME NEW t \in Threads, MakeThreadNode(t) PROVE LibraryInv'
  BY <1>3 DEF MakeThreadNode
<1>4. ASSUME NEW t \in Threads, NEW u \in Threads, NEW ok \in BOOLEAN, PthreadCreated(t, u, ok) PROVE LibraryInv'
  BY <1>4 DEF PthreadCreated
<1>5. ASSUME NEW t \in Threads, StartThread(t) PROVE LibraryInv'
  BY <1>5 DEF StartThread
<1>6. ASSUME NEW t \in Threads, LinkThreadNode(t) PROVE LibraryInv'
  BY <1>6 DEF LinkThreadNode
<1>7. ASSUME NEW t \in Threads, EndThread(t) PROVE LibraryInv'
  BY <1>7 DEF EndThread
<1>8. ASSUME NEW t \in Threads, UnlinkThreadNode(t) PROVE LibraryInv'
  BY <1>8 DEF UnlinkThreadNode, WithoutNode
<1>9. ASSUME NEW t \in Threads, Fork(t) PROVE LibraryInv'
  BY <1>9 DEF Fork, ResetThreadList, ResetFlags, InitIfMain, LockInChild, OnlyMain, NoCalls
<1>10. ASSUME NEW t \in Threads, NEW how \in {"exit", "_exit", "exec"}, EndProcessCall(t, how) PROVE LibraryInv'
  BY <1>10 DEF EndProcessCall
<1>11. ASSUME NEW t \in Threads, CompareAndSwap(t) PROVE LibraryInv'
  BY <1>11 DEF CompareAndSwap
<1>12. ASSUME NEW t \in Threads, BeginProcessExit(t) PROVE LibraryInv'
  BY <1>12 DEF BeginProcessExit
<1>13. ASSUME NEW t \in Threads, BeginShootdown(t) PROVE LibraryInv'
  BY <1>13 DEF BeginShootdown
<1>14. ASSUME NEW t \in Threads, NEW u \in Threads, ShootdownHandler(t, u) PROVE LibraryInv'
  BY <1>14 DEF ShootdownHandler
<1>15. ASSUME NEW t \in Threads, ShootdownDone(t) PROVE LibraryInv'
  BY <1>15 DEF ShootdownDone
<1>16. ASSUME NEW t \in Threads, FiniProcess(t) PROVE LibraryInv'
  BY <1>16 DEF FiniProcess, FiniProcessDone
<1>17. ASSUME NEW t \in Threads, LoserLeaves(t) PROVE LibraryInv'
  BY <1>17 DEF LoserLeaves, LoserMayLeave
<1>18. ASSUME NEW t \in Threads, RunAtExit(t) PROVE LibraryInv'
  BY <1>18 DEF RunAtExit
<1>19. ASSUME NEW t \in Threads, FiniDestructor(t) PROVE LibraryInv'
  BY <1>19 DEF FiniDestructor, EndLibrary, Gone, NoCalls, OnlyMain
<1>20. ASSUME NEW t \in Threads, UnderscoreExit(t) PROVE LibraryInv'
  BY <1>20 DEF UnderscoreExit, EndLibrary, Gone, NoCalls, OnlyMain
<1>21. ASSUME NEW t \in Threads, BeforeExec(t) PROVE LibraryInv'
  BY <1>21 DEF BeforeExec, EndLibrary
<1>22. ASSUME NEW t \in Threads, ExecSucceeds(t) PROVE LibraryInv'
  BY <1>22 DEF ExecSucceeds, NewProgram, FreshMem, OnlyMain, NoCalls
<1>23. ASSUME NEW t \in Threads, ExecFails(t) PROVE LibraryInv'
  BY <1>23 DEF ExecFails, Return
<1>24. ASSUME NEW t \in Threads, UnexpectedExec(t) PROVE LibraryInv'
  BY <1>24 DEF UnexpectedExec, NewProgram, FreshMem, OnlyMain, NoCalls
<1>25. ASSUME NEW t \in Threads, System(t) PROVE LibraryInv'
  BY <1>25 DEF System, ChldAction, InSystem
<1>26. ASSUME NEW t \in Threads, SystemFork(t) PROVE LibraryInv'
  BY <1>26 DEF SystemFork
<1>27. ASSUME NEW t \in Threads, CommandEnds(t) PROVE LibraryInv'
  BY <1>27 DEF CommandEnds
<1>28. ASSUME NEW t \in Threads, SystemReturn(t) PROVE LibraryInv'
  BY <1>28 DEF SystemReturn, Return
<1>29. ASSUME UNCHANGED vars PROVE LibraryInv'
  BY <1>29
<1> HIDE DEF TypeOK, LibraryInv, Mem, Log, NoLog,
         At, InAppl, Goto, Called, threadVars, sysVars, vars
<1>30. ASSUME NEW t \in Threads, LibraryStep(t) PROVE LibraryInv'
  BY <1>30, <1>3, <1>8, <1>4, <1>5, <1>6, <1>11, <1>12, <1>13, <1>15,
     <1>14, <1>16, <1>17, <1>18, <1>20, <1>21, <1>22, <1>23, <1>26, <1>28 DEF LibraryStep
<1>31. ASSUME NEW t \in Threads, EnvironmentStep(t) PROVE LibraryInv'
  BY <1>31, <1>2, <1>7, <1>9, <1>10, <1>19, <1>24, <1>25, <1>27
  DEF EnvironmentStep
<1> QED
  BY <1>1, <1>29, <1>30, <1>31 DEF Next

\* Every step leaves SIGCHLD alone while a command runs.
LEMMA SystemStep ==
  ASSUME TypeOK, CallInv, SystemInv, [Next]_vars
  PROVE  SystemInv'
<1> USE MainAssumption
    DEF TypeOK, CallInv, SystemInv, InSystem, InCall, NoCall, Calls, Dispositions, NotSaved, PCs, Appl, Winner, EndProcess,
        At, InAppl, Goto, Called, threadVars, sysVars, vars
<1>1. ASSUME MonitorMain PROVE SystemInv'
  BY <1>1 DEF MonitorMain, ResetFlags, OnlyMain
<1>2. ASSUME NEW t \in Threads, NEW u \in Threads, PthreadCreate(t, u) PROVE SystemInv'
  <2>1. /\ pc'[u] \notin {"sysfork", "syswait"} /\ pc'[t] \notin {"sysfork", "syswait"}
        /\ pc[u] \notin {"sysfork", "syswait"} /\ pc[t] \notin {"sysfork", "syswait"}
    BY <1>2 DEF PthreadCreate
  <2>2. \A v \in Threads \ {t, u} : pc'[v] = pc[v]
    BY <1>2 DEF PthreadCreate
  <2>3. UNCHANGED <<chld, cmd, saved, alone>>
    BY <1>2 DEF PthreadCreate
  <2> QED
    BY <2>1, <2>2, <2>3
<1>3. ASSUME NEW t \in Threads, MakeThreadNode(t) PROVE SystemInv'
  BY <1>3 DEF MakeThreadNode
<1>4. ASSUME NEW t \in Threads, NEW u \in Threads, NEW ok \in BOOLEAN, PthreadCreated(t, u, ok) PROVE SystemInv'
  <2>1. /\ pc'[u] \notin {"sysfork", "syswait"} /\ pc'[t] \notin {"sysfork", "syswait"}
        /\ pc[u] \notin {"sysfork", "syswait"} /\ pc[t] \notin {"sysfork", "syswait"}
    BY <1>4 DEF PthreadCreated
  <2>2. \A v \in Threads \ {t, u} : pc'[v] = pc[v]
    BY <1>4 DEF PthreadCreated
  <2>3. UNCHANGED <<chld, cmd, saved, alone>>
    BY <1>4 DEF PthreadCreated
  <2> QED
    BY <2>1, <2>2, <2>3
<1>5. ASSUME NEW t \in Threads, StartThread(t) PROVE SystemInv'
  BY <1>5 DEF StartThread
<1>6. ASSUME NEW t \in Threads, LinkThreadNode(t) PROVE SystemInv'
  BY <1>6 DEF LinkThreadNode
<1>7. ASSUME NEW t \in Threads, EndThread(t) PROVE SystemInv'
  BY <1>7 DEF EndThread
<1>8. ASSUME NEW t \in Threads, UnlinkThreadNode(t) PROVE SystemInv'
  BY <1>8 DEF UnlinkThreadNode, WithoutNode
<1>9. ASSUME NEW t \in Threads, Fork(t) PROVE SystemInv'
  BY <1>9 DEF Fork, ResetThreadList, ResetFlags, InitIfMain, LockInChild, OnlyMain, NoCalls
<1>10. ASSUME NEW t \in Threads, NEW how \in {"exit", "_exit", "exec"}, EndProcessCall(t, how) PROVE SystemInv'
  BY <1>10 DEF EndProcessCall
<1>11. ASSUME NEW t \in Threads, CompareAndSwap(t) PROVE SystemInv'
  BY <1>11 DEF CompareAndSwap
<1>12. ASSUME NEW t \in Threads, BeginProcessExit(t) PROVE SystemInv'
  BY <1>12 DEF BeginProcessExit
<1>13. ASSUME NEW t \in Threads, BeginShootdown(t) PROVE SystemInv'
  BY <1>13 DEF BeginShootdown
<1>14. ASSUME NEW t \in Threads, NEW u \in Threads, ShootdownHandler(t, u) PROVE SystemInv'
  BY <1>14 DEF ShootdownHandler
<1>15. ASSUME NEW t \in Threads, ShootdownDone(t) PROVE SystemInv'
  BY <1>15 DEF ShootdownDone
<1>16. ASSUME NEW t \in Threads, FiniProcess(t) PROVE SystemInv'
  BY <1>16 DEF FiniProcess, FiniProcessDone
<1>17. ASSUME NEW t \in Threads, LoserLeaves(t) PROVE SystemInv'
  BY <1>17 DEF LoserLeaves, LoserMayLeave
<1>18. ASSUME NEW t \in Threads, RunAtExit(t) PROVE SystemInv'
  BY <1>18 DEF RunAtExit
<1>19. ASSUME NEW t \in Threads, FiniDestructor(t) PROVE SystemInv'
  BY <1>19 DEF FiniDestructor, EndLibrary, Gone, NoCalls, OnlyMain
<1>20. ASSUME NEW t \in Threads, UnderscoreExit(t) PROVE SystemInv'
  BY <1>20 DEF UnderscoreExit, EndLibrary, Gone, NoCalls, OnlyMain
<1>21. ASSUME NEW t \in Threads, BeforeExec(t) PROVE SystemInv'
  BY <1>21 DEF BeforeExec, EndLibrary
<1>22. ASSUME NEW t \in Threads, ExecSucceeds(t) PROVE SystemInv'
  BY <1>22 DEF ExecSucceeds, NewProgram, FreshMem, OnlyMain, NoCalls
<1>23. ASSUME NEW t \in Threads, ExecFails(t) PROVE SystemInv'
  BY <1>23 DEF ExecFails, Return
<1>24. ASSUME NEW t \in Threads, UnexpectedExec(t) PROVE SystemInv'
  BY <1>24 DEF UnexpectedExec, NewProgram, FreshMem, OnlyMain, NoCalls
<1>25. ASSUME NEW t \in Threads, System(t) PROVE SystemInv'
  BY <1>25 DEF System, ChldAction, InSystem
<1>26. ASSUME NEW t \in Threads, SystemFork(t) PROVE SystemInv'
  BY <1>26 DEF SystemFork
<1>27. ASSUME NEW t \in Threads, CommandEnds(t) PROVE SystemInv'
  BY <1>27 DEF CommandEnds
<1>28. ASSUME NEW t \in Threads, SystemReturn(t) PROVE SystemInv'
  <2>1. /\ InSystem(t) /\ ~InSystem(t)' /\ chld' = saved[t] /\ cmd'[t] = "none" /\ ~alone'[t]
    BY <1>28 DEF SystemReturn, Return
  <2>2. \A v \in Threads \ {t} : /\ InSystem(v)' = InSystem(v) /\ cmd'[v] = cmd[v]
                                 /\ alone'[v] = alone[v] /\ saved'[v] = saved[v]
    BY <1>28 DEF SystemReturn, Return
  <2>3. \A v \in Threads : alone'[v] => v # t /\ chld' = "other"
    BY <2>1, <2>2
  <2> QED
    BY <2>1, <2>2, <2>3
<1>29. ASSUME UNCHANGED vars PROVE SystemInv'
  BY <1>29
<1> HIDE DEF TypeOK, CallInv, SystemInv, InSystem, InCall, NoCall, Calls, Dispositions, NotSaved, PCs, Appl, Winner, EndProcess,
         At, InAppl, Goto, Called, threadVars, sysVars, vars
<1>30. ASSUME NEW t \in Threads, LibraryStep(t) PROVE SystemInv'
  BY <1>30, <1>3, <1>8, <1>4, <1>5, <1>6, <1>11, <1>12, <1>13, <1>15,
     <1>14, <1>16, <1>17, <1>18, <1>20, <1>21, <1>22, <1>23, <1>26, <1>28 DEF LibraryStep
<1>31. ASSUME NEW t \in Threads, EnvironmentStep(t) PROVE SystemInv'
  BY <1>31, <1>2, <1>7, <1>9, <1>10, <1>19, <1>24, <1>25, <1>27
  DEF EnvironmentStep
<1> QED
  BY <1>1, <1>29, <1>30, <1>31 DEF Next

\* The first state satisfies the invariants.
LEMMA ForkInit ==
  ASSUME Init
  PROVE  ForkInv /\ SystemInv
<1> USE MainAssumption DEF Init, OnlyMain, FreshMem, NoLog, NoCall, NotSaved
<1>1. TypeOK
  <2>1. mem \in Mem /\ log \in Log
    BY DEF Mem, Log
  <2>2. pc \in [Threads -> PCs] /\ call \in [Threads -> Calls]
    BY DEF PCs, Appl, Calls
  <2>3. chld \in Dispositions /\ alone \in [Threads -> BOOLEAN] /\ saved \in [Threads -> Dispositions]
    BY DEF Dispositions
  <2> QED
    BY <2>1, <2>2, <2>3 DEF TypeOK
<1>2. CallInv /\ MainInv /\ ListInv /\ LibraryInv /\ SystemInv
  BY DEF CallInv, MainInv, ListInv, LibraryInv, SystemInv, InSystem, Place, InCall, Appl, EndProcess, Winner
<1>3. ExitInv
  BY DEF ExitInv, Past, Place, InCall, Appl, EndProcess, Winner
<1> QED
  BY <1>1, <1>2, <1>3 DEF ForkInv

\* Every state of every behaviour satisfies the invariant: main.c, fork.c and the
\* list of pthread.c stay consistent across fork, exec and exit.
THEOREM ForkInductive == Spec => []ForkInv
<1>1. Init => ForkInv
  BY ForkInit
<1>2. ForkInv /\ [Next]_vars => ForkInv'
  BY TypeStep, CallStep, MainStep, ExitStep, ListStep, LibraryDoneStep DEF ForkInv
<1> QED
  BY <1>1, <1>2, PTL DEF Spec

\* main.c, fork.c and pthread.c: what a process inherits and what its threads do keep
\* their types.
THEOREM ForkTypes == Spec => []TypeOK
<1>1. ForkInv => TypeOK
  BY DEF ForkInv
<1> QED
  BY <1>1, ForkInductive, PTL

\* monitor_begin_process_fcn: in a process monitor_init_process is called at most
\* once, and before a thread runs the program.
THEOREM InitProcessOnce == Spec => []OneInitProcess
<1>1. ForkInv => OneInitProcess
  BY DEF ForkInv, MainInv, OneInitProcess, Place, At, TypeOK, Mem, Log
<1> QED
  BY <1>1, ForkInductive, PTL

\* monitor_end_process_fcn: monitor_fini_process is called once before the process
\* ends or calls an exec it has announced, unless its exit began in another process.
THEOREM FiniProcessFirst == Spec => []FiniBeforeEnd
<1>1. ASSUME ForkInv PROVE FiniBeforeEnd
  <2> USE <1>1 DEF ForkInv, ExitInv
  <2>1. ASSUME ~log.late, NEW t \in Threads, pc[t] = "exec" PROVE log.fini = 1
    <3>1. Past(t)
      BY <2>1 DEF Past
    <3>2. mem.end_process_cookie /\ \A u \in Threads : pc[u] \notin Winner
      BY <3>1
    <3> QED
      BY <2>1, <3>2
  <2> QED
    BY <2>1 DEF FiniBeforeEnd
<1> QED
  BY <1>1, ForkInductive, PTL

\* monitor_end_process_fcn: a loser polls in vain only after monitor_begin_process_fcn
\* has run in a process whose exit had begun.
THEOREM OnlyLateAbandoned == Spec => []AbandonedOnlyLate
<1>1. ASSUME ForkInv PROVE AbandonedOnlyLate
  BY <1>1 DEF ForkInv, ExitInv, AbandonedOnlyLate, Abandoned, At
<1> QED
  BY <1>1, ForkInductive, PTL

\* monitor_reset_thread_list: the shootdown never waits for a thread that the process
\* does not have.
THEOREM ShootdownHasNoGhosts == Spec => []NoGhostThreads
<1>1. ASSUME ForkInv PROVE NoGhostThreads
  BY <1>1 DEF ForkInv, ListInv, NoGhostThreads, Awaited, At
<1> QED
  BY <1>1, ForkInductive, PTL

\* monitor_end_library_fcn: a process that has ended has called monitor_fini_library.
THEOREM LibraryEnds == Spec => []LibraryFinished
<1>1. ForkInv => LibraryFinished
  BY DEF ForkInv, LibraryInv, LibraryFinished
<1> QED
  BY <1>1, ForkInductive, PTL

\* monitor_system: a call that finds no other one in progress never loses the status of
\* its command, whatever the other threads do until it returns (fork.c:550-593).
THEOREM SystemKeepsStatus == Spec => []StatusKept
<1>1. Init => SystemInv
  BY ForkInit
<1>2. ForkInv /\ SystemInv /\ [Next]_vars => SystemInv'
  BY SystemStep DEF ForkInv
<1>3. SystemInv => StatusKept
  BY DEF SystemInv, StatusKept
<1> QED
  BY <1>1, <1>2, <1>3, ForkInductive, PTL DEF Spec
=============================================================================
