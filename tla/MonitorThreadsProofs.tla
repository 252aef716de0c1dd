----------------------- MODULE MonitorThreadsProofs -----------------------
(***************************************************************************)
(* Proofs about MonitorThreads for every set of threads, every array size  *)
(* and every choice of the environment's moves: its safety invariants, and *)
(* last that it implements MonitorCallbacks.                               *)
(***************************************************************************)
EXTENDS MonitorThreads, TLAPS

\* The places where the base frame takes the lock, calls monitor_fini_thread, and
\* returns from it.
LockStep(t) ==
  \/ AcquireThreadLock(t, "make", "making")
  \/ AcquireThreadLock(t, "link", "linking")
  \/ AcquireThreadLock(t, "unlink", "unlinking")
StartStep(t) == FiniThreadStart(t, "chk", "fini") \/ FiniThreadStart(t, "swchk", "swfini")
DoneStep(t)  == FiniThreadDone(t, "fini", "unlink") \/ FiniThreadDone(t, "swfini", "run")

\* A pthread_create in progress has chosen its child; the child belongs to it
\* alone and has no node of its own in the key; a thread past its begin has one.
ThreadInv ==
  /\ key[Main] \in {NoNode, MainTn}
  /\ has_used_threads => key[Main] = MainTn
  /\ ~has_used_threads => \A t \in Threads : pc[t] = "unborn"
  /\ \A t \in Threads : pc[t] = "unborn" => arg[t] = NoNode
  /\ \A t \in Threads : pc[t] \in {"unborn", "reserved"} => key[t] = NoNode
  /\ \A t \in Threads : key[t] # NoNode => key[t] = arg[t]
  /\ \A c \in All : child[c] # NoThread => pc[child[c]] = "reserved"
  /\ \A c, d \in All : child[c] # NoThread /\ child[c] = child[d] => c = d
  /\ \A c \in All : pc[c] \in {"support", "make", "making", "create", "rawcreate"}
                    => child[c] # NoThread
  /\ \A c \in All : pc[c] = "create" => arg[child[c]] # NoNode
  /\ \A t \in All : pc[t] = "start" => t \in Threads /\ arg[t] # NoNode
  /\ \A t \in All : pc[t] \in {"link", "linking", "init", "chk", "fini", "unlink", "unlinking"}
                    => t \in Threads /\ key[t] # NoNode
  /\ \A t \in Threads : pc[t] \in {"run", "swchk", "swfini"} => key[t] # NoNode
  /\ \A t \in All : xpc[t] # "none" => Alive(t)

\* Every node in use was handed out by the arrays; owners are distinct and own
\* nodes that are not free.
NodeInv ==
  /\ tn_array >= 1
  /\ thread_list \cap free_list = {}
  /\ \A n \in thread_list \cup free_list : 1 <= n /\ n < tn_array + tn_array_pos
  /\ \A t \in Threads : Owner(t) =>
        arg[t] \notin free_list /\ 1 <= arg[t] /\ arg[t] < tn_array + tn_array_pos
  /\ \A t, u \in Threads : Owner(t) /\ Owner(u) /\ arg[t] = arg[u] => t = u

\* A node is linked with its thread's identity in it.
SelfInv ==
  /\ \A t \in Threads : pc[t] \in {"link", "linking"} => tn[arg[t]].self = t
  /\ \A n \in thread_list : tn[n].self \in Threads

\* The cookie admits one winner; only its node remembers that it won; it calls
\* monitor_fini_process last, and nobody leaves before it is through.
ExitInv ==
  /\ \A t, u \in All : xpc[t] \in Winner /\ xpc[u] \in Winner => t = u
  /\ end_process_cookie = 0 =>
        /\ fini_process_calls = 0 /\ ~fini_process_done
        /\ \A t \in All : xpc[t] \notin Winner
        /\ \A n \in Node : ~tn[n].exit_win
  /\ fini_process_calls <= 1
  /\ \A t \in All : xpc[t] \in Winner \ {"fini"} => fini_process_calls = 0
  /\ \A t \in All : xpc[t] \in Winner => ~fini_process_done
  /\ \A t \in All : xpc[t] \in Leaving => fini_process_done
  /\ \A t \in All : xpc[t] \in Winner =>
        \A n \in Node : tn[n].exit_win => GetTn(t) = n

\* The shootdown, and with it exit cleanup, happens only in a process that has
\* used threads.
CleanupInv ==
  /\ in_exit_cleanup => has_used_threads
  /\ \A t \in All : xpc[t] \in Winner \ {"won", "begin", "fini"} => has_used_threads
  /\ \A t \in All : xpc[t] \in Winner \ {"won", "begin", "sdlock", "fini"} => in_exit_cleanup
  /\ \A t \in All : xpc[t] \in {"kill", "chkdone"} => cur \in thread_list


\* Writing one Boolean field of one node, here tn_appl_started, keeps the
\* nodes' type.
LEMMA ApplStartedUpdate ==
  ASSUME NEW f \in [Node -> NodeFields], NEW n, NEW b \in BOOLEAN
  PROVE  [f EXCEPT ![n].appl_started = b] \in [Node -> NodeFields]
  BY Zenon DEF NodeFields

\* The same for tn_fini_started.
LEMMA FiniStartedUpdate ==
  ASSUME NEW f \in [Node -> NodeFields], NEW n, NEW b \in BOOLEAN
  PROVE  [f EXCEPT ![n].fini_started = b] \in [Node -> NodeFields]
  BY Zenon DEF NodeFields

\* The same for tn_fini_done.
LEMMA FiniDoneUpdate ==
  ASSUME NEW f \in [Node -> NodeFields], NEW n, NEW b \in BOOLEAN
  PROVE  [f EXCEPT ![n].fini_done = b] \in [Node -> NodeFields]
  BY Zenon DEF NodeFields

\* The same for tn_exit_win.
LEMMA ExitWinUpdate ==
  ASSUME NEW f \in [Node -> NodeFields], NEW n, NEW b \in BOOLEAN
  PROVE  [f EXCEPT ![n].exit_win = b] \in [Node -> NodeFields]
  BY Zenon DEF NodeFields

\* The same for tn_block_shootdown.
LEMMA BlockShootdownUpdate ==
  ASSUME NEW f \in [Node -> NodeFields], NEW n, NEW b \in BOOLEAN
  PROVE  [f EXCEPT ![n].block_shootdown = b] \in [Node -> NodeFields]
  BY Zenon DEF NodeFields

\* The same for tn_ignore_threads.
LEMMA IgnoreThreadsUpdate ==
  ASSUME NEW f \in [Node -> NodeFields], NEW n, NEW b \in BOOLEAN
  PROVE  [f EXCEPT ![n].ignore_threads = b] \in [Node -> NodeFields]
  BY Zenon DEF NodeFields

\* So does writing both marks of monitor_fini_thread at once, as unlinking does.
LEMMA PairUpdate ==
  ASSUME NEW f \in [Node -> NodeFields], NEW n
  PROVE  [f EXCEPT ![n].fini_started = TRUE, ![n].fini_done = TRUE] \in [Node -> NodeFields]
<1> DEFINE g == [f EXCEPT ![n].fini_started = TRUE]
<1>1. g \in [Node -> NodeFields]
  BY Zenon DEF NodeFields
<1>2. [g EXCEPT ![n].fini_done = TRUE] \in [Node -> NodeFields]
  <2> HIDE DEF g
  <2> QED
    BY <1>1, Zenon DEF NodeFields
<1>3. [f EXCEPT ![n].fini_started = TRUE, ![n].fini_done = TRUE] = [g EXCEPT ![n].fini_done = TRUE]
  OBVIOUS
<1> QED
  BY <1>2, <1>3, Zenon

\* So does writing tn_self.
LEMMA SelfUpdate ==
  ASSUME NEW f \in [Node -> NodeFields], NEW n, NEW t \in All, NEW g,
         g = [f EXCEPT ![n].self = t]
  PROVE  /\ g \in [Node -> NodeFields]
         /\ \A m \in Node : g[m].self = IF m = n THEN t ELSE f[m].self
<1>1. g \in [Node -> NodeFields]
  BY Zenon DEF NodeFields
<1>2. \A m \in Node : g[m].self = IF m = n THEN t ELSE f[m].self
  BY DEF NodeFields
<1> QED
  BY <1>1, <1>2

\* So does clearing a node.
LEMMA ZeroUpdate ==
  ASSUME NEW f \in [Node -> NodeFields], NEW n, NEW g,
         g = [f EXCEPT ![n] = ZeroNode]
  PROVE  /\ g \in [Node -> NodeFields]
         /\ \A m \in Node : m # n => g[m] = f[m]
<1>1. ZeroNode \in NodeFields
  BY DEF NodeFields, ZeroNode
<1> QED
  BY <1>1, Zenon

\* monitor_make_thread_node takes a node from the free list, or one that no
\* array has handed out before.
LEMMA NewNode ==
  ASSUME TypeOK, NEW c \in All, MakeThreadNode(c)
  PROVE  \E n \in Node :
           /\ \/ /\ n \in free_list /\ free_list' = free_list \ {n}
                 /\ UNCHANGED <<tn_array, tn_array_pos>>
              \/ /\ n >= tn_array + tn_array_pos /\ free_list' = free_list
                 /\ tn_array' + tn_array_pos' = n + 1 /\ tn_array' >= tn_array
           /\ tn_array' \in Int
           /\ tn' = [tn EXCEPT ![n] = ZeroNode]
           /\ arg' = [arg EXCEPT ![child[c]] = n]
<1>1. PICK n \in Node :
        /\ IF free_list # {}
           THEN /\ n \in free_list
                /\ free_list' = free_list \ {n}
                /\ UNCHANGED <<tn_array, tn_array_pos>>
           ELSE IF tn_array_pos < ArraySize
           THEN /\ n = tn_array + tn_array_pos
                /\ tn_array_pos' = tn_array_pos + 1
                /\ UNCHANGED <<free_list, tn_array>>
           ELSE /\ n = tn_array + ArraySize
                /\ tn_array' = n
                /\ tn_array_pos' = 1
                /\ UNCHANGED free_list
        /\ tn' = [tn EXCEPT ![n] = ZeroNode]
        /\ arg' = [arg EXCEPT ![child[c]] = n]
  BY DEF MakeThreadNode, ArrayHasRoom, FreeListWithout
<1>2. tn_array \in Int /\ tn_array_pos \in Int /\ ArraySize \in Nat
      /\ n \in Int /\ tn_array_pos <= ArraySize
  BY BoundsAssumption DEF TypeOK, Node
<1>3. CASE free_list # {}
  BY <1>1, <1>2, <1>3
<1>4. CASE free_list = {} /\ tn_array_pos < ArraySize
  <2>1. n >= tn_array + tn_array_pos /\ tn_array' + tn_array_pos' = n + 1 /\ tn_array' >= tn_array
        /\ tn_array' \in Int
    BY <1>1, <1>2, <1>4
  <2> QED
    BY <1>1, <1>4, <2>1
<1>5. CASE free_list = {} /\ ~(tn_array_pos < ArraySize)
  <2>1. n >= tn_array + tn_array_pos /\ tn_array' + tn_array_pos' = n + 1 /\ tn_array' >= tn_array
        /\ tn_array' \in Int
    BY <1>1, <1>2, <1>5
  <2> QED
    BY <1>1, <1>5, <2>1
<1> QED
  BY <1>3, <1>4, <1>5


\* monitor_main_tn is one of the nodes.
LEMMA MainTnIsNode == MainTn \in Node
  BY BoundsAssumption DEF MainTn, Node

\* Two threads in monitor_end_process_fcn never find the same node by
\* monitor_get_tn.
LEMMA OwnTn ==
  ASSUME TypeOK, ThreadInv, NodeInv, NEW t \in All, NEW u \in All,
         xpc[t] # "none", xpc[u] # "none", GetTn(t) # NoNode, GetTn(t) = GetTn(u)
  PROVE  t = u
<1>1. Alive(t) /\ Alive(u)
  BY DEF ThreadInv
<1>2. CASE ~has_used_threads
  BY <1>1, <1>2 DEF ThreadInv, Alive, All
<1>3. CASE has_used_threads
  <2>1. key[Main] = MainTn /\ key[t] # NoNode /\ key[t] = key[u]
    BY <1>3 DEF ThreadInv, GetTn
  <2>2. \A v \in Threads : key[v] # NoNode => key[v] = arg[v]
    BY DEF ThreadInv
  <2>3. \A v \in Threads : Alive(v) /\ key[v] # NoNode => Owner(v) /\ key[v] = arg[v] /\ key[v] # MainTn
    BY <2>2 DEF NodeInv, Owner, Alive, MainTn
  <2>4. CASE t \in Threads /\ u \in Threads
    BY <1>1, <2>1, <2>3, <2>4 DEF NodeInv
  <2>5. CASE t = Main \/ u = Main
    BY <1>1, <2>1, <2>3, <2>5 DEF All
  <2> QED
    BY <2>4, <2>5 DEF All
<1> QED
  BY <1>2, <1>3

\* Every step keeps the types.
LEMMA TypeStep ==
  ASSUME TypeOK, ThreadInv, NodeInv, SelfInv, CleanupInv, [Next]_vars
  PROVE  TypeOK'
<1> USE ThreadsAssumption, BoundsAssumption
    DEF TypeOK, PCs, XPCs, HPCs, Winner, Leaving, ZeroScan, All,
        InBase, InExit, InHandler, At, Goto, ExitAt, ExitTo, CallFiniThread, Home,
        exitVars, listVars, flagVars, shootVars, vars
<1>1. ASSUME MainStart PROVE TypeOK'
  BY <1>1 DEF MainStart
<1>2. ASSUME ThreadRelease PROVE TypeOK'
  BY <1>2 DEF ThreadRelease
<1>3. ASSUME NEW c \in All, NEW u \in Threads, PthreadCreate(c, u) PROVE TypeOK'
  <2>1. tn \in [Node -> NodeFields] /\ MainTn \in Node
    BY DEF Node, MainTn
  <2>2. tn' = tn \/ tn' = [tn EXCEPT ![MainTn].self = Main]
    BY <1>3 DEF PthreadCreate, ThreadListInit
  <2>3. tn' \in [Node -> NodeFields]
    BY <2>1, <2>2, SelfUpdate
  <2>4. key' \in [All -> Node \cup {NoNode}]
    BY <1>3, <2>1 DEF PthreadCreate, ThreadListInit
  <2>5. thread_list' \subseteq Node /\ free_list' \subseteq Node /\ tn_array_pos' \in 0 .. ArraySize
    BY <1>3 DEF PthreadCreate, ThreadListInit
  <2>6. pc' \in [All -> PCs]
    BY <1>3 DEF PthreadCreate
  <2> QED
    BY <1>3, <2>3, <2>4, <2>5, <2>6 DEF PthreadCreate
<1>4. ASSUME NEW c \in All, ThreadSupportDone(c) PROVE TypeOK'
  BY <1>4 DEF ThreadSupportDone
<1>5. ASSUME NEW t \in All, LockStep(t) PROVE TypeOK'
  BY <1>5 DEF LockStep, AcquireThreadLock
<1>6. ASSUME NEW c \in All, MakeThreadNode(c) PROVE TypeOK'
  <2>1. PICK n \in Node : /\ tn' = [tn EXCEPT ![n] = ZeroNode]
                         /\ arg' = [arg EXCEPT ![child[c]] = n]
                         /\ tn_array' \in {tn_array, n}
    BY <1>6 DEF MakeThreadNode
  <2>2. tn' \in [Node -> NodeFields]
    BY <2>1, ZeroUpdate
  <2>3. arg' \in [All -> Node \cup {NoNode}]
    BY <2>1
  <2>4. tn_array' \in Node
    BY <2>1
  <2>5. free_list' \subseteq Node
    BY <1>6 DEF MakeThreadNode, FreeListWithout
  <2>6. tn_array_pos' \in 0 .. ArraySize
    BY <1>6 DEF MakeThreadNode, ArrayHasRoom
  <2> QED
    BY <1>6, <2>2, <2>3, <2>4, <2>5, <2>6 DEF MakeThreadNode
<1>7. ASSUME NEW c \in All, NEW ok \in BOOLEAN, RealPthreadCreate(c, ok) PROVE TypeOK'
  BY <1>7 DEF RealPthreadCreate
<1>8. ASSUME NEW t \in All, BeginThread(t) PROVE TypeOK'
  <2>1. tn' = [tn EXCEPT ![arg[t]].self = t] /\ tn \in [Node -> NodeFields]
    BY <1>8 DEF BeginThread
  <2>2. tn' \in [Node -> NodeFields]
    BY <2>1, SelfUpdate
  <2> QED
    BY <1>8, <2>2 DEF BeginThread
<1>9. ASSUME NEW t \in All, LinkThreadNode(t) PROVE TypeOK'
  <2>1. arg[t] \in Node
    BY <1>9 DEF LinkThreadNode, ThreadInv
  <2> QED
    BY <1>9, <2>1 DEF LinkThreadNode, ListFixed
<1>10. ASSUME NEW t \in All, ApplStarted(t) PROVE TypeOK'
  <2>1. tn' = [tn EXCEPT ![arg[t]].appl_started = TRUE] /\ tn \in [Node -> NodeFields]
    BY <1>10 DEF ApplStarted
  <2>2. tn' \in [Node -> NodeFields]
    BY ONLY <2>1, ApplStartedUpdate, Zenon
  <2> QED
    BY <1>10, <2>2 DEF ApplStarted
<1>11. ASSUME NEW t \in All, CancelEarly(t) PROVE TypeOK'
  BY <1>11 DEF CancelEarly
<1>11c. ASSUME NEW t \in All, CancelCleanup(t) PROVE TypeOK'
  BY <1>11c DEF CancelCleanup
<1>12. ASSUME NEW t \in All, CleanupCheck(t) PROVE TypeOK'
  BY <1>12 DEF CleanupCheck
<1>13. ASSUME NEW t \in All, StartStep(t) PROVE TypeOK'
  <2>1. tn' = [tn EXCEPT ![key[t]].fini_started = TRUE] /\ tn \in [Node -> NodeFields]
    BY <1>13 DEF StartStep, FiniThreadStart
  <2>2. tn' \in [Node -> NodeFields]
    BY ONLY <2>1, FiniStartedUpdate, Zenon
  <2> QED
    BY <1>13, <2>2 DEF StartStep, FiniThreadStart
<1>14. ASSUME NEW t \in All, DoneStep(t) PROVE TypeOK'
  <2>1. tn' = [tn EXCEPT ![key[t]].fini_done = TRUE] /\ tn \in [Node -> NodeFields]
    BY <1>14 DEF DoneStep, FiniThreadDone
  <2>2. tn' \in [Node -> NodeFields]
    BY ONLY <2>1, FiniDoneUpdate, Zenon
  <2> QED
    BY <1>14, <2>2 DEF DoneStep, FiniThreadDone
<1>15. ASSUME NEW t \in All, UnlinkThreadNode(t) PROVE TypeOK'
  <2>1. tn \in [Node -> NodeFields]
    BY DEF TypeOK
  <2>2. \/ tn' = [tn EXCEPT ![arg[t]].fini_started = TRUE, ![arg[t]].fini_done = TRUE]
        \/ tn' = [tn EXCEPT ![arg[t]] = ZeroNode]
    BY <1>15 DEF UnlinkThreadNode
  <2>3. tn' \in [Node -> NodeFields]
    <3>1. CASE tn' = [tn EXCEPT ![arg[t]].fini_started = TRUE, ![arg[t]].fini_done = TRUE]
      BY ONLY <2>1, <3>1, PairUpdate, Zenon
    <3>2. CASE tn' = [tn EXCEPT ![arg[t]] = ZeroNode]
      BY ONLY <2>1, <3>2, ZeroUpdate
    <3> QED
      BY <2>2, <3>1, <3>2
  <2>4. arg[t] \in Node
    BY <1>15 DEF UnlinkThreadNode, ThreadInv
  <2> QED
    BY <1>15, <2>3, <2>4 DEF UnlinkThreadNode
<1>16. ASSUME NEW t \in All, RawReturn(t) PROVE TypeOK'
  BY <1>16 DEF RawReturn
<1>17. ASSUME LastThreadGone PROVE TypeOK'
  BY <1>17 DEF LastThreadGone
<1>18. ASSUME NEW t \in All, NEW on \in BOOLEAN, BlockShootdown(t, on) PROVE TypeOK'
  <2>1. tn' = [tn EXCEPT ![GetTn(t)].block_shootdown = on] /\ tn \in [Node -> NodeFields] /\ on \in BOOLEAN
    BY <1>18 DEF BlockShootdown
  <2>2. tn' \in [Node -> NodeFields]
    BY ONLY <2>1, BlockShootdownUpdate, Zenon
  <2> QED
    BY <1>18, <2>2 DEF BlockShootdown
<1>19. ASSUME NEW t \in All, NEW on \in BOOLEAN, IgnoreNewThreads(t, on) PROVE TypeOK'
  <2>1. tn' = [tn EXCEPT ![GetTn(t)].ignore_threads = on] /\ tn \in [Node -> NodeFields] /\ on \in BOOLEAN
    BY <1>19 DEF IgnoreNewThreads
  <2>2. tn' \in [Node -> NodeFields]
    BY ONLY <2>1, IgnoreThreadsUpdate, Zenon
  <2> QED
    BY <1>19, <2>2 DEF IgnoreNewThreads
<1>20. ASSUME NEW t \in All, ShootdownHandler(t) PROVE TypeOK'
  BY <1>20 DEF ShootdownHandler
<1>21. ASSUME NEW t \in All, HandlerFiniStart(t) PROVE TypeOK'
  <2>1. tn' = [tn EXCEPT ![key[t]].fini_started = TRUE] /\ tn \in [Node -> NodeFields]
    BY <1>21 DEF HandlerFiniStart
  <2>2. tn' \in [Node -> NodeFields]
    BY ONLY <2>1, FiniStartedUpdate, Zenon
  <2> QED
    BY <1>21, <2>2 DEF HandlerFiniStart
<1>22. ASSUME NEW t \in All, HandlerFiniDone(t) PROVE TypeOK'
  <2>1. tn' = [tn EXCEPT ![key[t]].fini_done = TRUE] /\ tn \in [Node -> NodeFields]
    BY <1>22 DEF HandlerFiniDone
  <2>2. tn' \in [Node -> NodeFields]
    BY ONLY <2>1, FiniDoneUpdate, Zenon
  <2> QED
    BY <1>22, <2>2 DEF HandlerFiniDone
<1>23. ASSUME NEW t \in All, SigwaitHelper(t) PROVE TypeOK'
  BY <1>23 DEF SigwaitHelper
<1>24. ASSUME NEW t \in All, NEW kind \in {"exit", "pthread_exit"}, CallExit(t, kind) PROVE TypeOK'
  BY <1>24 DEF CallExit
<1>25. ASSUME NEW t \in All, FatalSignal(t) PROVE TypeOK'
  BY <1>25 DEF FatalSignal
<1>26. ASSUME NEW t \in All, CasCookie(t) PROVE TypeOK'
  <2>1. end_process_cookie' \in {0, 1} /\ fini_process_done' \in BOOLEAN
    BY <1>26 DEF CasCookie
  <2>2. xpc' \in [All -> XPCs]
    BY <1>26 DEF CasCookie
  <2> QED
    BY <1>26, <2>1, <2>2 DEF CasCookie
<1>26m. ASSUME NEW t \in All, MarkExitWin(t) PROVE TypeOK'
  <2>1. tn' \in [Node -> NodeFields]
    <3>1. /\ tn \in [Node -> NodeFields]
          /\ tn' = tn \/ tn' = [tn EXCEPT ![GetTn(t)].exit_win = TRUE]
      BY <1>26m DEF MarkExitWin
    <3>2. CASE tn' = [tn EXCEPT ![GetTn(t)].exit_win = TRUE]
      BY ONLY <3>1, <3>2, ExitWinUpdate, Zenon
    <3> QED
      BY ONLY <3>1, <3>2
  <2>2. xpc' \in [All -> XPCs]
    BY <1>26m DEF MarkExitWin
  <2> QED
    BY <1>26m, <2>1, <2>2 DEF MarkExitWin
<1>27. ASSUME NEW t \in All, LoserReleased(t) PROVE TypeOK'
  BY <1>27 DEF LoserReleased, CallbacksOver
<1>28. ASSUME NEW t \in All, CancelExit(t) PROVE TypeOK'
  BY <1>28 DEF CancelExit
<1>29. ASSUME NEW t \in All, ExitAgain(t) PROVE TypeOK'
  BY <1>29 DEF ExitAgain
<1>30. ASSUME NEW t \in All, BeginProcessExitDone(t) PROVE TypeOK'
  BY <1>30 DEF BeginProcessExitDone, CallFiniProcess
<1>31. ASSUME NEW t \in All, FiniProcessDone(t) PROVE TypeOK'
  BY <1>31 DEF FiniProcessDone
<1>32. ASSUME NEW t \in All, AfterEndProcess(t) PROVE TypeOK'
  BY <1>32 DEF AfterEndProcess
<1>33. ASSUME NEW t \in All, FiniLibraryDone(t) PROVE TypeOK'
  BY <1>33 DEF FiniLibraryDone
<1>34. ASSUME NEW t \in All, EnterExitCleanup(t) PROVE TypeOK'
  BY <1>34 DEF EnterExitCleanup
<1>35. ASSUME NEW t \in All, ScanNode(t) PROVE TypeOK'
  BY <1>35 DEF ScanNode
<1>36. ASSUME NEW t \in All, KillThread(t) PROVE TypeOK'
  <2>1. tn[cur].self \in Threads
    BY <1>36 DEF KillThread, SelfInv, CleanupInv
  <2> QED
    BY <1>36, <2>1 DEF KillThread
<1>37. ASSUME NEW t \in All, CheckFiniDone(t) PROVE TypeOK'
  BY <1>37 DEF CheckFiniDone
<1>38. ASSUME NEW t \in All, ScanFinished(t) PROVE TypeOK'
  BY <1>38 DEF ScanFinished, ScanOver
<1>39. ASSUME NEW t \in All, ScanAgain(t) PROVE TypeOK'
  BY <1>39 DEF ScanAgain
<1>40. ASSUME NEW t \in All, ScanTimeout(t) PROVE TypeOK'
  BY <1>40 DEF ScanTimeout, ScanOver
<1>41. ASSUME NEW t \in All, SetFiniThreadDone(t) PROVE TypeOK'
  BY <1>41 DEF SetFiniThreadDone
<1>42. ASSUME NEW t \in All, FiniSelf(t) PROVE TypeOK'
  <2>1. tn' = tn \/ tn' = [tn EXCEPT ![my_tn].fini_started = TRUE]
    BY <1>42 DEF FiniSelf, CallFiniProcess
  <2>2. tn \in [Node -> NodeFields]
    OBVIOUS
  <2>3. tn' \in [Node -> NodeFields]
    <3>1. CASE tn' = tn
      BY ONLY <2>2, <3>1
    <3>2. CASE tn' = [tn EXCEPT ![my_tn].fini_started = TRUE]
      BY ONLY <2>2, <3>2, FiniStartedUpdate, Zenon
    <3> QED
      BY <2>1, <3>1, <3>2
  <2> QED
    BY <1>42, <2>3 DEF FiniSelf, CallFiniProcess
<1>43. ASSUME NEW t \in All, FiniSelfDone(t) PROVE TypeOK'
  <2>1. tn' = [tn EXCEPT ![my_tn].fini_done = TRUE]
    BY <1>43 DEF FiniSelfDone, CallFiniProcess
  <2>2. tn \in [Node -> NodeFields]
    OBVIOUS
  <2>3. tn' \in [Node -> NodeFields]
    BY ONLY <2>1, <2>2, FiniDoneUpdate, Zenon
  <2> QED
    BY <1>43, <2>3 DEF FiniSelfDone, CallFiniProcess
<1>44. ASSUME UNCHANGED vars PROVE TypeOK'
  BY <1>44 DEF Alive, GetTn, Owner
<1> HIDE DEF TypeOK, PCs, XPCs, HPCs, Winner, Leaving, ZeroScan, All,
         InBase, InExit, InHandler, At, Goto, ExitAt, ExitTo, CallFiniThread, Home,
         exitVars, listVars, flagVars, shootVars, vars
<1>45. ASSUME NEW t \in All, LibraryStep(t) PROVE TypeOK'
  BY <1>45, <1>4, <1>5, <1>6, <1>7, <1>8, <1>9, <1>10, <1>13, <1>14, <1>15, <1>21,
     <1>22, <1>26, <1>26m, <1>27, <1>30, <1>34, <1>35, <1>36, <1>37, <1>38, <1>39, <1>41,
     <1>42, <1>43, <1>31, <1>32, <1>33
     DEF LibraryStep, LockStep, StartStep, DoneStep
<1>46. ASSUME NEW t \in All, EnvironmentStep(t) PROVE TypeOK'
  BY <1>46, <1>3, <1>7, <1>12, <1>16, <1>24, <1>18, <1>19, <1>20, <1>23, <1>40,
     <1>11, <1>11c, <1>28, <1>25, <1>29 DEF EnvironmentStep
<1> QED
  BY <1>1, <1>2, <1>17, <1>44, <1>45, <1>46 DEF Next, Gone

\* Every step keeps ThreadInv.
LEMMA ThreadStep ==
  ASSUME TypeOK, ThreadInv, [Next]_vars
  PROVE  ThreadInv'
<1> USE ThreadsAssumption, BoundsAssumption
    DEF TypeOK, ThreadInv, All, PCs, Alive, NoNode, MainTn, Node,
        InBase, InExit, InHandler, At, Goto, ExitAt, ExitTo, CallFiniThread, Home,
        exitVars, listVars, flagVars, shootVars, vars
<1>1. ASSUME MainStart PROVE ThreadInv'
  BY <1>1 DEF MainStart
<1>2. ASSUME ThreadRelease PROVE ThreadInv'
  BY <1>2 DEF ThreadRelease
<1>3. ASSUME NEW c \in All, NEW u \in Threads, PthreadCreate(c, u) PROVE ThreadInv'
  <2>1. /\ pc[u] = "unborn" /\ pc[c] \notin {"unborn", "reserved"} /\ c # u
        /\ child' = [child EXCEPT ![c] = u]
        /\ arg' = arg /\ xpc' = xpc /\ has_used_threads' /\ xpc[c] = "none"
    BY <1>3 DEF PthreadCreate
  <2>2. /\ pc' \in [All -> PCs] /\ pc'[u] = "reserved"
        /\ pc'[c] \in {"rawcreate", "support", "make"}
        /\ \A t \in All \ {c, u} : pc'[t] = pc[t]
    BY <1>3, <2>1 DEF PthreadCreate
  <2>3. /\ key' \in [All -> Node \cup {NoNode}]
        /\ key'[Main] = MainTn
        /\ \A t \in Threads : key'[t] = key[t]
    <3>1. CASE has_used_threads
      BY <1>3, <3>1 DEF PthreadCreate
    <3>2. CASE ~has_used_threads
      <4>1. key' = [key EXCEPT ![Main] = MainTn]
        BY <1>3, <3>2 DEF PthreadCreate, ThreadListInit
      <4> QED
        BY <4>1, MainTnIsNode
    <3> QED
      BY <3>1, <3>2
  <2>4. /\ \A d \in All \ {c} : child'[d] = child[d] /\ child[d] # u
        /\ child'[c] = u
    BY <2>1
  <2>5. \A d \in All : child'[d] # NoThread => pc'[child'[d]] = "reserved"
    BY <2>1, <2>2, <2>4
  <2>6. \A d, e \in All : child'[d] # NoThread /\ child'[d] = child'[e] => d = e
    BY <2>1, <2>4
  <2>7. \A d \in All : pc'[d] \in {"support", "make", "making", "create", "rawcreate"}
                      => child'[d] # NoThread
    BY <2>1, <2>2, <2>4
  <2>8. \A d \in All : pc'[d] = "create" => arg'[child'[d]] # NoNode
    BY <2>1, <2>2, <2>4
  <2>9. \A t \in Threads : key'[t] # NoNode => key'[t] = arg'[t]
    BY <2>1, <2>3
  <2>10. \A t \in Threads : /\ pc'[t] = "unborn" => arg'[t] = NoNode
                            /\ pc'[t] \in {"unborn", "reserved"} => key'[t] = NoNode
    <3> TAKE t \in Threads
    <3>1. CASE t = u
      BY <2>1, <2>2, <2>3, <3>1
    <3>2. CASE t = c
      BY <2>1, <2>2, <2>3, <3>2
    <3>3. CASE t \notin {c, u}
      BY <2>1, <2>2, <2>3, <3>3
    <3> QED
      BY <3>1, <3>2, <3>3
  <2>11. \A t \in All : pc'[t] = "start" => t \in Threads /\ arg'[t] # NoNode
    BY <2>1, <2>2
  <2>12. /\ \A t \in All : pc'[t] \in {"link", "linking", "init", "chk", "fini", "unlink", "unlinking"}
                    => t \in Threads /\ key'[t] # NoNode
         /\ \A t \in Threads : pc'[t] \in {"run", "swchk", "swfini"} => key'[t] # NoNode
    <3>1. \A t \in All : pc'[t] \in {"link", "linking", "init", "chk", "fini", "unlink", "unlinking",
                                     "run", "swchk", "swfini"} => t \notin {c, u}
      BY <2>2
    <3>2. \A t \in All : pc'[t] \in {"link", "linking", "init", "chk", "fini", "unlink", "unlinking",
                                     "run", "swchk", "swfini"} => pc'[t] = pc[t]
      BY <2>2, <3>1
    <3>3. \A t \in All : pc'[t] \in {"link", "linking", "init", "chk", "fini", "unlink", "unlinking"}
                    => t \in Threads /\ key'[t] # NoNode
      BY <2>3, <3>2
    <3>4. \A t \in Threads : pc'[t] \in {"run", "swchk", "swfini"} => key'[t] # NoNode
      BY <2>3, <3>2
    <3> QED
      BY <3>3, <3>4
  <2>13. \A t \in All : xpc'[t] # "none" => Alive(t)'
    BY <2>1, <2>2
  <2> QED
    BY <2>1, <2>3, <2>5, <2>6, <2>7, <2>8, <2>9, <2>10, <2>11, <2>12, <2>13
<1>4. ASSUME NEW c \in All, ThreadSupportDone(c) PROVE ThreadInv'
  BY <1>4 DEF ThreadSupportDone
<1>5. ASSUME NEW t \in All, LockStep(t) PROVE ThreadInv'
  <2>1. /\ UNCHANGED <<key, has_used_threads, arg, child, xpc>>
        /\ xpc[t] = "none"
    BY <1>5 DEF LockStep, AcquireThreadLock
  <2>2. \/ pc[t] = "make" /\ pc' = [pc EXCEPT ![t] = "making"]
        \/ pc[t] = "link" /\ pc' = [pc EXCEPT ![t] = "linking"]
        \/ pc[t] = "unlink" /\ pc' = [pc EXCEPT ![t] = "unlinking"]
    BY <1>5 DEF LockStep, AcquireThreadLock
  <2>3. CASE pc[t] = "make" /\ pc' = [pc EXCEPT ![t] = "making"]
    BY <2>1, <2>3
  <2>4. CASE pc[t] = "link" /\ pc' = [pc EXCEPT ![t] = "linking"]
    BY <2>1, <2>4
  <2>5. CASE pc[t] = "unlink" /\ pc' = [pc EXCEPT ![t] = "unlinking"]
    BY <2>1, <2>5
  <2> QED
    BY <2>2, <2>3, <2>4, <2>5
<1>6. ASSUME NEW c \in All, MakeThreadNode(c) PROVE ThreadInv'
  <2>1. /\ UNCHANGED <<key, has_used_threads, child, xpc>> /\ xpc[c] = "none"
        /\ pc[c] = "making" /\ pc' = [pc EXCEPT ![c] = "create"]
    BY <1>6 DEF MakeThreadNode
  <2>2. PICK n \in Node : arg' = [arg EXCEPT ![child[c]] = n]
    BY <1>6 DEF MakeThreadNode
  <2>3. /\ child[c] \in Threads /\ pc[child[c]] = "reserved"
        /\ arg'[child[c]] # NoNode /\ \A t \in All \ {child[c]} : arg'[t] = arg[t]
    BY <2>1, <2>2
  <2>4. \A d \in All : pc'[d] = "create" => arg'[child'[d]] # NoNode
    BY <2>1, <2>3
  <2>5. /\ \A t \in Threads : pc[t] = "unborn" => arg[t] = NoNode
        /\ \A t \in Threads : key[t] # NoNode => key[t] = arg[t] /\ pc[t] # "reserved"
        /\ \A t \in All : pc[t] = "start" => t \in Threads /\ arg[t] # NoNode
        /\ Threads \subseteq All /\ key' = key
        /\ \A t \in All : pc'[t] = IF t = c THEN "create" ELSE pc[t]
    BY <2>1
  <2>6. \A t \in Threads : pc'[t] = "unborn" => arg'[t] = NoNode
    <3> TAKE t \in Threads
    <3> QED
      BY ONLY <2>3, <2>5
  <2>7. \A t \in Threads : key'[t] # NoNode => key'[t] = arg'[t]
    <3> TAKE t \in Threads
    <3> QED
      BY ONLY <2>3, <2>5
  <2>8. \A t \in All : pc'[t] = "start" => t \in Threads /\ arg'[t] # NoNode
    <3> TAKE t \in All
    <3> QED
      BY ONLY <2>3, <2>5
  <2> QED
    BY <2>1, <2>4, <2>6, <2>7, <2>8
<1>7. ASSUME NEW c \in All, NEW ok \in BOOLEAN, RealPthreadCreate(c, ok) PROVE ThreadInv'
  <2>1. /\ UNCHANGED <<key, has_used_threads, arg, xpc>> /\ xpc[c] = "none"
        /\ pc[c] \in {"create", "rawcreate"} /\ child' = [child EXCEPT ![c] = NoThread]
    BY <1>7 DEF RealPthreadCreate
  <2>2. child[c] \in Threads /\ child[c] # c /\ pc[child[c]] = "reserved"
    BY <2>1
  <2>3. /\ pc'[c] = Home(c) /\ \A t \in All \ {c, child[c]} : pc'[t] = pc[t]
        /\ pc'[child[c]] \in {"dead", "raw"} \/ (pc[c] = "create" /\ pc'[child[c]] = "start")
    <3>1. pc' = [pc EXCEPT ![child[c]] = IF ~ok THEN "dead"
                                         ELSE IF pc[c] = "create" THEN "start" ELSE "raw",
                           ![c] = Home(c)]
      BY <1>7 DEF RealPthreadCreate
    <3>2. pc \in [All -> PCs] /\ child[c] \in All
      BY <2>2
    <3> HIDE DEF All, Home, PCs
    <3>3. pc'[c] = Home(c) /\ \A t \in All \ {c, child[c]} : pc'[t] = pc[t]
      BY ONLY <3>1, <3>2, c \in All
    <3>4. pc'[child[c]] = IF ~ok THEN "dead" ELSE IF pc[c] = "create" THEN "start" ELSE "raw"
      BY ONLY <2>2, <3>1, <3>2
    <3>5. pc'[child[c]] \in {"dead", "raw"} \/ (pc[c] = "create" /\ pc'[child[c]] = "start")
      BY ONLY <3>4
    <3> QED
      BY ONLY <3>3, <3>5
  <2>4. pc'[c] \in {"run", "premain", "raw"} /\ (c \in Threads /\ pc'[c] = "run" => key[c] # NoNode)
    BY <2>3
  <2>5. \A d \in All \ {c} : child'[d] = child[d] /\ (child[d] # NoThread => child[d] # child[c])
    BY <2>1, <2>2
  <2>6. \A d \in All : /\ child'[d] # NoThread => pc'[child'[d]] = "reserved"
                       /\ pc'[d] \in {"support", "make", "making", "create", "rawcreate"}
                          => child'[d] # NoThread
    <3> TAKE d \in All
    <3>1. CASE d = c
      BY <2>1, <2>4, <3>1
    <3>2. CASE d # c
      <4>1. child'[d] # NoThread => pc'[child'[d]] = pc[child[d]]
        <5>1. child[d] \in All \cup {NoThread} /\ child'[d] = child[d]
              /\ (child[d] # NoThread => pc[child[d]] = "reserved")
              /\ pc[c] # "reserved"
          BY <2>1, <2>5, <3>2
        <5> QED
          BY ONLY <2>3, <2>5, <3>2, <5>1, d \in All
      <4>2. child'[d] = child[d] /\ (pc'[d] = pc[d] \/ pc'[d] \in {"dead", "raw", "start"})
        BY <2>2, <2>3, <2>5, <3>2
      <4> QED
        BY <4>1, <4>2
    <3> QED
      BY <3>1, <3>2
  <2>7. \A d, e \in All : child'[d] # NoThread /\ child'[d] = child'[e] => d = e
    BY <2>1
  <2>A. /\ \A d \in All : pc[d] = "create" => arg[child[d]] # NoNode
        /\ \A t \in Threads : pc[t] = "unborn" => arg[t] = NoNode
        /\ \A t \in Threads : pc[t] \in {"unborn", "reserved"} => key[t] = NoNode
        /\ \A t \in All : pc[t] = "start" => t \in Threads /\ arg[t] # NoNode
        /\ Threads \subseteq All /\ arg' = arg /\ key' = key
    BY <2>1
  <2>8. \A d \in All : pc'[d] = "create" => arg'[child'[d]] # NoNode
    <3> TAKE d \in All
    <3> QED
      BY ONLY <2>3, <2>4, <2>5, <2>A
  <2>9. /\ \A t \in Threads : pc'[t] = "unborn" => arg'[t] = NoNode
        /\ \A t \in Threads : pc'[t] \in {"unborn", "reserved"} => key'[t] = NoNode
    BY ONLY <2>3, <2>4, <2>A
  <2>10. \A t \in All : pc'[t] = "start" => t \in Threads /\ arg'[t] # NoNode
    <3> TAKE t \in All
    <3> QED
      BY ONLY <2>2, <2>3, <2>4, <2>A
  <2>11. \A t \in All : pc'[t] \in {"link", "linking", "init", "chk", "fini", "unlink", "unlinking"}
                        => t \in Threads /\ key'[t] # NoNode
    BY <2>1, <2>2, <2>3, <2>4
  <2>12. \A t \in Threads : pc'[t] \in {"run", "swchk", "swfini"} => key'[t] # NoNode
    <3> TAKE t \in Threads
    <3>1. pc[t] \in {"run", "swchk", "swfini"} => key[t] # NoNode
      OBVIOUS
    <3>2. key' = key /\ t \in All
      BY <2>1
    <3> QED
      BY ONLY <2>2, <2>3, <2>4, <3>1, <3>2, t \in Threads
  <2>13. \A t \in All : xpc'[t] # "none" => Alive(t)'
    <3> TAKE t \in All
    <3>1. xpc'[t] # "none" => Alive(t)
      BY <2>1
    <3>2. CASE t = c
      BY <2>1, <3>2
    <3>3. CASE t = child[c]
      BY <2>2, <3>1, <3>3
    <3>4. CASE t \notin {c, child[c]}
      BY <2>3, <3>1, <3>4
    <3> QED
      BY <3>2, <3>3, <3>4
  <2> QED
    BY <2>1, <2>6, <2>7, <2>8, <2>9, <2>10, <2>11, <2>12, <2>13
<1>8. ASSUME NEW t \in All, BeginThread(t) PROVE ThreadInv'
  <2>1. /\ UNCHANGED <<arg, child, has_used_threads, xpc>> /\ xpc[t] = "none"
        /\ pc[t] = "start" /\ pc' = [pc EXCEPT ![t] = "link"]
        /\ key' = [key EXCEPT ![t] = arg[t]] /\ t \in Threads /\ arg[t] # NoNode
    BY <1>8 DEF BeginThread
  <2>2. \A u \in All \ {t} : pc'[u] = pc[u] /\ key'[u] = key[u]
    BY <2>1
  <2>3. pc'[t] = "link" /\ key'[t] = arg[t]
    BY <2>1
  <2>4. \A c \in All : child[c] # t
    BY <2>1
  <2> QED
    BY <2>1, <2>2, <2>3, <2>4
<1>9. ASSUME NEW t \in All, LinkThreadNode(t) PROVE ThreadInv'
  BY <1>9 DEF LinkThreadNode, ListFixed
<1>10. ASSUME NEW t \in All, ApplStarted(t) PROVE ThreadInv'
  <2>1. /\ UNCHANGED <<key, has_used_threads, arg, child, xpc>> /\ xpc[t] = "none"
        /\ pc[t] = "init" /\ pc' = [pc EXCEPT ![t] = "run"]
    BY <1>10 DEF ApplStarted
  <2> QED
    BY <2>1
<1>11. ASSUME NEW t \in All, CancelEarly(t) PROVE ThreadInv'
  BY <1>11 DEF CancelEarly
<1>11c. ASSUME NEW t \in All, CancelCleanup(t) PROVE ThreadInv'
  BY <1>11c DEF CancelCleanup
<1>12. ASSUME NEW t \in All, CleanupCheck(t) PROVE ThreadInv'
  BY <1>12 DEF CleanupCheck
<1>13. ASSUME NEW t \in All, StartStep(t) PROVE ThreadInv'
  <2>1. /\ UNCHANGED <<key, has_used_threads, arg, child, xpc>>
        /\ xpc[t] = "none"
    BY <1>13 DEF StartStep, FiniThreadStart
  <2>2. \/ pc[t] = "chk" /\ pc' = [pc EXCEPT ![t] = "fini"]
        \/ pc[t] = "swchk" /\ pc' = [pc EXCEPT ![t] = "swfini"]
    BY <1>13 DEF StartStep, FiniThreadStart
  <2>3. CASE pc[t] = "chk" /\ pc' = [pc EXCEPT ![t] = "fini"]
    BY <2>1, <2>3
  <2>4. CASE pc[t] = "swchk" /\ pc' = [pc EXCEPT ![t] = "swfini"]
    BY <2>1, <2>4
  <2> QED
    BY <2>2, <2>3, <2>4
<1>14. ASSUME NEW t \in All, DoneStep(t) PROVE ThreadInv'
  <2>1. /\ UNCHANGED <<key, has_used_threads, arg, child, xpc>>
        /\ xpc[t] = "none"
    BY <1>14 DEF DoneStep, FiniThreadDone
  <2>2. \/ pc[t] = "fini" /\ pc' = [pc EXCEPT ![t] = "unlink"]
        \/ pc[t] = "swfini" /\ pc' = [pc EXCEPT ![t] = "run"]
    BY <1>14 DEF DoneStep, FiniThreadDone
  <2>3. CASE pc[t] = "fini" /\ pc' = [pc EXCEPT ![t] = "unlink"]
    BY <2>1, <2>3
  <2>4. CASE pc[t] = "swfini" /\ pc' = [pc EXCEPT ![t] = "run"]
    BY <2>1, <2>4
  <2> QED
    BY <2>2, <2>3, <2>4
<1>15. ASSUME NEW t \in All, UnlinkThreadNode(t) PROVE ThreadInv'
  <2>1. /\ UNCHANGED <<key, has_used_threads, arg, child, xpc>>
        /\ pc' = [pc EXCEPT ![t] = "dead"] /\ pc[t] = "unlinking" /\ xpc[t] = "none"
    BY <1>15 DEF UnlinkThreadNode
  <2> QED
    BY <2>1
<1>16. ASSUME NEW t \in All, RawReturn(t) PROVE ThreadInv'
  BY <1>16 DEF RawReturn
<1>17. ASSUME LastThreadGone PROVE ThreadInv'
  BY <1>17 DEF LastThreadGone
<1>18. ASSUME NEW t \in All, NEW on \in BOOLEAN, BlockShootdown(t, on) PROVE ThreadInv'
  BY <1>18 DEF BlockShootdown
<1>19. ASSUME NEW t \in All, NEW on \in BOOLEAN, IgnoreNewThreads(t, on) PROVE ThreadInv'
  BY <1>19 DEF IgnoreNewThreads
<1>20. ASSUME NEW t \in All, ShootdownHandler(t) PROVE ThreadInv'
  BY <1>20 DEF ShootdownHandler
<1>21. ASSUME NEW t \in All, HandlerFiniStart(t) PROVE ThreadInv'
  BY <1>21 DEF HandlerFiniStart
<1>22. ASSUME NEW t \in All, HandlerFiniDone(t) PROVE ThreadInv'
  BY <1>22 DEF HandlerFiniDone
<1>23. ASSUME NEW t \in All, SigwaitHelper(t) PROVE ThreadInv'
  BY <1>23 DEF SigwaitHelper
<1>24. ASSUME NEW t \in All, NEW kind \in {"exit", "pthread_exit"}, CallExit(t, kind) PROVE ThreadInv'
  BY <1>24 DEF CallExit
<1>25. ASSUME NEW t \in All, FatalSignal(t) PROVE ThreadInv'
  BY <1>25 DEF FatalSignal
<1>26. ASSUME NEW t \in All, CasCookie(t) PROVE ThreadInv'
  <2>1. UNCHANGED <<key, has_used_threads, pc, arg, child>> /\ xpc[t] # "none"
    BY <1>26 DEF CasCookie, WinsCookie
  <2>2. \A u \in All \ {t} : xpc'[u] = xpc[u]
    BY <1>26 DEF CasCookie, WinsCookie
  <2> QED
    BY <2>1, <2>2
<1>26m. ASSUME NEW t \in All, MarkExitWin(t) PROVE ThreadInv'
  <2>1. UNCHANGED <<key, has_used_threads, pc, arg, child>> /\ xpc[t] # "none"
    BY <1>26m DEF MarkExitWin
  <2>2. \A u \in All \ {t} : xpc'[u] = xpc[u]
    BY <1>26m DEF MarkExitWin
  <2> QED
    BY <2>1, <2>2
<1>27. ASSUME NEW t \in All, LoserReleased(t) PROVE ThreadInv'
  BY <1>27 DEF LoserReleased, CallbacksOver
<1>28. ASSUME NEW t \in All, CancelExit(t) PROVE ThreadInv'
  BY <1>28 DEF CancelExit
<1>29. ASSUME NEW t \in All, ExitAgain(t) PROVE ThreadInv'
  BY <1>29 DEF ExitAgain
<1>30. ASSUME NEW t \in All, BeginProcessExitDone(t) PROVE ThreadInv'
  BY <1>30 DEF BeginProcessExitDone, CallFiniProcess
<1>31. ASSUME NEW t \in All, FiniProcessDone(t) PROVE ThreadInv'
  BY <1>31 DEF FiniProcessDone
<1>32. ASSUME NEW t \in All, AfterEndProcess(t) PROVE ThreadInv'
  <2>1. UNCHANGED <<key, has_used_threads, arg, child>> /\ xpc[t] # "none"
    BY <1>32 DEF AfterEndProcess
  <2>2. \A u \in All \ {t} : xpc'[u] = xpc[u]
    BY <1>32 DEF AfterEndProcess
  <2>3. CASE UNCHANGED pc
    BY <2>1, <2>2, <2>3
  <2>4. CASE pc' = [pc EXCEPT ![t] = "dead"] /\ xpc' = [xpc EXCEPT ![t] = "none"]
    BY <2>1, <2>4
  <2> QED
    BY <1>32, <2>3, <2>4 DEF AfterEndProcess
<1>33. ASSUME NEW t \in All, FiniLibraryDone(t) PROVE ThreadInv'
  BY <1>33 DEF FiniLibraryDone
<1>34. ASSUME NEW t \in All, EnterExitCleanup(t) PROVE ThreadInv'
  BY <1>34 DEF EnterExitCleanup
<1>35. ASSUME NEW t \in All, ScanNode(t) PROVE ThreadInv'
  <2>1. UNCHANGED <<key, has_used_threads, pc, arg, child>> /\ xpc[t] # "none"
    BY <1>35 DEF ScanNode
  <2>2. PICK x : xpc' = [xpc EXCEPT ![t] = x]
    BY <1>35 DEF ScanNode
  <2> QED
    BY <2>1, <2>2
<1>36. ASSUME NEW t \in All, KillThread(t) PROVE ThreadInv'
  BY <1>36 DEF KillThread
<1>37. ASSUME NEW t \in All, CheckFiniDone(t) PROVE ThreadInv'
  BY <1>37 DEF CheckFiniDone
<1>38. ASSUME NEW t \in All, ScanFinished(t) PROVE ThreadInv'
  BY <1>38 DEF ScanFinished, ScanOver
<1>39. ASSUME NEW t \in All, ScanAgain(t) PROVE ThreadInv'
  BY <1>39 DEF ScanAgain
<1>40. ASSUME NEW t \in All, ScanTimeout(t) PROVE ThreadInv'
  BY <1>40 DEF ScanTimeout, ScanOver
<1>41. ASSUME NEW t \in All, SetFiniThreadDone(t) PROVE ThreadInv'
  BY <1>41 DEF SetFiniThreadDone
<1>42. ASSUME NEW t \in All, FiniSelf(t) PROVE ThreadInv'
  <2>1. UNCHANGED <<key, has_used_threads, pc, arg, child>> /\ xpc[t] # "none"
    BY <1>42 DEF FiniSelf, CallFiniProcess
  <2>2. \A u \in All \ {t} : xpc'[u] = xpc[u]
    BY <1>42 DEF FiniSelf, CallFiniProcess
  <2> QED
    BY <2>1, <2>2
<1>43. ASSUME NEW t \in All, FiniSelfDone(t) PROVE ThreadInv'
  BY <1>43 DEF FiniSelfDone, CallFiniProcess
<1>44. ASSUME UNCHANGED vars PROVE ThreadInv'
  BY <1>44 DEF Alive, GetTn, Owner
<1> HIDE DEF TypeOK, ThreadInv, All, PCs, Alive, NoNode, MainTn, Node,
         InBase, InExit, InHandler, At, Goto, ExitAt, ExitTo, CallFiniThread, Home,
         exitVars, listVars, flagVars, shootVars, vars
<1>45. ASSUME NEW t \in All, LibraryStep(t) PROVE ThreadInv'
  BY <1>45, <1>4, <1>5, <1>6, <1>7, <1>8, <1>9, <1>10, <1>13, <1>14, <1>15, <1>21,
     <1>22, <1>26, <1>26m, <1>27, <1>30, <1>34, <1>35, <1>36, <1>37, <1>38, <1>39, <1>41,
     <1>42, <1>43, <1>31, <1>32, <1>33
     DEF LibraryStep, LockStep, StartStep, DoneStep
<1>46. ASSUME NEW t \in All, EnvironmentStep(t) PROVE ThreadInv'
  BY <1>46, <1>3, <1>7, <1>12, <1>16, <1>24, <1>18, <1>19, <1>20, <1>23, <1>40,
     <1>11, <1>11c, <1>28, <1>25, <1>29 DEF EnvironmentStep
<1> QED
  BY <1>1, <1>2, <1>17, <1>44, <1>45, <1>46 DEF Next, Gone

\* Every step keeps NodeInv.
LEMMA NodeStep ==
  ASSUME TypeOK, ThreadInv, NodeInv, [Next]_vars
  PROVE  NodeInv'
<1> USE ThreadsAssumption, BoundsAssumption
    DEF TypeOK, NodeInv, ThreadInv, Owner, All, NoNode, Node,
        InBase, InExit, InHandler, At, Goto, ExitAt, ExitTo, CallFiniThread, Home,
        exitVars, listVars, flagVars, shootVars, vars
<1>1. ASSUME MainStart PROVE NodeInv'
  BY <1>1 DEF MainStart
<1>2. ASSUME ThreadRelease PROVE NodeInv'
  BY <1>2 DEF ThreadRelease
<1>3. ASSUME NEW c \in All, NEW u \in Threads, PthreadCreate(c, u) PROVE NodeInv'
  <2>1. /\ UNCHANGED <<arg, tn_array>> /\ c # u
        /\ pc[u] = "unborn" /\ pc[c] \notin {"unborn", "reserved", "dead"}
        /\ \A t \in All \ {c, u} : pc'[t] = pc[t]
    BY <1>3 DEF PthreadCreate
  <2>2. \A t \in Threads : Owner(t)' => Owner(t) /\ t # u
    <3>1. arg[u] = NoNode
      BY <2>1
    <3> QED
      BY <2>1, <3>1
  <2>3. CASE has_used_threads
    <3>1. UNCHANGED <<thread_list, free_list, tn_array_pos>>
      BY <1>3, <2>3 DEF PthreadCreate
    <3> QED
      BY <2>1, <2>2, <3>1
  <2>4. CASE ~has_used_threads
    <3>1. thread_list' = {} /\ free_list' = {} /\ tn_array_pos' = 0
      BY <1>3, <2>4 DEF PthreadCreate, ThreadListInit
    <3>2. \A t \in Threads : ~Owner(t)'
      BY <2>2, <2>4
    <3> QED
      BY <2>1, <3>1, <3>2
  <2> QED
    BY <2>3, <2>4
<1>4. ASSUME NEW c \in All, ThreadSupportDone(c) PROVE NodeInv'
  BY <1>4 DEF ThreadSupportDone
<1>5. ASSUME NEW t \in All, LockStep(t) PROVE NodeInv'
  <2>1. UNCHANGED <<thread_list, free_list, tn_array, tn_array_pos, arg>>
    BY <1>5 DEF LockStep, AcquireThreadLock
  <2>2. \A v \in Threads : Owner(v)' => Owner(v)
    <3>1. pc[t] \in {"make", "link", "unlink"}
      BY <1>5 DEF LockStep, AcquireThreadLock
    <3>2. \A v \in All \ {t} : pc'[v] = pc[v]
      BY <1>5 DEF LockStep, AcquireThreadLock
    <3> QED
      BY <2>1, <3>1, <3>2
  <2> QED
    BY <2>1, <2>2
<1>6. ASSUME NEW c \in All, MakeThreadNode(c) PROVE NodeInv'
  <2>1. /\ UNCHANGED thread_list /\ pc' = [pc EXCEPT ![c] = "create"] /\ pc[c] = "making"
        /\ child[c] \in Threads /\ pc[child[c]] = "reserved"
    BY <1>6 DEF MakeThreadNode
  <2>2. PICK n \in Node :
           /\ \/ /\ n \in free_list /\ free_list' = free_list \ {n}
                 /\ UNCHANGED <<tn_array, tn_array_pos>>
              \/ /\ n >= tn_array + tn_array_pos /\ free_list' = free_list
                 /\ tn_array' + tn_array_pos' = n + 1 /\ tn_array' >= tn_array
           /\ tn_array' \in Int
           /\ arg' = [arg EXCEPT ![child[c]] = n]
    BY ONLY TypeOK, c \in All, <1>6, NewNode
  <2>3. n \in Int /\ n >= 0 /\ tn_array \in Int /\ tn_array_pos \in Int
        /\ tn_array' + tn_array_pos' \in Int /\ tn_array_pos >= 0
        /\ tn_array' + tn_array_pos' >= tn_array + tn_array_pos
    BY <2>2
  <2>4. /\ n >= 1 /\ n < tn_array' + tn_array_pos' /\ n \notin free_list'
        /\ n \notin thread_list /\ tn_array' >= 1
    <3>1. CASE n \in free_list /\ free_list' = free_list \ {n} /\ UNCHANGED <<tn_array, tn_array_pos>>
      BY <3>1
    <3>2. CASE /\ n >= tn_array + tn_array_pos /\ free_list' = free_list
               /\ tn_array' + tn_array_pos' = n + 1 /\ tn_array' >= tn_array
      <4>1. n >= 1 /\ n < tn_array' + tn_array_pos'
        BY <2>3, <3>2
      <4>2. n \notin free_list /\ n \notin thread_list
        BY <2>3, <3>2
      <4>3. tn_array' >= 1
        BY <2>2, <2>3, <3>2
      <4> QED
        BY <3>2, <4>1, <4>2, <4>3
    <3> QED
      BY <2>2, <3>1, <3>2
  <2>5. \A t \in Threads : Owner(t)' /\ t # child[c] => Owner(t) /\ arg'[t] = arg[t]
    <3>1. \A t \in Threads \ {child[c]} : arg'[t] = arg[t]
      BY <2>2
    <3>2. \A t \in Threads : pc'[t] # "dead" => pc[t] # "dead"
      BY <2>1
    <3> QED
      BY ONLY <3>1, <3>2 DEF Owner
  <2>6. \A t \in Threads : Owner(t) => arg[t] # n
    BY <2>2, <2>3
  <2>7. arg'[child[c]] = n
    BY <2>1, <2>2
  <2>8. \A m \in Node : m < tn_array + tn_array_pos => m < tn_array' + tn_array_pos'
    BY <2>3
  <2>9. /\ thread_list' \cap free_list' = {}
        /\ \A m \in thread_list' \cup free_list' : 1 <= m /\ m < tn_array' + tn_array_pos'
    <3>1. thread_list' = thread_list /\ free_list' \subseteq free_list
      BY <2>1, <2>2
    <3>2. \A m \in thread_list \cup free_list : m \in Node /\ 1 <= m /\ m < tn_array + tn_array_pos
      OBVIOUS
    <3>3. thread_list' \cap free_list' = {}
      BY <3>1
    <3> QED
      BY <2>8, <3>1, <3>2, <3>3
  <2>10. \A t \in Threads : Owner(t)' =>
          arg'[t] \notin free_list' /\ 1 <= arg'[t] /\ arg'[t] < tn_array' + tn_array_pos'
    <3>1. \A t \in Threads : Owner(t) => arg[t] \in Node
      OBVIOUS
    <3>2. \A t \in Threads : Owner(t) =>
            arg[t] \notin free_list' /\ 1 <= arg[t] /\ arg[t] < tn_array' + tn_array_pos'
      BY <2>2, <2>8, <3>1
    <3> QED
      BY <2>4, <2>5, <2>7, <3>2
  <2>11. \A t, u \in Threads : Owner(t)' /\ Owner(u)' /\ arg'[t] = arg'[u] => t = u
    <3> TAKE t, u \in Threads
    <3>1. CASE t = child[c] /\ u # child[c]
      BY <2>5, <2>6, <2>7, <3>1
    <3>2. CASE t # child[c] /\ u = child[c]
      BY <2>5, <2>6, <2>7, <3>2
    <3>3. CASE t # child[c] /\ u # child[c]
      BY <2>5, <3>3
    <3> QED
      BY <3>1, <3>2, <3>3
  <2> QED
    BY <2>4, <2>9, <2>10, <2>11
<1>7. ASSUME NEW c \in All, NEW ok \in BOOLEAN, RealPthreadCreate(c, ok) PROVE NodeInv'
  <2>1. UNCHANGED <<thread_list, free_list, tn_array, tn_array_pos, arg>>
    BY <1>7 DEF RealPthreadCreate
  <2>2. \A v \in Threads : Owner(v)' => Owner(v)
    <3>1. /\ pc[c] \in {"create", "rawcreate"} /\ child[c] \in Threads
          /\ pc[child[c]] = "reserved" /\ child[c] # c
      BY <1>7 DEF RealPthreadCreate
    <3>2. \A v \in All \ {c, child[c]} : pc'[v] = pc[v]
      BY <1>7 DEF RealPthreadCreate
    <3> QED
      BY <2>1, <3>1, <3>2
  <2> QED
    BY <2>1, <2>2
<1>8. ASSUME NEW t \in All, BeginThread(t) PROVE NodeInv'
  <2>1. /\ UNCHANGED <<thread_list, free_list, tn_array, tn_array_pos, arg>>
        /\ pc[t] # "dead" /\ \A v \in All \ {t} : pc'[v] = pc[v]
    BY <1>8 DEF BeginThread
  <2>2. \A v \in Threads : Owner(v)' => Owner(v)
    BY <2>1
  <2> QED
    BY <2>1, <2>2
<1>9. ASSUME NEW t \in All, LinkThreadNode(t) PROVE NodeInv'
  <2>1. /\ UNCHANGED <<arg, tn_array, tn_array_pos, free_list>>
        /\ t \in Threads /\ pc[t] = "linking" /\ Owner(t)
        /\ pc' = [pc EXCEPT ![t] = "dead"] \/ pc' = [pc EXCEPT ![t] = "init"]
        /\ thread_list' \subseteq thread_list \cup {arg[t]}
    BY <1>9 DEF LinkThreadNode
  <2>2. \A u \in Threads : Owner(u)' => Owner(u)
    BY <2>1
  <2>3. /\ thread_list' \cap free_list = {}
        /\ \A n \in thread_list' \cup free_list : 1 <= n /\ n < tn_array + tn_array_pos
    BY <2>1
  <2> QED
    BY <2>1, <2>2, <2>3
<1>10. ASSUME NEW t \in All, ApplStarted(t) PROVE NodeInv'
  <2>1. /\ UNCHANGED <<thread_list, free_list, tn_array, tn_array_pos, arg>>
        /\ pc[t] # "dead" /\ \A v \in All \ {t} : pc'[v] = pc[v]
    BY <1>10 DEF ApplStarted
  <2>2. \A v \in Threads : Owner(v)' => Owner(v)
    BY <2>1
  <2> QED
    BY <2>1, <2>2
<1>11. ASSUME NEW t \in All, CancelEarly(t) PROVE NodeInv'
  BY <1>11 DEF CancelEarly
<1>11c. ASSUME NEW t \in All, CancelCleanup(t) PROVE NodeInv'
  BY <1>11c DEF CancelCleanup
<1>12. ASSUME NEW t \in All, CleanupCheck(t) PROVE NodeInv'
  BY <1>12 DEF CleanupCheck
<1>13. ASSUME NEW t \in All, StartStep(t) PROVE NodeInv'
  <2>1. UNCHANGED <<thread_list, free_list, tn_array, tn_array_pos, arg>>
    BY <1>13 DEF StartStep, FiniThreadStart
  <2>2. \A v \in Threads : Owner(v)' => Owner(v)
    <3>1. pc[t] \in {"chk", "swchk"}
      BY <1>13 DEF StartStep, FiniThreadStart
    <3>2. \A v \in All \ {t} : pc'[v] = pc[v]
      BY <1>13 DEF StartStep, FiniThreadStart
    <3> QED
      BY <2>1, <3>1, <3>2
  <2> QED
    BY <2>1, <2>2
<1>14. ASSUME NEW t \in All, DoneStep(t) PROVE NodeInv'
  <2>1. UNCHANGED <<thread_list, free_list, tn_array, tn_array_pos, arg>>
    BY <1>14 DEF DoneStep, FiniThreadDone
  <2>2. \A v \in Threads : Owner(v)' => Owner(v)
    <3>1. pc[t] \in {"fini", "swfini"}
      BY <1>14 DEF DoneStep, FiniThreadDone
    <3>2. \A v \in All \ {t} : pc'[v] = pc[v]
      BY <1>14 DEF DoneStep, FiniThreadDone
    <3> QED
      BY <2>1, <3>1, <3>2
  <2> QED
    BY <2>1, <2>2
<1>15. ASSUME NEW t \in All, UnlinkThreadNode(t) PROVE NodeInv'
  <2>1. /\ UNCHANGED <<arg, tn_array, tn_array_pos>>
        /\ t \in Threads /\ pc[t] = "unlinking" /\ Owner(t)
        /\ pc' = [pc EXCEPT ![t] = "dead"]
    BY <1>15 DEF UnlinkThreadNode
  <2>2. \/ UNCHANGED <<thread_list, free_list>>
        \/ thread_list' = thread_list \ {arg[t]} /\ free_list' = free_list \cup {arg[t]}
    BY <1>15 DEF UnlinkThreadNode
  <2>3. \A u \in Threads : Owner(u)' => Owner(u) /\ u # t
    BY <2>1
  <2>4. \A u \in Threads : Owner(u)' => arg[u] # arg[t] /\ arg[u] \notin free_list
    BY <2>1, <2>3
  <2>5. 1 <= arg[t] /\ arg[t] < tn_array + tn_array_pos
    BY <2>1
  <2>6. \A u \in Threads : Owner(u)' =>
          arg'[u] \notin free_list' /\ 1 <= arg'[u] /\ arg'[u] < tn_array' + tn_array_pos'
    BY <2>1, <2>2, <2>3, <2>4
  <2>7. /\ thread_list' \cap free_list' = {}
        /\ \A n \in thread_list' \cup free_list' : 1 <= n /\ n < tn_array + tn_array_pos
    <3>1. thread_list' \cap free_list' = {}
      BY <2>2
    <3>2. thread_list' \cup free_list' \subseteq thread_list \cup free_list \cup {arg[t]}
      BY <2>2
    <3>3. \A n \in thread_list \cup free_list \cup {arg[t]} : 1 <= n /\ n < tn_array + tn_array_pos
      BY <2>5
    <3> QED
      BY ONLY <3>1, <3>2, <3>3
  <2>8. \A u, v \in Threads : Owner(u)' /\ Owner(v)' /\ arg'[u] = arg'[v] => u = v
    BY <2>1, <2>3
  <2> QED
    BY <2>1, <2>6, <2>7, <2>8
<1>16. ASSUME NEW t \in All, RawReturn(t) PROVE NodeInv'
  BY <1>16 DEF RawReturn
<1>17. ASSUME LastThreadGone PROVE NodeInv'
  BY <1>17 DEF LastThreadGone
<1>18. ASSUME NEW t \in All, NEW on \in BOOLEAN, BlockShootdown(t, on) PROVE NodeInv'
  BY <1>18 DEF BlockShootdown
<1>19. ASSUME NEW t \in All, NEW on \in BOOLEAN, IgnoreNewThreads(t, on) PROVE NodeInv'
  BY <1>19 DEF IgnoreNewThreads
<1>20. ASSUME NEW t \in All, ShootdownHandler(t) PROVE NodeInv'
  BY <1>20 DEF ShootdownHandler
<1>21. ASSUME NEW t \in All, HandlerFiniStart(t) PROVE NodeInv'
  BY <1>21 DEF HandlerFiniStart
<1>22. ASSUME NEW t \in All, HandlerFiniDone(t) PROVE NodeInv'
  BY <1>22 DEF HandlerFiniDone
<1>23. ASSUME NEW t \in All, SigwaitHelper(t) PROVE NodeInv'
  BY <1>23 DEF SigwaitHelper
<1>24. ASSUME NEW t \in All, NEW kind \in {"exit", "pthread_exit"}, CallExit(t, kind) PROVE NodeInv'
  BY <1>24 DEF CallExit
<1>25. ASSUME NEW t \in All, FatalSignal(t) PROVE NodeInv'
  BY <1>25 DEF FatalSignal
<1>26. ASSUME NEW t \in All, CasCookie(t) PROVE NodeInv'
  BY <1>26 DEF CasCookie, WinsCookie
<1>26m. ASSUME NEW t \in All, MarkExitWin(t) PROVE NodeInv'
  BY <1>26m DEF MarkExitWin
<1>27. ASSUME NEW t \in All, LoserReleased(t) PROVE NodeInv'
  BY <1>27 DEF LoserReleased, CallbacksOver
<1>28. ASSUME NEW t \in All, CancelExit(t) PROVE NodeInv'
  BY <1>28 DEF CancelExit
<1>29. ASSUME NEW t \in All, ExitAgain(t) PROVE NodeInv'
  BY <1>29 DEF ExitAgain
<1>30. ASSUME NEW t \in All, BeginProcessExitDone(t) PROVE NodeInv'
  BY <1>30 DEF BeginProcessExitDone, CallFiniProcess
<1>31. ASSUME NEW t \in All, FiniProcessDone(t) PROVE NodeInv'
  BY <1>31 DEF FiniProcessDone
<1>32. ASSUME NEW t \in All, AfterEndProcess(t) PROVE NodeInv'
  <2>1. UNCHANGED <<thread_list, free_list, tn_array, tn_array_pos, arg>>
    BY <1>32 DEF AfterEndProcess
  <2>2. pc' = pc \/ pc' = [pc EXCEPT ![t] = "dead"]
    BY <1>32 DEF AfterEndProcess
  <2>3. \A v \in Threads : Owner(v)' => Owner(v)
    BY <2>1, <2>2
  <2> QED
    BY <2>1, <2>3
<1>33. ASSUME NEW t \in All, FiniLibraryDone(t) PROVE NodeInv'
  BY <1>33 DEF FiniLibraryDone
<1>34. ASSUME NEW t \in All, EnterExitCleanup(t) PROVE NodeInv'
  BY <1>34 DEF EnterExitCleanup
<1>35. ASSUME NEW t \in All, ScanNode(t) PROVE NodeInv'
  BY <1>35 DEF ScanNode
<1>36. ASSUME NEW t \in All, KillThread(t) PROVE NodeInv'
  BY <1>36 DEF KillThread
<1>37. ASSUME NEW t \in All, CheckFiniDone(t) PROVE NodeInv'
  BY <1>37 DEF CheckFiniDone
<1>38. ASSUME NEW t \in All, ScanFinished(t) PROVE NodeInv'
  BY <1>38 DEF ScanFinished, ScanOver
<1>39. ASSUME NEW t \in All, ScanAgain(t) PROVE NodeInv'
  BY <1>39 DEF ScanAgain
<1>40. ASSUME NEW t \in All, ScanTimeout(t) PROVE NodeInv'
  BY <1>40 DEF ScanTimeout, ScanOver
<1>41. ASSUME NEW t \in All, SetFiniThreadDone(t) PROVE NodeInv'
  BY <1>41 DEF SetFiniThreadDone
<1>42. ASSUME NEW t \in All, FiniSelf(t) PROVE NodeInv'
  BY <1>42 DEF FiniSelf, CallFiniProcess
<1>43. ASSUME NEW t \in All, FiniSelfDone(t) PROVE NodeInv'
  BY <1>43 DEF FiniSelfDone, CallFiniProcess
<1>44. ASSUME UNCHANGED vars PROVE NodeInv'
  BY <1>44 DEF Alive, GetTn, Owner
<1> HIDE DEF TypeOK, NodeInv, ThreadInv, Owner, All, NoNode, Node,
         InBase, InExit, InHandler, At, Goto, ExitAt, ExitTo, CallFiniThread, Home,
         exitVars, listVars, flagVars, shootVars, vars
<1>45. ASSUME NEW t \in All, LibraryStep(t) PROVE NodeInv'
  BY <1>45, <1>4, <1>5, <1>6, <1>7, <1>8, <1>9, <1>10, <1>13, <1>14, <1>15, <1>21,
     <1>22, <1>26, <1>26m, <1>27, <1>30, <1>34, <1>35, <1>36, <1>37, <1>38, <1>39, <1>41,
     <1>42, <1>43, <1>31, <1>32, <1>33
     DEF LibraryStep, LockStep, StartStep, DoneStep
<1>46. ASSUME NEW t \in All, EnvironmentStep(t) PROVE NodeInv'
  BY <1>46, <1>3, <1>7, <1>12, <1>16, <1>24, <1>18, <1>19, <1>20, <1>23, <1>40,
     <1>11, <1>11c, <1>28, <1>25, <1>29 DEF EnvironmentStep
<1> QED
  BY <1>1, <1>2, <1>17, <1>44, <1>45, <1>46 DEF Next, Gone

\* Every step keeps SelfInv.
LEMMA SelfStep ==
  ASSUME TypeOK, ThreadInv, NodeInv, SelfInv, [Next]_vars
  PROVE  SelfInv'
<1> USE ThreadsAssumption, BoundsAssumption
    DEF TypeOK, SelfInv, ThreadInv, All, NoNode, Owner,
        InBase, InExit, InHandler, At, Goto, ExitAt, ExitTo, CallFiniThread, Home,
        exitVars, listVars, flagVars, shootVars, vars
<1>1. ASSUME MainStart PROVE SelfInv'
  BY <1>1 DEF MainStart
<1>2. ASSUME ThreadRelease PROVE SelfInv'
  BY <1>2 DEF ThreadRelease
<1>3. ASSUME NEW c \in All, NEW u \in Threads, PthreadCreate(c, u) PROVE SelfInv'
  BY <1>3 DEF PthreadCreate, ThreadListInit
<1>4. ASSUME NEW c \in All, ThreadSupportDone(c) PROVE SelfInv'
  BY <1>4 DEF ThreadSupportDone
<1>5. ASSUME NEW t \in All, LockStep(t) PROVE SelfInv'
  BY <1>5 DEF LockStep, AcquireThreadLock
<1>6. ASSUME NEW c \in All, MakeThreadNode(c) PROVE SelfInv'
  <2>1. /\ UNCHANGED <<thread_list>> /\ pc' = [pc EXCEPT ![c] = "create"] /\ tn \in [Node -> NodeFields]
        /\ child[c] \in Threads /\ pc[child[c]] = "reserved" /\ c # child[c] /\ pc[c] = "making"
    BY <1>6 DEF MakeThreadNode
  <2>2. PICK n \in Node : /\ n \in free_list \/ n >= tn_array + tn_array_pos
                         /\ tn' = [tn EXCEPT ![n] = ZeroNode]
                         /\ arg' = [arg EXCEPT ![child[c]] = n]
    BY ONLY TypeOK, c \in All, <1>6, NewNode
  <2>3. \A m \in Node : m # n => tn'[m] = tn[m]
    BY <2>1, <2>2, ZeroUpdate
  <2>4. n \notin thread_list
    BY <2>2 DEF NodeInv, Node
  <2>5. \A t \in Threads : pc'[t] \in {"link", "linking"} =>
          /\ pc[t] \in {"link", "linking"} /\ arg'[t] = arg[t] /\ arg[t] \in Node
    BY <2>1, <2>2
  <2>6. \A t \in Threads : pc[t] \in {"link", "linking"} => arg[t] # n
    BY <2>2 DEF NodeInv, Node
  <2> QED
    BY <2>1, <2>3, <2>4, <2>5, <2>6
<1>7. ASSUME NEW c \in All, NEW ok \in BOOLEAN, RealPthreadCreate(c, ok) PROVE SelfInv'
  BY <1>7 DEF RealPthreadCreate
<1>8. ASSUME NEW t \in All, BeginThread(t) PROVE SelfInv'
  <2>1. /\ tn' = [tn EXCEPT ![arg[t]].self = t] /\ tn \in [Node -> NodeFields]
        /\ UNCHANGED <<arg, thread_list>>
        /\ t \in Threads /\ pc[t] = "start" /\ pc' = [pc EXCEPT ![t] = "link"] /\ arg[t] \in Node
    BY <1>8 DEF BeginThread
  <2>2. \A n \in Node : tn'[n].self = IF n = arg[t] THEN t ELSE tn[n].self
    BY <2>1, SelfUpdate
  <2>3. \A u \in Threads : pc'[u] \in {"link", "linking"} /\ u # t
                           => /\ pc[u] \in {"link", "linking"} /\ arg[u] \in Node
                              /\ arg[u] # arg[t]
    BY <2>1 DEF NodeInv
  <2>4. \A n \in thread_list' : tn'[n].self \in Threads
    BY <2>1, <2>2
  <2>5. \A u \in Threads : pc'[u] \in {"link", "linking"} => tn'[arg[u]].self = u
    BY <2>1, <2>2, <2>3
  <2> QED
    BY <2>1, <2>4, <2>5
<1>9. ASSUME NEW t \in All, LinkThreadNode(t) PROVE SelfInv'
  BY <1>9 DEF LinkThreadNode, ListFixed
<1>10. ASSUME NEW t \in All, ApplStarted(t) PROVE SelfInv'
  <2>1. tn' = [tn EXCEPT ![arg[t]].appl_started = TRUE] /\ tn \in [Node -> NodeFields]
    BY <1>10 DEF ApplStarted
  <2>2. \A n \in Node : tn'[n].self = tn[n].self
    BY ONLY <2>1 DEF NodeFields
  <2> QED
    BY <1>10, <2>2 DEF ApplStarted
<1>11. ASSUME NEW t \in All, CancelEarly(t) PROVE SelfInv'
  BY <1>11 DEF CancelEarly
<1>11c. ASSUME NEW t \in All, CancelCleanup(t) PROVE SelfInv'
  BY <1>11c DEF CancelCleanup
<1>12. ASSUME NEW t \in All, CleanupCheck(t) PROVE SelfInv'
  BY <1>12 DEF CleanupCheck
<1>13. ASSUME NEW t \in All, StartStep(t) PROVE SelfInv'
  <2>1. tn' = [tn EXCEPT ![key[t]].fini_started = TRUE] /\ tn \in [Node -> NodeFields]
    BY <1>13 DEF StartStep, FiniThreadStart
  <2>2. \A n \in Node : tn'[n].self = tn[n].self
    BY ONLY <2>1 DEF NodeFields
  <2> QED
    BY <1>13, <2>2 DEF StartStep, FiniThreadStart
<1>14. ASSUME NEW t \in All, DoneStep(t) PROVE SelfInv'
  <2>1. tn' = [tn EXCEPT ![key[t]].fini_done = TRUE] /\ tn \in [Node -> NodeFields]
    BY <1>14 DEF DoneStep, FiniThreadDone
  <2>2. \A n \in Node : tn'[n].self = tn[n].self
    BY ONLY <2>1 DEF NodeFields
  <2> QED
    BY <1>14, <2>2 DEF DoneStep, FiniThreadDone
<1>15. ASSUME NEW t \in All, UnlinkThreadNode(t) PROVE SelfInv'
  <2>1. /\ UNCHANGED arg /\ pc' = [pc EXCEPT ![t] = "dead"] /\ tn \in [Node -> NodeFields]
        /\ t \in Threads /\ pc[t] = "unlinking" /\ arg[t] \in Node
    BY <1>15 DEF UnlinkThreadNode
  <2>2. CASE in_exit_cleanup
    <3>1. /\ tn' = [tn EXCEPT ![arg[t]].fini_started = TRUE, ![arg[t]].fini_done = TRUE]
          /\ thread_list' = thread_list
      BY <1>15, <2>2 DEF UnlinkThreadNode, ListFixed
    <3>2. \A n \in Node : tn'[n].self = tn[n].self
      BY ONLY <2>1, <3>1 DEF NodeFields
    <3> QED
      BY <2>1, <3>1, <3>2
  <2>3. CASE ~in_exit_cleanup
    <3>1. /\ tn' = [tn EXCEPT ![arg[t]] = ZeroNode]
          /\ thread_list' = thread_list \ {arg[t]}
      BY <1>15, <2>3 DEF UnlinkThreadNode, ListFixed
    <3>2. \A n \in Node : n # arg[t] => tn'[n] = tn[n]
      BY <2>1, <3>1, ZeroUpdate
    <3>3. \A u \in Threads : pc'[u] \in {"link", "linking"} =>
            pc[u] \in {"link", "linking"} /\ arg[u] \in Node /\ arg[u] # arg[t]
      BY <2>1 DEF NodeInv
    <3> QED
      BY <2>1, <3>1, <3>2, <3>3
  <2> QED
    BY <2>2, <2>3
<1>16. ASSUME NEW t \in All, RawReturn(t) PROVE SelfInv'
  BY <1>16 DEF RawReturn
<1>17. ASSUME LastThreadGone PROVE SelfInv'
  BY <1>17 DEF LastThreadGone
<1>18. ASSUME NEW t \in All, NEW on \in BOOLEAN, BlockShootdown(t, on) PROVE SelfInv'
  <2>1. tn' = [tn EXCEPT ![GetTn(t)].block_shootdown = on] /\ tn \in [Node -> NodeFields] /\ on \in BOOLEAN
    BY <1>18 DEF BlockShootdown
  <2>2. \A n \in Node : tn'[n].self = tn[n].self
    BY ONLY <2>1 DEF NodeFields
  <2> QED
    BY <1>18, <2>2 DEF BlockShootdown
<1>19. ASSUME NEW t \in All, NEW on \in BOOLEAN, IgnoreNewThreads(t, on) PROVE SelfInv'
  <2>1. tn' = [tn EXCEPT ![GetTn(t)].ignore_threads = on] /\ tn \in [Node -> NodeFields] /\ on \in BOOLEAN
    BY <1>19 DEF IgnoreNewThreads
  <2>2. \A n \in Node : tn'[n].self = tn[n].self
    BY ONLY <2>1 DEF NodeFields
  <2> QED
    BY <1>19, <2>2 DEF IgnoreNewThreads
<1>20. ASSUME NEW t \in All, ShootdownHandler(t) PROVE SelfInv'
  BY <1>20 DEF ShootdownHandler
<1>21. ASSUME NEW t \in All, HandlerFiniStart(t) PROVE SelfInv'
  <2>1. tn' = [tn EXCEPT ![key[t]].fini_started = TRUE] /\ tn \in [Node -> NodeFields]
    BY <1>21 DEF HandlerFiniStart
  <2>2. \A n \in Node : tn'[n].self = tn[n].self
    BY ONLY <2>1 DEF NodeFields
  <2> QED
    BY <1>21, <2>2 DEF HandlerFiniStart
<1>22. ASSUME NEW t \in All, HandlerFiniDone(t) PROVE SelfInv'
  <2>1. tn' = [tn EXCEPT ![key[t]].fini_done = TRUE] /\ tn \in [Node -> NodeFields]
    BY <1>22 DEF HandlerFiniDone
  <2>2. \A n \in Node : tn'[n].self = tn[n].self
    BY ONLY <2>1 DEF NodeFields
  <2> QED
    BY <1>22, <2>2 DEF HandlerFiniDone
<1>23. ASSUME NEW t \in All, SigwaitHelper(t) PROVE SelfInv'
  BY <1>23 DEF SigwaitHelper
<1>24. ASSUME NEW t \in All, NEW kind \in {"exit", "pthread_exit"}, CallExit(t, kind) PROVE SelfInv'
  BY <1>24 DEF CallExit
<1>25. ASSUME NEW t \in All, FatalSignal(t) PROVE SelfInv'
  BY <1>25 DEF FatalSignal
<1>26. ASSUME NEW t \in All, CasCookie(t) PROVE SelfInv'
  BY <1>26 DEF CasCookie, WinsCookie
<1>26m. ASSUME NEW t \in All, MarkExitWin(t) PROVE SelfInv'
  <2>1. tn' = tn \/ tn' = [tn EXCEPT ![GetTn(t)].exit_win = TRUE]
    BY <1>26m DEF MarkExitWin
  <2>2. tn \in [Node -> NodeFields]
    OBVIOUS
  <2>3. \A n \in Node : tn'[n].self = tn[n].self
    <3>1. CASE tn' = tn
      BY <3>1
    <3>2. CASE tn' = [tn EXCEPT ![GetTn(t)].exit_win = TRUE]
      BY ONLY <2>2, <3>2 DEF NodeFields
    <3> QED
      BY <2>1, <3>1, <3>2
  <2> QED
    BY <1>26m, <2>3 DEF MarkExitWin
<1>27. ASSUME NEW t \in All, LoserReleased(t) PROVE SelfInv'
  BY <1>27 DEF LoserReleased, CallbacksOver
<1>28. ASSUME NEW t \in All, CancelExit(t) PROVE SelfInv'
  BY <1>28 DEF CancelExit
<1>29. ASSUME NEW t \in All, ExitAgain(t) PROVE SelfInv'
  BY <1>29 DEF ExitAgain
<1>30. ASSUME NEW t \in All, BeginProcessExitDone(t) PROVE SelfInv'
  BY <1>30 DEF BeginProcessExitDone, CallFiniProcess
<1>31. ASSUME NEW t \in All, FiniProcessDone(t) PROVE SelfInv'
  BY <1>31 DEF FiniProcessDone
<1>32. ASSUME NEW t \in All, AfterEndProcess(t) PROVE SelfInv'
  BY <1>32 DEF AfterEndProcess
<1>33. ASSUME NEW t \in All, FiniLibraryDone(t) PROVE SelfInv'
  BY <1>33 DEF FiniLibraryDone
<1>34. ASSUME NEW t \in All, EnterExitCleanup(t) PROVE SelfInv'
  BY <1>34 DEF EnterExitCleanup
<1>35. ASSUME NEW t \in All, ScanNode(t) PROVE SelfInv'
  BY <1>35 DEF ScanNode
<1>36. ASSUME NEW t \in All, KillThread(t) PROVE SelfInv'
  BY <1>36 DEF KillThread
<1>37. ASSUME NEW t \in All, CheckFiniDone(t) PROVE SelfInv'
  BY <1>37 DEF CheckFiniDone
<1>38. ASSUME NEW t \in All, ScanFinished(t) PROVE SelfInv'
  BY <1>38 DEF ScanFinished, ScanOver
<1>39. ASSUME NEW t \in All, ScanAgain(t) PROVE SelfInv'
  BY <1>39 DEF ScanAgain
<1>40. ASSUME NEW t \in All, ScanTimeout(t) PROVE SelfInv'
  BY <1>40 DEF ScanTimeout, ScanOver
<1>41. ASSUME NEW t \in All, SetFiniThreadDone(t) PROVE SelfInv'
  BY <1>41 DEF SetFiniThreadDone
<1>42. ASSUME NEW t \in All, FiniSelf(t) PROVE SelfInv'
  <2>1. tn' = tn \/ tn' = [tn EXCEPT ![my_tn].fini_started = TRUE]
    BY <1>42 DEF FiniSelf, CallFiniProcess
  <2>2. tn \in [Node -> NodeFields]
    OBVIOUS
  <2>3. \A n \in Node : tn'[n].self = tn[n].self
    <3>1. CASE tn' = tn
      BY <3>1
    <3>2. CASE tn' = [tn EXCEPT ![my_tn].fini_started = TRUE]
      BY ONLY <2>2, <3>2 DEF NodeFields
    <3> QED
      BY <2>1, <3>1, <3>2
  <2> QED
    BY <1>42, <2>3 DEF FiniSelf, CallFiniProcess
<1>43. ASSUME NEW t \in All, FiniSelfDone(t) PROVE SelfInv'
  BY <1>43 DEF FiniSelfDone, CallFiniProcess
<1>44. ASSUME UNCHANGED vars PROVE SelfInv'
  BY <1>44 DEF Alive, GetTn, Owner
<1> HIDE DEF TypeOK, SelfInv, ThreadInv, All, NoNode, Owner,
         InBase, InExit, InHandler, At, Goto, ExitAt, ExitTo, CallFiniThread, Home,
         exitVars, listVars, flagVars, shootVars, vars
<1>45. ASSUME NEW t \in All, LibraryStep(t) PROVE SelfInv'
  BY <1>45, <1>4, <1>5, <1>6, <1>7, <1>8, <1>9, <1>10, <1>13, <1>14, <1>15, <1>21,
     <1>22, <1>26, <1>26m, <1>27, <1>30, <1>34, <1>35, <1>36, <1>37, <1>38, <1>39, <1>41,
     <1>42, <1>43, <1>31, <1>32, <1>33
     DEF LibraryStep, LockStep, StartStep, DoneStep
<1>46. ASSUME NEW t \in All, EnvironmentStep(t) PROVE SelfInv'
  BY <1>46, <1>3, <1>7, <1>12, <1>16, <1>24, <1>18, <1>19, <1>20, <1>23, <1>40,
     <1>11, <1>11c, <1>28, <1>25, <1>29 DEF EnvironmentStep
<1> QED
  BY <1>1, <1>2, <1>17, <1>44, <1>45, <1>46 DEF Next, Gone

\* Every step keeps ExitInv.
LEMMA ExitStep ==
  ASSUME TypeOK, ThreadInv, NodeInv, ExitInv, [Next]_vars
  PROVE  ExitInv'
<1> USE ThreadsAssumption, BoundsAssumption
    DEF TypeOK, ExitInv, Winner, Leaving, XPCs, All, GetTn, NodeFields, ZeroNode,
        NoNode,
        InBase, InExit, InHandler, At, Goto, ExitAt, ExitTo, CallFiniThread, Home,
        exitVars, listVars, flagVars, shootVars, vars
<1>1. ASSUME MainStart PROVE ExitInv'
  BY <1>1 DEF MainStart
<1>2. ASSUME ThreadRelease PROVE ExitInv'
  BY <1>2 DEF ThreadRelease
<1>3. ASSUME NEW c \in All, NEW u \in Threads, PthreadCreate(c, u) PROVE ExitInv'
  <2>1. UNCHANGED <<xpc, end_process_cookie, fini_process_calls, fini_process_done>>
    BY <1>3 DEF PthreadCreate
  <2>2. \A n \in Node : tn'[n].exit_win = tn[n].exit_win
    <3>1. tn' = tn \/ tn' = [tn EXCEPT ![MainTn].self = Main]
      BY <1>3 DEF PthreadCreate, ThreadListInit
    <3>2. tn \in [Node -> NodeFields]
      OBVIOUS
    <3> QED
      BY ONLY <3>1, <3>2 DEF NodeFields
  <2>3. \A t \in All : xpc[t] \in Winner => GetTn(t)' = GetTn(t)
    <3>1. CASE has_used_threads
      BY <1>3, <3>1 DEF PthreadCreate
    <3>2. CASE ~has_used_threads
      <4>1. key' = [key EXCEPT ![Main] = MainTn] /\ has_used_threads'
        BY <1>3, <3>2 DEF PthreadCreate, ThreadListInit
      <4>2. \A t \in All : xpc[t] \in Winner => t = Main
        BY <3>2 DEF ThreadInv, Alive
      <4> QED
        BY <3>2, <4>1, <4>2
    <3> QED
      BY <3>1, <3>2
  <2> QED
    BY <2>1, <2>2, <2>3
<1>4. ASSUME NEW c \in All, ThreadSupportDone(c) PROVE ExitInv'
  BY <1>4 DEF ThreadSupportDone
<1>5. ASSUME NEW t \in All, LockStep(t) PROVE ExitInv'
  BY <1>5 DEF LockStep, AcquireThreadLock
<1>6. ASSUME NEW c \in All, MakeThreadNode(c) PROVE ExitInv'
  BY <1>6 DEF MakeThreadNode, ArrayHasRoom, FreeListWithout
<1>7. ASSUME NEW c \in All, NEW ok \in BOOLEAN, RealPthreadCreate(c, ok) PROVE ExitInv'
  BY <1>7 DEF RealPthreadCreate
<1>8. ASSUME NEW t \in All, BeginThread(t) PROVE ExitInv'
  BY <1>8 DEF BeginThread
<1>9. ASSUME NEW t \in All, LinkThreadNode(t) PROVE ExitInv'
  BY <1>9 DEF LinkThreadNode, ListFixed
<1>10. ASSUME NEW t \in All, ApplStarted(t) PROVE ExitInv'
  BY <1>10 DEF ApplStarted
<1>11. ASSUME NEW t \in All, CancelEarly(t) PROVE ExitInv'
  BY <1>11 DEF CancelEarly
<1>11c. ASSUME NEW t \in All, CancelCleanup(t) PROVE ExitInv'
  BY <1>11c DEF CancelCleanup
<1>12. ASSUME NEW t \in All, CleanupCheck(t) PROVE ExitInv'
  BY <1>12 DEF CleanupCheck
<1>13. ASSUME NEW t \in All, StartStep(t) PROVE ExitInv'
  <2>1. /\ UNCHANGED <<xpc, end_process_cookie, fini_process_calls, fini_process_done>>
        /\ UNCHANGED <<key, has_used_threads>>
        /\ tn' = [tn EXCEPT ![key[t]].fini_started = TRUE] /\ tn \in [Node -> NodeFields]
    BY <1>13 DEF StartStep, FiniThreadStart
  <2>2. \A n \in Node : tn'[n].exit_win = tn[n].exit_win
    BY ONLY <2>1 DEF NodeFields
  <2> QED
    BY <2>1, <2>2
<1>14. ASSUME NEW t \in All, DoneStep(t) PROVE ExitInv'
  <2>1. /\ UNCHANGED <<xpc, end_process_cookie, fini_process_calls, fini_process_done>>
        /\ UNCHANGED <<key, has_used_threads>>
        /\ tn' = [tn EXCEPT ![key[t]].fini_done = TRUE] /\ tn \in [Node -> NodeFields]
    BY <1>14 DEF DoneStep, FiniThreadDone
  <2>2. \A n \in Node : tn'[n].exit_win = tn[n].exit_win
    BY ONLY <2>1 DEF NodeFields
  <2> QED
    BY <2>1, <2>2
<1>15. ASSUME NEW t \in All, UnlinkThreadNode(t) PROVE ExitInv'
  <2>1. /\ UNCHANGED <<xpc, end_process_cookie, fini_process_calls, fini_process_done>>
        /\ UNCHANGED <<key, has_used_threads>> /\ tn \in [Node -> NodeFields]
    BY <1>15 DEF UnlinkThreadNode
  <2>2. \/ tn' = [tn EXCEPT ![arg[t]].fini_started = TRUE, ![arg[t]].fini_done = TRUE]
        \/ tn' = [tn EXCEPT ![arg[t]] = ZeroNode]
    BY <1>15 DEF UnlinkThreadNode
  <2>3. \A n \in Node : tn'[n].exit_win => tn[n].exit_win
    <3>1. CASE tn' = [tn EXCEPT ![arg[t]].fini_started = TRUE, ![arg[t]].fini_done = TRUE]
      BY ONLY <2>1, <3>1 DEF NodeFields
    <3>2. CASE tn' = [tn EXCEPT ![arg[t]] = ZeroNode]
      BY ONLY <2>1, <3>2 DEF ZeroNode
    <3> QED
      BY <2>2, <3>1, <3>2
  <2> QED
    BY <2>1, <2>3
<1>16. ASSUME NEW t \in All, RawReturn(t) PROVE ExitInv'
  BY <1>16 DEF RawReturn
<1>17. ASSUME LastThreadGone PROVE ExitInv'
  BY <1>17 DEF LastThreadGone
<1>18. ASSUME NEW t \in All, NEW on \in BOOLEAN, BlockShootdown(t, on) PROVE ExitInv'
  BY <1>18 DEF BlockShootdown
<1>19. ASSUME NEW t \in All, NEW on \in BOOLEAN, IgnoreNewThreads(t, on) PROVE ExitInv'
  BY <1>19 DEF IgnoreNewThreads
<1>20. ASSUME NEW t \in All, ShootdownHandler(t) PROVE ExitInv'
  BY <1>20 DEF ShootdownHandler
<1>21. ASSUME NEW t \in All, HandlerFiniStart(t) PROVE ExitInv'
  BY <1>21 DEF HandlerFiniStart
<1>22. ASSUME NEW t \in All, HandlerFiniDone(t) PROVE ExitInv'
  BY <1>22 DEF HandlerFiniDone
<1>23. ASSUME NEW t \in All, SigwaitHelper(t) PROVE ExitInv'
  BY <1>23 DEF SigwaitHelper
<1>24. ASSUME NEW t \in All, NEW kind \in {"exit", "pthread_exit"}, CallExit(t, kind) PROVE ExitInv'
  BY <1>24 DEF CallExit
<1>25. ASSUME NEW t \in All, FatalSignal(t) PROVE ExitInv'
  BY <1>25 DEF FatalSignal
<1>26. ASSUME NEW t \in All, CasCookie(t) PROVE ExitInv'
  <2>1. UNCHANGED <<fini_process_calls, key, has_used_threads>> /\ xpc[t] = "cas"
    BY <1>26 DEF CasCookie
  <2>2. \A u \in All : GetTn(u)' = GetTn(u)
    BY <2>1
  <2>3. CASE end_process_cookie = 0
    <3>1. /\ end_process_cookie' = 1 /\ xpc' = [xpc EXCEPT ![t] = "won"] /\ UNCHANGED <<fini_process_done, tn>>
      BY <1>26, <2>3 DEF CasCookie, WinsCookie
    <3>2. \A n \in Node : ~tn'[n].exit_win
      BY <2>3, <3>1
    <3>3. \A u \in All : xpc'[u] \in Winner => u = t
      BY <2>3, <3>1
    <3>4. \A u \in All : xpc'[u] \notin Leaving
      BY <2>3, <3>1
    <3> QED
      BY <2>1, <2>2, <2>3, <3>1, <3>2, <3>3, <3>4
  <2>4. CASE end_process_cookie # 0 /\ GetTn(t) # NoNode /\ tn[GetTn(t)].exit_win
    <3>1. UNCHANGED <<end_process_cookie, tn>> /\ fini_process_done' /\ xpc' = [xpc EXCEPT ![t] = "done"]
      BY <1>26, <2>4 DEF CasCookie, WinsCookie
    <3>2. \A u \in All : xpc[u] \in Winner => u # t /\ GetTn(u) = GetTn(t)
      <4>1. GetTn(t) \in Node
        BY <2>4, <1>26, MainTnIsNode
      <4> QED
        BY <2>1, <2>4, <4>1
    <3>3. \A u \in All : xpc[u] \notin Winner
      <4>1. \A u \in All : xpc[u] \in Winner => xpc[u] # "none"
        OBVIOUS
      <4>2. xpc[t] # "none"
        BY <2>1
      <4> QED
        BY <2>4, <3>2, <4>1, <4>2, OwnTn
    <3>4. \A u \in All : xpc'[u] \notin Winner
      BY <3>1, <3>3
    <3> QED
      BY <2>1, <2>4, <3>1, <3>4
  <2>5. CASE end_process_cookie # 0 /\ ~(GetTn(t) # NoNode /\ tn[GetTn(t)].exit_win)
    <3>1. UNCHANGED <<end_process_cookie, tn, fini_process_done>> /\ xpc' = [xpc EXCEPT ![t] = "wait"]
      BY <1>26, <2>5 DEF CasCookie, WinsCookie
    <3> QED
      BY <2>1, <2>2, <3>1
  <2> QED
    BY <2>3, <2>4, <2>5
<1>26m. ASSUME NEW t \in All, MarkExitWin(t) PROVE ExitInv'
  <2>1. /\ UNCHANGED <<exitVars, fini_process_calls, key, has_used_threads>>
        /\ xpc[t] = "won" /\ xpc' = [xpc EXCEPT ![t] = "begin"]
        /\ tn' = IF GetTn(t) = NoNode THEN tn ELSE [tn EXCEPT ![GetTn(t)].exit_win = TRUE]
    BY <1>26m DEF MarkExitWin
  <2>2. \A u \in All : GetTn(u)' = GetTn(u)
    BY <2>1
  <2>3. /\ \A u \in All : xpc[u] \in Winner => u = t
        /\ \A u \in All : xpc'[u] \in Winner => u = t
        /\ \A u \in All : xpc'[u] \in Leaving => xpc[u] \in Leaving
    BY <2>1
  <2>4. \A n \in Node : tn'[n].exit_win => GetTn(t) = n
    BY <2>1
  <2>5. end_process_cookie # 0
    BY <2>1
  <2> QED
    BY <2>1, <2>2, <2>3, <2>4, <2>5
<1>27. ASSUME NEW t \in All, LoserReleased(t) PROVE ExitInv'
  BY <1>27 DEF LoserReleased, CallbacksOver
<1>28. ASSUME NEW t \in All, CancelExit(t) PROVE ExitInv'
  BY <1>28 DEF CancelExit
<1>29. ASSUME NEW t \in All, ExitAgain(t) PROVE ExitInv'
  BY <1>29 DEF ExitAgain
<1>30. ASSUME NEW t \in All, BeginProcessExitDone(t) PROVE ExitInv'
  <2>1. /\ UNCHANGED <<end_process_cookie, fini_process_done, tn, key, has_used_threads>>
        /\ xpc[t] = "begin"
    BY <1>30 DEF BeginProcessExitDone
  <2>2. CASE xpc' = [xpc EXCEPT ![t] = "sdlock"] /\ UNCHANGED fini_process_calls
    BY <2>1, <2>2
  <2>3. CASE xpc' = [xpc EXCEPT ![t] = "fini"] /\ fini_process_calls' = fini_process_calls + 1
    BY <2>1, <2>3
  <2> QED
    BY <1>30, <2>2, <2>3 DEF BeginProcessExitDone, CallFiniProcess
<1>31. ASSUME NEW t \in All, FiniProcessDone(t) PROVE ExitInv'
  BY <1>31 DEF FiniProcessDone
<1>32. ASSUME NEW t \in All, AfterEndProcess(t) PROVE ExitInv'
  BY <1>32 DEF AfterEndProcess
<1>33. ASSUME NEW t \in All, FiniLibraryDone(t) PROVE ExitInv'
  BY <1>33 DEF FiniLibraryDone
<1>34. ASSUME NEW t \in All, EnterExitCleanup(t) PROVE ExitInv'
  BY <1>34 DEF EnterExitCleanup
<1>35. ASSUME NEW t \in All, ScanNode(t) PROVE ExitInv'
  BY <1>35 DEF ScanNode
<1>36. ASSUME NEW t \in All, KillThread(t) PROVE ExitInv'
  BY <1>36 DEF KillThread
<1>37. ASSUME NEW t \in All, CheckFiniDone(t) PROVE ExitInv'
  BY <1>37 DEF CheckFiniDone
<1>38. ASSUME NEW t \in All, ScanFinished(t) PROVE ExitInv'
  BY <1>38 DEF ScanFinished, ScanOver
<1>39. ASSUME NEW t \in All, ScanAgain(t) PROVE ExitInv'
  BY <1>39 DEF ScanAgain
<1>40. ASSUME NEW t \in All, ScanTimeout(t) PROVE ExitInv'
  BY <1>40 DEF ScanTimeout, ScanOver
<1>41. ASSUME NEW t \in All, SetFiniThreadDone(t) PROVE ExitInv'
  BY <1>41 DEF SetFiniThreadDone
<1>42. ASSUME NEW t \in All, FiniSelf(t) PROVE ExitInv'
  BY <1>42 DEF FiniSelf, CallFiniProcess
<1>43. ASSUME NEW t \in All, FiniSelfDone(t) PROVE ExitInv'
  BY <1>43 DEF FiniSelfDone, CallFiniProcess
<1>44. ASSUME UNCHANGED vars PROVE ExitInv'
  BY <1>44 DEF Alive, GetTn, Owner
<1> HIDE DEF TypeOK, ExitInv, Winner, Leaving, XPCs, All, GetTn, NodeFields, ZeroNode,
         NoNode,
         InBase, InExit, InHandler, At, Goto, ExitAt, ExitTo, CallFiniThread, Home,
         exitVars, listVars, flagVars, shootVars, vars
<1>45. ASSUME NEW t \in All, LibraryStep(t) PROVE ExitInv'
  BY <1>45, <1>4, <1>5, <1>6, <1>7, <1>8, <1>9, <1>10, <1>13, <1>14, <1>15, <1>21,
     <1>22, <1>26, <1>26m, <1>27, <1>30, <1>34, <1>35, <1>36, <1>37, <1>38, <1>39, <1>41,
     <1>42, <1>43, <1>31, <1>32, <1>33
     DEF LibraryStep, LockStep, StartStep, DoneStep
<1>46. ASSUME NEW t \in All, EnvironmentStep(t) PROVE ExitInv'
  BY <1>46, <1>3, <1>7, <1>12, <1>16, <1>24, <1>18, <1>19, <1>20, <1>23, <1>40,
     <1>11, <1>11c, <1>28, <1>25, <1>29 DEF EnvironmentStep
<1> QED
  BY <1>1, <1>2, <1>17, <1>44, <1>45, <1>46 DEF Next, Gone

\* Every step keeps CleanupInv.
LEMMA CleanupStep ==
  ASSUME TypeOK, ThreadInv, ExitInv, CleanupInv, [Next]_vars
  PROVE  CleanupInv'
<1> USE ThreadsAssumption, BoundsAssumption
    DEF TypeOK, CleanupInv, Winner, All, XPCs,
        InBase, InExit, InHandler, At, Goto, ExitAt, ExitTo, CallFiniThread, Home,
        exitVars, listVars, flagVars, shootVars, vars
<1>1. ASSUME MainStart PROVE CleanupInv'
  BY <1>1 DEF MainStart
<1>2. ASSUME ThreadRelease PROVE CleanupInv'
  BY <1>2 DEF ThreadRelease
<1>3. ASSUME NEW c \in All, NEW u \in Threads, PthreadCreate(c, u) PROVE CleanupInv'
  BY <1>3 DEF PthreadCreate, ThreadListInit
<1>4. ASSUME NEW c \in All, ThreadSupportDone(c) PROVE CleanupInv'
  BY <1>4 DEF ThreadSupportDone
<1>5. ASSUME NEW t \in All, LockStep(t) PROVE CleanupInv'
  BY <1>5 DEF LockStep, AcquireThreadLock
<1>6. ASSUME NEW c \in All, MakeThreadNode(c) PROVE CleanupInv'
  BY <1>6 DEF MakeThreadNode, ArrayHasRoom, FreeListWithout
<1>7. ASSUME NEW c \in All, NEW ok \in BOOLEAN, RealPthreadCreate(c, ok) PROVE CleanupInv'
  BY <1>7 DEF RealPthreadCreate
<1>8. ASSUME NEW t \in All, BeginThread(t) PROVE CleanupInv'
  BY <1>8 DEF BeginThread
<1>9. ASSUME NEW t \in All, LinkThreadNode(t) PROVE CleanupInv'
  BY <1>9 DEF LinkThreadNode, ListFixed
<1>10. ASSUME NEW t \in All, ApplStarted(t) PROVE CleanupInv'
  BY <1>10 DEF ApplStarted
<1>11. ASSUME NEW t \in All, CancelEarly(t) PROVE CleanupInv'
  BY <1>11 DEF CancelEarly
<1>11c. ASSUME NEW t \in All, CancelCleanup(t) PROVE CleanupInv'
  BY <1>11c DEF CancelCleanup
<1>12. ASSUME NEW t \in All, CleanupCheck(t) PROVE CleanupInv'
  BY <1>12 DEF CleanupCheck
<1>13. ASSUME NEW t \in All, StartStep(t) PROVE CleanupInv'
  BY <1>13 DEF StartStep, FiniThreadStart
<1>14. ASSUME NEW t \in All, DoneStep(t) PROVE CleanupInv'
  BY <1>14 DEF DoneStep, FiniThreadDone
<1>15. ASSUME NEW t \in All, UnlinkThreadNode(t) PROVE CleanupInv'
  BY <1>15 DEF UnlinkThreadNode, ListFixed
<1>16. ASSUME NEW t \in All, RawReturn(t) PROVE CleanupInv'
  BY <1>16 DEF RawReturn
<1>17. ASSUME LastThreadGone PROVE CleanupInv'
  BY <1>17 DEF LastThreadGone
<1>18. ASSUME NEW t \in All, NEW on \in BOOLEAN, BlockShootdown(t, on) PROVE CleanupInv'
  BY <1>18 DEF BlockShootdown
<1>19. ASSUME NEW t \in All, NEW on \in BOOLEAN, IgnoreNewThreads(t, on) PROVE CleanupInv'
  BY <1>19 DEF IgnoreNewThreads
<1>20. ASSUME NEW t \in All, ShootdownHandler(t) PROVE CleanupInv'
  BY <1>20 DEF ShootdownHandler
<1>21. ASSUME NEW t \in All, HandlerFiniStart(t) PROVE CleanupInv'
  BY <1>21 DEF HandlerFiniStart
<1>22. ASSUME NEW t \in All, HandlerFiniDone(t) PROVE CleanupInv'
  BY <1>22 DEF HandlerFiniDone
<1>23. ASSUME NEW t \in All, SigwaitHelper(t) PROVE CleanupInv'
  BY <1>23 DEF SigwaitHelper
<1>24. ASSUME NEW t \in All, NEW kind \in {"exit", "pthread_exit"}, CallExit(t, kind) PROVE CleanupInv'
  BY <1>24 DEF CallExit
<1>25. ASSUME NEW t \in All, FatalSignal(t) PROVE CleanupInv'
  BY <1>25 DEF FatalSignal
<1>26. ASSUME NEW t \in All, CasCookie(t) PROVE CleanupInv'
  BY <1>26 DEF CasCookie, WinsCookie
<1>26m. ASSUME NEW t \in All, MarkExitWin(t) PROVE CleanupInv'
  BY <1>26m DEF MarkExitWin
<1>27. ASSUME NEW t \in All, LoserReleased(t) PROVE CleanupInv'
  BY <1>27 DEF LoserReleased, CallbacksOver
<1>28. ASSUME NEW t \in All, CancelExit(t) PROVE CleanupInv'
  BY <1>28 DEF CancelExit
<1>29. ASSUME NEW t \in All, ExitAgain(t) PROVE CleanupInv'
  BY <1>29 DEF ExitAgain
<1>30. ASSUME NEW t \in All, BeginProcessExitDone(t) PROVE CleanupInv'
  BY <1>30 DEF BeginProcessExitDone, CallFiniProcess
<1>31. ASSUME NEW t \in All, FiniProcessDone(t) PROVE CleanupInv'
  BY <1>31 DEF FiniProcessDone
<1>32. ASSUME NEW t \in All, AfterEndProcess(t) PROVE CleanupInv'
  BY <1>32 DEF AfterEndProcess
<1>33. ASSUME NEW t \in All, FiniLibraryDone(t) PROVE CleanupInv'
  BY <1>33 DEF FiniLibraryDone
<1>34. ASSUME NEW t \in All, EnterExitCleanup(t) PROVE CleanupInv'
  BY <1>34 DEF EnterExitCleanup
<1>35. ASSUME NEW t \in All, ScanNode(t) PROVE CleanupInv'
  BY <1>35 DEF ScanNode, ExitInv
<1>36. ASSUME NEW t \in All, KillThread(t) PROVE CleanupInv'
  BY <1>36 DEF KillThread
<1>37. ASSUME NEW t \in All, CheckFiniDone(t) PROVE CleanupInv'
  BY <1>37 DEF CheckFiniDone, ExitInv
<1>38. ASSUME NEW t \in All, ScanFinished(t) PROVE CleanupInv'
  BY <1>38 DEF ScanFinished, ScanOver, ExitInv
<1>39. ASSUME NEW t \in All, ScanAgain(t) PROVE CleanupInv'
  BY <1>39 DEF ScanAgain
<1>40. ASSUME NEW t \in All, ScanTimeout(t) PROVE CleanupInv'
  BY <1>40 DEF ScanTimeout, ScanOver, ExitInv
<1>41. ASSUME NEW t \in All, SetFiniThreadDone(t) PROVE CleanupInv'
  BY <1>41 DEF SetFiniThreadDone
<1>42. ASSUME NEW t \in All, FiniSelf(t) PROVE CleanupInv'
  BY <1>42 DEF FiniSelf, CallFiniProcess
<1>43. ASSUME NEW t \in All, FiniSelfDone(t) PROVE CleanupInv'
  BY <1>43 DEF FiniSelfDone, CallFiniProcess
<1>44. ASSUME UNCHANGED vars PROVE CleanupInv'
  BY <1>44 DEF Alive, GetTn, Owner
<1> HIDE DEF TypeOK, CleanupInv, Winner, All, XPCs,
         InBase, InExit, InHandler, At, Goto, ExitAt, ExitTo, CallFiniThread, Home,
         exitVars, listVars, flagVars, shootVars, vars
<1>45. ASSUME NEW t \in All, LibraryStep(t) PROVE CleanupInv'
  BY <1>45, <1>4, <1>5, <1>6, <1>7, <1>8, <1>9, <1>10, <1>13, <1>14, <1>15, <1>21,
     <1>22, <1>26, <1>26m, <1>27, <1>30, <1>34, <1>35, <1>36, <1>37, <1>38, <1>39, <1>41,
     <1>42, <1>43, <1>31, <1>32, <1>33
     DEF LibraryStep, LockStep, StartStep, DoneStep
<1>46. ASSUME NEW t \in All, EnvironmentStep(t) PROVE CleanupInv'
  BY <1>46, <1>3, <1>7, <1>12, <1>16, <1>24, <1>18, <1>19, <1>20, <1>23, <1>40,
     <1>11, <1>11c, <1>28, <1>25, <1>29 DEF EnvironmentStep
<1> QED
  BY <1>1, <1>2, <1>17, <1>44, <1>45, <1>46 DEF Next, Gone

\* The inductive invariant.
IInv == TypeOK /\ ThreadInv /\ NodeInv /\ SelfInv /\ ExitInv /\ CleanupInv

\* The invariant holds when the process starts.
LEMMA InitIInv ==
  ASSUME Init
  PROVE  IInv
<1> USE ThreadsAssumption, BoundsAssumption, MainTnIsNode DEF Init, All, NoNode
<1>1. TypeOK
  <2>1. tn \in [Node -> NodeFields] /\ 1 \in Node
    BY DEF NodeFields, ZeroNode, Node
  <2>2. /\ pc \in [All -> PCs] /\ xpc \in [All -> XPCs] /\ hpc \in [All -> HPCs]
        /\ xkind \in [All -> {"none", "exit", "pthread_exit", "signal", "again"}]
    BY DEF PCs, XPCs, HPCs
  <2>3. /\ key \in [All -> Node \cup {NoNode}] /\ arg \in [All -> Node \cup {NoNode}]
        /\ child \in [All -> Threads \cup {NoThread}] /\ fini_thread_calls \in [All -> Nat]
    OBVIOUS
  <2>4. /\ scan \in [started : Nat, unstarted : Nat, unfinished : Nat]
        /\ tn_array \in Node /\ tn_array_pos \in 0 .. ArraySize
    BY <2>1 DEF ZeroScan
  <2> QED
    BY <2>1, <2>2, <2>3, <2>4 DEF TypeOK
<1>2. ThreadInv
  BY DEF ThreadInv
<1>3. NodeInv
  BY DEF NodeInv, Owner
<1>4. SelfInv
  BY DEF SelfInv
<1>5. ExitInv
  BY DEF ExitInv, Winner, Leaving, ZeroNode
<1>6. CleanupInv
  BY DEF CleanupInv, Winner
<1> QED
  BY <1>1, <1>2, <1>3, <1>4, <1>5, <1>6 DEF IInv

\* The invariant holds in every state of every behaviour.
THEOREM Inductive == Spec => []IInv
<1>1. Init => IInv
  BY InitIInv
<1>2. IInv /\ [Next]_vars => IInv'
  BY TypeStep, ThreadStep, NodeStep, SelfStep, ExitStep, CleanupStep DEF IInv
<1> QED
  BY <1>1, <1>2, PTL DEF Spec

\* Every variable keeps its type: the node array's position never passes the
\* array's end, and every pointer is NULL or points to a node.
THEOREM TypeCorrect == Spec => []TypeOK
<1>1. IInv => TypeOK
  BY DEF IInv
<1> QED
  BY <1>1, Inductive, PTL

\* No node is shared or freed under its owner, for any number of threads and any
\* interleaving of pthread_create, thread begin and thread end.
THEOREM NodesNeverShared == Spec => []NodesNotShared
<1>1. IInv => NodesNotShared
  BY DEF IInv, NodeInv, NodesNotShared, Owner, All, MainTn
<1> QED
  BY <1>1, Inductive, PTL

\* monitor_fini_process is called at most once, by the one thread that won the
\* cookie, also when the winner exits again or dies in a callback.
THEOREM FiniProcessOnce == Spec => []OneFiniProcess
<1>1. IInv => OneFiniProcess
  BY DEF IInv, ExitInv, OneFiniProcess
<1> QED
  BY <1>1, Inductive, PTL

\* No thread leaves monitor_end_process_fcn while another runs its callbacks.
THEOREM NobodyLeavesEarly == Spec => []CallbacksBeforeExit
<1>1. IInv => CallbacksBeforeExit
  BY DEF IInv, ExitInv, CallbacksBeforeExit
<1> QED
  BY <1>1, Inductive, PTL

\* Every step keeps the list and the flag once exit cleanup has begun.
LEMMA FrozenStep ==
  ASSUME TypeOK, CleanupInv, in_exit_cleanup, [Next]_vars
  PROVE  UNCHANGED <<thread_list, in_exit_cleanup>>
<1> DEFINE Kept == UNCHANGED <<thread_list, in_exit_cleanup>>
<1> USE DEF vars, listVars
<1>1. ASSUME MainStart PROVE Kept
  BY <1>1 DEF MainStart
<1>2. ASSUME ThreadRelease PROVE Kept
  BY <1>2 DEF ThreadRelease
<1>3. ASSUME NEW c \in All, NEW u \in Threads, PthreadCreate(c, u) PROVE Kept
  BY <1>3 DEF PthreadCreate, CleanupInv
<1>4. ASSUME NEW c \in All, ThreadSupportDone(c) PROVE Kept
  BY <1>4 DEF ThreadSupportDone
<1>5. ASSUME NEW t \in All, LockStep(t) PROVE Kept
  BY <1>5 DEF LockStep, AcquireThreadLock
<1>6. ASSUME NEW c \in All, MakeThreadNode(c) PROVE Kept
  BY <1>6 DEF MakeThreadNode
<1>7. ASSUME NEW c \in All, NEW ok \in BOOLEAN, RealPthreadCreate(c, ok) PROVE Kept
  BY <1>7 DEF RealPthreadCreate
<1>8. ASSUME NEW t \in All, BeginThread(t) PROVE Kept
  BY <1>8 DEF BeginThread
<1>9. ASSUME NEW t \in All, LinkThreadNode(t) PROVE Kept
  BY <1>9 DEF LinkThreadNode, ListFixed
<1>10. ASSUME NEW t \in All, ApplStarted(t) PROVE Kept
  BY <1>10 DEF ApplStarted
<1>11. ASSUME NEW t \in All, CancelEarly(t) PROVE Kept
  BY <1>11 DEF CancelEarly
<1>11c. ASSUME NEW t \in All, CancelCleanup(t) PROVE Kept
  BY <1>11c DEF CancelCleanup
<1>12. ASSUME NEW t \in All, CleanupCheck(t) PROVE Kept
  BY <1>12 DEF CleanupCheck
<1>13. ASSUME NEW t \in All, StartStep(t) PROVE Kept
  BY <1>13 DEF StartStep, FiniThreadStart
<1>14. ASSUME NEW t \in All, DoneStep(t) PROVE Kept
  BY <1>14 DEF DoneStep, FiniThreadDone
<1>15. ASSUME NEW t \in All, UnlinkThreadNode(t) PROVE Kept
  BY <1>15 DEF UnlinkThreadNode, ListFixed
<1>16. ASSUME NEW t \in All, RawReturn(t) PROVE Kept
  BY <1>16 DEF RawReturn
<1>17. ASSUME LastThreadGone PROVE Kept
  BY <1>17 DEF LastThreadGone
<1>18. ASSUME NEW t \in All, NEW on \in BOOLEAN, BlockShootdown(t, on) PROVE Kept
  BY <1>18 DEF BlockShootdown
<1>19. ASSUME NEW t \in All, NEW on \in BOOLEAN, IgnoreNewThreads(t, on) PROVE Kept
  BY <1>19 DEF IgnoreNewThreads
<1>20. ASSUME NEW t \in All, ShootdownHandler(t) PROVE Kept
  BY <1>20 DEF ShootdownHandler
<1>21. ASSUME NEW t \in All, HandlerFiniStart(t) PROVE Kept
  BY <1>21 DEF HandlerFiniStart
<1>22. ASSUME NEW t \in All, HandlerFiniDone(t) PROVE Kept
  BY <1>22 DEF HandlerFiniDone
<1>23. ASSUME NEW t \in All, SigwaitHelper(t) PROVE Kept
  BY <1>23 DEF SigwaitHelper
<1>24. ASSUME NEW t \in All, NEW kind \in {"exit", "pthread_exit"}, CallExit(t, kind) PROVE Kept
  BY <1>24 DEF CallExit
<1>25. ASSUME NEW t \in All, FatalSignal(t) PROVE Kept
  BY <1>25 DEF FatalSignal
<1>26. ASSUME NEW t \in All, CasCookie(t) PROVE Kept
  BY <1>26 DEF CasCookie
<1>26m. ASSUME NEW t \in All, MarkExitWin(t) PROVE Kept
  BY <1>26m DEF MarkExitWin
<1>27. ASSUME NEW t \in All, LoserReleased(t) PROVE Kept
  BY <1>27 DEF LoserReleased
<1>28. ASSUME NEW t \in All, CancelExit(t) PROVE Kept
  BY <1>28 DEF CancelExit
<1>29. ASSUME NEW t \in All, ExitAgain(t) PROVE Kept
  BY <1>29 DEF ExitAgain
<1>30. ASSUME NEW t \in All, BeginProcessExitDone(t) PROVE Kept
  BY <1>30 DEF BeginProcessExitDone
<1>31. ASSUME NEW t \in All, FiniProcessDone(t) PROVE Kept
  BY <1>31 DEF FiniProcessDone
<1>32. ASSUME NEW t \in All, AfterEndProcess(t) PROVE Kept
  BY <1>32 DEF AfterEndProcess
<1>33. ASSUME NEW t \in All, FiniLibraryDone(t) PROVE Kept
  BY <1>33 DEF FiniLibraryDone
<1>34. ASSUME NEW t \in All, EnterExitCleanup(t) PROVE Kept
  BY <1>34 DEF EnterExitCleanup
<1>35. ASSUME NEW t \in All, ScanNode(t) PROVE Kept
  BY <1>35 DEF ScanNode
<1>36. ASSUME NEW t \in All, KillThread(t) PROVE Kept
  BY <1>36 DEF KillThread
<1>37. ASSUME NEW t \in All, CheckFiniDone(t) PROVE Kept
  BY <1>37 DEF CheckFiniDone
<1>38. ASSUME NEW t \in All, ScanFinished(t) PROVE Kept
  BY <1>38 DEF ScanFinished
<1>39. ASSUME NEW t \in All, ScanAgain(t) PROVE Kept
  BY <1>39 DEF ScanAgain
<1>40. ASSUME NEW t \in All, ScanTimeout(t) PROVE Kept
  BY <1>40 DEF ScanTimeout
<1>41. ASSUME NEW t \in All, SetFiniThreadDone(t) PROVE Kept
  BY <1>41 DEF SetFiniThreadDone
<1>42. ASSUME NEW t \in All, FiniSelf(t) PROVE Kept
  BY <1>42 DEF FiniSelf
<1>43. ASSUME NEW t \in All, FiniSelfDone(t) PROVE Kept
  BY <1>43 DEF FiniSelfDone
<1>44. ASSUME UNCHANGED vars PROVE Kept
  BY <1>44
<1> HIDE DEF Kept, vars, listVars
<1>45. ASSUME NEW t \in All, LibraryStep(t) PROVE Kept
  BY <1>45, <1>4, <1>5, <1>6, <1>7, <1>8, <1>9, <1>10, <1>13, <1>14, <1>15, <1>21,
     <1>22, <1>26, <1>26m, <1>27, <1>30, <1>34, <1>35, <1>36, <1>37, <1>38, <1>39, <1>41,
     <1>42, <1>43, <1>31, <1>32, <1>33
     DEF LibraryStep, LockStep, StartStep, DoneStep
<1>46. ASSUME NEW t \in All, EnvironmentStep(t) PROVE Kept
  BY <1>46, <1>3, <1>7, <1>12, <1>16, <1>24, <1>18, <1>19, <1>20, <1>23, <1>40,
     <1>11, <1>11c, <1>28, <1>25, <1>29 DEF EnvironmentStep
<1>47. Kept
  BY <1>1, <1>2, <1>17, <1>44, <1>45, <1>46 DEF Next, Gone
<1> QED
  BY <1>47 DEF Kept

\* Once exit cleanup has begun, nothing is linked or unlinked and the flag stays:
\* the shooter may walk the list without the lock.
THEOREM ListNeverChanges == Spec => ListFrozen
<1>1. IInv /\ [Next]_vars => [in_exit_cleanup => UNCHANGED <<thread_list, in_exit_cleanup>>]_vars
  BY FrozenStep DEF IInv
<1> QED
  BY <1>1, Inductive, PTL DEF Spec, ListFrozen

-----------------------------------------------------------------------------
(* The shootdown reaches every thread *)

\* The points at which the walk over the list is going on.
Walk == {"scan", "kill", "chkdone"}

\* What a shootdown that has ended leaves.
Complete == timed_out \/ \A n \in live_at_exit : tn[n].fini_done

\* Exit cleanup begins once. The threads it found running stay on the list and are
\* not the winner's own, and one that the walk has visited is finished, or counted as
\* unfinished, or about to be tested.
ScanInv ==
  /\ end_process_cookie = 0 => ~in_exit_cleanup /\ ~fini_thread_done
  /\ \A t \in All : xpc[t] \in {"won", "begin", "sdlock"} => ~in_exit_cleanup /\ ~fini_thread_done
  /\ ~in_exit_cleanup => live_at_exit = {}
  /\ live_at_exit \subseteq thread_list
  /\ \A n \in live_at_exit : tn[n].appl_started
  /\ \A t \in All : xpc[t] \in Walk => \A n \in live_at_exit : tn[n].self # t
  /\ \A t \in All : xpc[t] \in Walk => \A n \in live_at_exit \cap visited :
        tn[n].fini_done \/ scan.unfinished > 0 \/ (n = cur /\ xpc[t] # "scan")
  /\ \A t \in All : xpc[t] = "shot" => Complete
  /\ fini_thread_done => Complete

\* What a step away from the walk keeps of the nodes on the list.
NodesKept ==
  \A n \in thread_list :
    /\ tn[n].appl_started => tn'[n].appl_started
    /\ tn[n].fini_done => tn'[n].fini_done
    /\ \A t \in All : xpc[t] \in Walk /\ tn[n].self # t => tn'[n].self # t

\* A step that neither begins the end of the process nor takes part in the walk.
Quiet ==
  /\ UNCHANGED <<end_process_cookie, in_exit_cleanup, fini_thread_done, visited, cur, scan,
                 timed_out, live_at_exit>>
  /\ \A t \in All : xpc'[t] = xpc[t] \/ xpc'[t] \notin {"won", "begin", "sdlock", "shot"} \cup Walk
  /\ in_exit_cleanup => thread_list' = thread_list /\ NodesKept

\* Such a step keeps ScanInv.
LEMMA QuietKeeps ==
  ASSUME ScanInv, Quiet
  PROVE  ScanInv'
<1> USE DEF ScanInv, Quiet
<1>1. CASE ~in_exit_cleanup
  <2>1. live_at_exit' = {} /\ ~in_exit_cleanup'
    BY <1>1
  <2>2. Complete'
    BY <2>1 DEF Complete
  <2> QED
    BY <1>1, <2>1, <2>2
<1>2. CASE in_exit_cleanup
  <2>1. /\ in_exit_cleanup' /\ live_at_exit' = live_at_exit /\ thread_list' = thread_list
        /\ visited' = visited /\ scan' = scan /\ cur' = cur
    BY <1>2
  <2>2. \A n \in live_at_exit : /\ tn'[n].appl_started
                                /\ tn[n].fini_done => tn'[n].fini_done
    BY <1>2 DEF NodesKept
  <2>3. Complete => Complete'
    BY <2>1, <2>2 DEF Complete
  <2>4. \A t \in All : xpc'[t] \in Walk => xpc[t] = xpc'[t] /\ \A n \in live_at_exit : tn'[n].self # t
    BY <1>2 DEF NodesKept
  <2>5. \A t \in All : xpc'[t] \in Walk => \A n \in live_at_exit \cap visited :
          tn'[n].fini_done \/ scan.unfinished > 0 \/ (n = cur /\ xpc'[t] # "scan")
    BY <2>2, <2>4
  <2>6. \A t \in All : xpc'[t] \in {"won", "begin", "sdlock", "shot"} => xpc[t] = xpc'[t]
    OBVIOUS
  <2> QED
    BY <1>2, <2>1, <2>2, <2>3, <2>4, <2>5, <2>6
<1> QED
  BY <1>1, <1>2

\* Every step keeps ScanInv.
LEMMA ScanStep ==
  ASSUME IInv, ScanInv, [Next]_vars
  PROVE  ScanInv'
<1>0. /\ TypeOK /\ ExitInv /\ CleanupInv /\ NodeInv
      /\ tn \in [Node -> NodeFields] /\ xpc \in [All -> XPCs] /\ thread_list \subseteq Node
      /\ key \in [All -> Node \cup {NoNode}] /\ scan.unfinished \in Nat
  BY DEF IInv, TypeOK
<1>a. in_exit_cleanup => thread_list' = thread_list /\ in_exit_cleanup' = in_exit_cleanup
  BY <1>0, FrozenStep
<1> DEFINE Same == UNCHANGED <<end_process_cookie, in_exit_cleanup, fini_thread_done, visited, cur, scan,
                               timed_out, live_at_exit>>
<1> USE DEF vars, exitVars, listVars, flagVars, shootVars
\* steps that change neither a node nor the exit frame
<1>b. ASSUME Same, UNCHANGED <<tn, xpc>> PROVE ScanInv'
  BY <1>a, <1>b, QuietKeeps DEF Quiet, NodesKept
\* steps that change the exit frame of one thread, to a point outside the walk
<1>c. ASSUME Same, UNCHANGED tn, NEW t \in All, NEW to \in {"none", "cas", "wait", "done", "lib", "fini", "selffini"},
             xpc' = [xpc EXCEPT ![t] = to]
      PROVE  ScanInv'
  BY <1>0, <1>a, <1>c, QuietKeeps DEF Quiet, NodesKept, Walk
\* steps that change fields of one node
<1>d. ASSUME Same, UNCHANGED xpc, in_exit_cleanup => NodesKept PROVE ScanInv'
  BY <1>a, <1>d, QuietKeeps DEF Quiet
<1>1. ASSUME MainStart PROVE ScanInv'
  BY <1>1, <1>b DEF MainStart
<1>2. ASSUME ThreadRelease PROVE ScanInv'
  BY <1>2, <1>b DEF ThreadRelease
<1>3. ASSUME NEW c \in All, NEW u \in Threads, PthreadCreate(c, u) PROVE ScanInv'
  <2>1. Same /\ UNCHANGED xpc
    BY <1>3 DEF PthreadCreate, ThreadListInit
  <2>2. in_exit_cleanup => UNCHANGED tn
    BY <1>3, <1>0 DEF PthreadCreate, CleanupInv
  <2> QED
    BY <2>1, <2>2, <1>d DEF NodesKept
<1>4. ASSUME NEW c \in All, ThreadSupportDone(c) PROVE ScanInv'
  BY <1>4, <1>b DEF ThreadSupportDone
<1>5. ASSUME NEW t \in All, LockStep(t) PROVE ScanInv'
  BY <1>5, <1>b DEF LockStep, AcquireThreadLock
<1>6. ASSUME NEW c \in All, MakeThreadNode(c) PROVE ScanInv'
  <2>1. Same /\ UNCHANGED xpc
    BY <1>6 DEF MakeThreadNode
  <2>2. PICK n \in Node : tn' = [tn EXCEPT ![n] = ZeroNode] /\ n \notin thread_list
    <3>1. PICK n \in Node :
            /\ n \in free_list \/ n >= tn_array + tn_array_pos
            /\ tn' = [tn EXCEPT ![n] = ZeroNode]
      BY <1>6, <1>0, NewNode
    <3>2. tn_array \in Int /\ tn_array_pos \in Int
      BY <1>0, BoundsAssumption DEF TypeOK, Node
    <3>3. n \notin thread_list
      BY <1>0, <3>1, <3>2, BoundsAssumption DEF NodeInv, Node
    <3> QED
      BY <3>1, <3>3
  <2>3. NodesKept
    BY <2>2, <1>0, ZeroUpdate DEF NodesKept
  <2> QED
    BY <2>1, <2>3, <1>d
<1>7. ASSUME NEW c \in All, NEW ok \in BOOLEAN, RealPthreadCreate(c, ok) PROVE ScanInv'
  BY <1>7, <1>b DEF RealPthreadCreate
<1>8. ASSUME NEW t \in All, BeginThread(t) PROVE ScanInv'
  <2>1. Same /\ UNCHANGED xpc /\ xpc[t] = "none" /\ tn' = [tn EXCEPT ![arg[t]].self = t]
    BY <1>8 DEF BeginThread, At, InBase
  <2>2. NodesKept
    BY <2>1, <1>0 DEF NodesKept, NodeFields, Walk
  <2> QED
    BY <2>1, <2>2, <1>d
<1>9. ASSUME NEW t \in All, LinkThreadNode(t) PROVE ScanInv'
  BY <1>9, <1>b DEF LinkThreadNode
<1>10. ASSUME NEW t \in All, ApplStarted(t) PROVE ScanInv'
  <2>1. Same /\ UNCHANGED xpc
    BY <1>10 DEF ApplStarted
  <2>2. in_exit_cleanup => NodesKept
    BY <1>10, <1>0 DEF NodesKept, NodeFields, ApplStarted
  <2> QED
    BY <2>1, <2>2, <1>d
<1>11. ASSUME NEW t \in All, CancelEarly(t) PROVE ScanInv'
  BY <1>11, <1>b DEF CancelEarly
<1>11c. ASSUME NEW t \in All, CancelCleanup(t) PROVE ScanInv'
  BY <1>11c, <1>b DEF CancelCleanup
<1>12. ASSUME NEW t \in All, CleanupCheck(t) PROVE ScanInv'
  BY <1>12, <1>b DEF CleanupCheck
<1>13. ASSUME NEW t \in All, StartStep(t) PROVE ScanInv'
  <2>1. Same /\ UNCHANGED xpc /\ tn' = [tn EXCEPT ![key[t]].fini_started = TRUE]
    BY <1>13 DEF StartStep, FiniThreadStart
  <2>2. NodesKept
    BY <2>1, <1>0 DEF NodesKept, NodeFields
  <2> QED
    BY <2>1, <2>2, <1>d
<1>14. ASSUME NEW t \in All, DoneStep(t) PROVE ScanInv'
  <2>1. Same /\ UNCHANGED xpc /\ tn' = [tn EXCEPT ![key[t]].fini_done = TRUE]
    BY <1>14 DEF DoneStep, FiniThreadDone
  <2>2. NodesKept
    BY <2>1, <1>0 DEF NodesKept, NodeFields
  <2> QED
    BY <2>1, <2>2, <1>d
<1>15. ASSUME NEW t \in All, UnlinkThreadNode(t) PROVE ScanInv'
  <2>1. Same /\ UNCHANGED xpc
    BY <1>15 DEF UnlinkThreadNode, ListFixed
  <2>2. in_exit_cleanup => NodesKept
    BY <1>15, <1>0 DEF NodesKept, NodeFields, UnlinkThreadNode, ListFixed
  <2> QED
    BY <2>1, <2>2, <1>d
<1>16. ASSUME NEW t \in All, RawReturn(t) PROVE ScanInv'
  BY <1>16, <1>b DEF RawReturn
<1>17. ASSUME LastThreadGone PROVE ScanInv'
  BY <1>17, <1>b DEF LastThreadGone
<1>18. ASSUME NEW t \in All, NEW on \in BOOLEAN, BlockShootdown(t, on) PROVE ScanInv'
  <2>1. Same /\ UNCHANGED xpc
    BY <1>18 DEF BlockShootdown
  <2>2. in_exit_cleanup => NodesKept
    BY <1>18, <1>0 DEF NodesKept, NodeFields, BlockShootdown
  <2> QED
    BY <2>1, <2>2, <1>d
<1>19. ASSUME NEW t \in All, NEW on \in BOOLEAN, IgnoreNewThreads(t, on) PROVE ScanInv'
  <2>1. Same /\ UNCHANGED xpc
    BY <1>19 DEF IgnoreNewThreads
  <2>2. in_exit_cleanup => NodesKept
    BY <1>19, <1>0 DEF NodesKept, NodeFields, IgnoreNewThreads
  <2> QED
    BY <2>1, <2>2, <1>d
<1>20. ASSUME NEW t \in All, ShootdownHandler(t) PROVE ScanInv'
  BY <1>20, <1>b DEF ShootdownHandler
<1>21. ASSUME NEW t \in All, HandlerFiniStart(t) PROVE ScanInv'
  <2>1. Same /\ UNCHANGED xpc
    BY <1>21 DEF HandlerFiniStart
  <2>2. in_exit_cleanup => NodesKept
    BY <1>21, <1>0 DEF NodesKept, NodeFields, HandlerFiniStart
  <2> QED
    BY <2>1, <2>2, <1>d
<1>22. ASSUME NEW t \in All, HandlerFiniDone(t) PROVE ScanInv'
  <2>1. Same /\ UNCHANGED xpc
    BY <1>22 DEF HandlerFiniDone
  <2>2. in_exit_cleanup => NodesKept
    BY <1>22, <1>0 DEF NodesKept, NodeFields, HandlerFiniDone
  <2> QED
    BY <2>1, <2>2, <1>d
<1>23. ASSUME NEW t \in All, SigwaitHelper(t) PROVE ScanInv'
  BY <1>23, <1>b DEF SigwaitHelper
<1>24. ASSUME NEW t \in All, NEW kind \in {"exit", "pthread_exit"}, CallExit(t, kind) PROVE ScanInv'
  BY <1>24, <1>0, <1>c DEF CallExit, ExitTo
<1>25. ASSUME NEW t \in All, FatalSignal(t) PROVE ScanInv'
  BY <1>25, <1>0, <1>c DEF FatalSignal, ExitTo
<1>26. ASSUME NEW t \in All, CasCookie(t) PROVE ScanInv'
  <2>1. CASE end_process_cookie = 0
    <3>1. /\ end_process_cookie' = 1 /\ ~in_exit_cleanup /\ ~fini_thread_done /\ live_at_exit = {}
          /\ UNCHANGED <<in_exit_cleanup, fini_thread_done, live_at_exit>>
      BY <1>26, <2>1 DEF CasCookie, WinsCookie, ScanInv
    <3> QED
      BY <3>1 DEF ScanInv, Complete
  <2>2. CASE end_process_cookie # 0
    <3>1. /\ Same /\ UNCHANGED tn
          /\ \E to \in {"done", "wait"} : xpc' = [xpc EXCEPT ![t] = to]
      BY <1>26, <2>2 DEF CasCookie, WinsCookie, ExitTo
    <3> QED
      BY <3>1, <1>c
  <2> QED
    BY <2>1, <2>2
<1>26m. ASSUME NEW t \in All, MarkExitWin(t) PROVE ScanInv'
  <2>1. /\ xpc[t] = "won" /\ xpc' = [xpc EXCEPT ![t] = "begin"] /\ Same
        /\ UNCHANGED thread_list
    BY <1>26m DEF MarkExitWin, ExitAt, ExitTo
  <2>2. ~in_exit_cleanup /\ ~fini_thread_done /\ live_at_exit = {}
    BY <2>1 DEF ScanInv
  <2>3. \A u \in All : u # t => xpc[u] \notin Winner
    BY <1>0, <2>1 DEF ExitInv, Winner
  <2> QED
    BY <1>0, <2>1, <2>2, <2>3 DEF ScanInv, Complete, Walk, Winner
<1>27. ASSUME NEW t \in All, LoserReleased(t) PROVE ScanInv'
  BY <1>27, <1>0, <1>c DEF LoserReleased, ExitTo
<1>28. ASSUME NEW t \in All, CancelExit(t) PROVE ScanInv'
  BY <1>28, <1>0, <1>c DEF CancelExit, ExitTo
<1>29. ASSUME NEW t \in All, ExitAgain(t) PROVE ScanInv'
  BY <1>29, <1>0, <1>c DEF ExitAgain, ExitTo
<1>30. ASSUME NEW t \in All, BeginProcessExitDone(t) PROVE ScanInv'
  <2>1. CASE has_used_threads
    <3>1. /\ Same /\ UNCHANGED <<tn, thread_list>> /\ xpc[t] = "begin" /\ xpc' = [xpc EXCEPT ![t] = "sdlock"]
      BY <1>30, <2>1 DEF BeginProcessExitDone, ExitAt, ExitTo
    <3> QED
      BY <3>1, <1>0 DEF ScanInv, Walk, Complete
  <2>2. CASE ~has_used_threads
    BY <1>30, <2>2, <1>c DEF BeginProcessExitDone, CallFiniProcess, ExitTo
  <2> QED
    BY <2>1, <2>2
<1>31. ASSUME NEW t \in All, FiniProcessDone(t) PROVE ScanInv'
  BY <1>31, <1>0, <1>c DEF FiniProcessDone, ExitTo
<1>32. ASSUME NEW t \in All, AfterEndProcess(t) PROVE ScanInv'
  BY <1>32, <1>0, <1>c DEF AfterEndProcess, ExitTo
<1>33. ASSUME NEW t \in All, FiniLibraryDone(t) PROVE ScanInv'
  BY <1>33, <1>b DEF FiniLibraryDone
<1>42. ASSUME NEW t \in All, FiniSelf(t) PROVE ScanInv'
  <2>1. /\ Same /\ NodesKept
        /\ \E to \in {"selffini", "fini"} : xpc' = [xpc EXCEPT ![t] = to]
    BY <1>42, <1>0 DEF FiniSelf, CallFiniProcess, ExitTo, CallFiniThread, NodesKept, NodeFields
  <2> QED
    BY <2>1, <1>0, <1>a, QuietKeeps DEF Quiet, Walk
<1>43. ASSUME NEW t \in All, FiniSelfDone(t) PROVE ScanInv'
  <2>1. /\ Same /\ NodesKept
        /\ \E to \in {"selffini", "fini"} : xpc' = [xpc EXCEPT ![t] = to]
    BY <1>43, <1>0 DEF FiniSelfDone, CallFiniProcess, ExitTo, CallFiniThread, NodesKept, NodeFields
  <2> QED
    BY <2>1, <1>0, <1>a, QuietKeeps DEF Quiet, Walk
<1>44. ASSUME UNCHANGED vars PROVE ScanInv'
  BY <1>44, <1>b
\* the walk
<1> DEFINE Others(t) == \A u \in All \ {t} : xpc'[u] = xpc[u] /\ xpc[u] \notin Winner
<1>e. ASSUME NEW t \in All, xpc[t] \in Winner, NEW to, xpc' = [xpc EXCEPT ![t] = to]
      PROVE  xpc'[t] = to /\ Others(t)
  BY <1>0, <1>e DEF ExitInv
<1>f. {"won", "begin", "sdlock", "shot"} \cup Walk \subseteq Winner
  BY DEF Walk, Winner
<1>34. ASSUME NEW t \in All, EnterExitCleanup(t) PROVE ScanInv'
  <2>1. /\ xpc[t] = "sdlock" /\ xpc' = [xpc EXCEPT ![t] = "scan"] /\ in_exit_cleanup' = TRUE
        /\ visited' = {} /\ UNCHANGED <<end_process_cookie, thread_list, tn, fini_thread_done>>
        /\ live_at_exit' = {n \in thread_list : tn[n].appl_started /\ tn[n].self # t}
    BY <1>34 DEF EnterExitCleanup, ExitAt, ExitTo
  <2>2. xpc'[t] = "scan" /\ Others(t)
    BY <2>1, <1>e, <1>f
  <2>3. end_process_cookie # 0 /\ ~fini_thread_done
    BY <2>1, <1>0, <1>f DEF ExitInv, ScanInv
  <2> QED
    BY <2>1, <2>2, <2>3, <1>f DEF ScanInv
<1>35. ASSUME NEW t \in All, ScanNode(t) PROVE ScanInv'
  <2>1. PICK n \in thread_list \ visited :
          /\ xpc[t] = "scan" /\ visited' = visited \cup {n}
          /\ scan'.unfinished = scan.unfinished
          /\ \E to \in Walk : xpc' = [xpc EXCEPT ![t] = to]
          /\ ~(tn[n].self = t \/ ~tn[n].appl_started) => cur' = n /\ xpc' # [xpc EXCEPT ![t] = "scan"]
    BY <1>35, <1>0 DEF ScanNode, ExitAt, ExitTo, Walk, TypeOK
  <2>2. UNCHANGED <<tn, thread_list, end_process_cookie, in_exit_cleanup, fini_thread_done, timed_out, live_at_exit>>
    BY <1>35 DEF ScanNode
  <2>3. xpc'[t] \in Walk /\ Others(t)
    <3>1. PICK to \in Walk : xpc' = [xpc EXCEPT ![t] = to]
      BY <2>1
    <3>2. xpc[t] \in Winner
      BY <2>1 DEF Winner
    <3> QED
      BY <3>1, <3>2, <1>e
  <2>4. \A m \in live_at_exit : tn[m].self # t /\ tn[m].appl_started
    BY <2>1 DEF ScanInv, Walk
  <2>5. \A m \in live_at_exit \cap visited : tn[m].fini_done \/ scan.unfinished > 0
    BY <2>1 DEF ScanInv, Walk
  <2>6. n \in live_at_exit => cur' = n /\ xpc'[t] # "scan"
    BY <2>1, <2>3, <2>4, <1>0
  <2>7. \A m \in live_at_exit \cap visited' :
          tn[m].fini_done \/ scan'.unfinished > 0 \/ (m = cur' /\ xpc'[t] # "scan")
    BY <2>1, <2>5, <2>6
  <2> QED
    BY <2>2, <2>3, <2>4, <2>7, <1>f DEF ScanInv, Complete, Walk
<1>36. ASSUME NEW t \in All, KillThread(t) PROVE ScanInv'
  <2>1. /\ xpc[t] = "kill" /\ xpc' = [xpc EXCEPT ![t] = "chkdone"]
        /\ scan'.unfinished = scan.unfinished
    BY <1>36, <1>0 DEF KillThread, ExitAt, ExitTo, TypeOK
  <2>2. UNCHANGED <<tn, thread_list, end_process_cookie, in_exit_cleanup, fini_thread_done, timed_out, live_at_exit, visited, cur>>
    BY <1>36 DEF KillThread
  <2>3. xpc'[t] = "chkdone" /\ Others(t)
    BY <2>1, <1>e, <1>f DEF Walk
  <2> QED
    BY <2>1, <2>2, <2>3, <1>f DEF ScanInv, Complete, Walk
<1>37. ASSUME NEW t \in All, CheckFiniDone(t) PROVE ScanInv'
  <2>1. /\ xpc[t] = "chkdone" /\ xpc' = [xpc EXCEPT ![t] = "scan"]
        /\ scan'.unfinished = IF tn[cur].fini_done THEN scan.unfinished ELSE scan.unfinished + 1
    BY <1>37, <1>0 DEF CheckFiniDone, ThreadFinished, ExitAt, ExitTo, TypeOK
  <2>2. UNCHANGED <<tn, thread_list, end_process_cookie, in_exit_cleanup, fini_thread_done, timed_out, live_at_exit, visited>>
    BY <1>37 DEF CheckFiniDone
  <2>3. xpc'[t] = "scan" /\ Others(t)
    BY <2>1, <1>e, <1>f DEF Walk
  <2>4. \A m \in live_at_exit \cap visited : tn[m].fini_done \/ scan'.unfinished > 0
    BY <2>1, <1>0 DEF ScanInv, Walk
  <2> QED
    BY <2>1, <2>2, <2>3, <2>4, <1>f DEF ScanInv, Complete, Walk
<1>38. ASSUME NEW t \in All, ScanFinished(t) PROVE ScanInv'
  <2>1. /\ xpc[t] = "scan" /\ xpc' = [xpc EXCEPT ![t] = "shot"]
        /\ thread_list \subseteq visited /\ scan.unfinished = 0
    BY <1>38 DEF ScanFinished, ExitAt, ExitTo
  <2>2. UNCHANGED <<tn, thread_list, end_process_cookie, in_exit_cleanup, fini_thread_done, timed_out, live_at_exit>>
    BY <1>38 DEF ScanFinished
  <2>3. xpc'[t] = "shot" /\ Others(t)
    BY <2>1, <1>e, <1>f DEF Walk
  <2>4. \A n \in live_at_exit : tn[n].fini_done
    BY <2>1 DEF ScanInv, Walk
  <2> QED
    BY <2>2, <2>3, <2>4, <1>f DEF ScanInv, Complete, Walk
<1>39. ASSUME NEW t \in All, ScanAgain(t) PROVE ScanInv'
  <2>1. visited' = {} /\ UNCHANGED <<xpc, tn, thread_list, end_process_cookie, in_exit_cleanup, fini_thread_done, timed_out, live_at_exit>>
    BY <1>39 DEF ScanAgain
  <2> QED
    BY <2>1 DEF ScanInv, Complete
<1>40. ASSUME NEW t \in All, ScanTimeout(t) PROVE ScanInv'
  <2>1. xpc[t] = "scan" /\ xpc' = [xpc EXCEPT ![t] = "shot"] /\ timed_out' = TRUE
    BY <1>40 DEF ScanTimeout, ExitAt, ExitTo
  <2>2. UNCHANGED <<tn, thread_list, end_process_cookie, in_exit_cleanup, fini_thread_done, live_at_exit>>
    BY <1>40 DEF ScanTimeout
  <2>3. xpc'[t] = "shot" /\ Others(t)
    BY <2>1, <1>e, <1>f DEF Walk
  <2> QED
    BY <2>1, <2>2, <2>3, <1>f DEF ScanInv, Complete, Walk
<1>41. ASSUME NEW t \in All, SetFiniThreadDone(t) PROVE ScanInv'
  <2>1. xpc[t] = "shot" /\ xpc' = [xpc EXCEPT ![t] = "self"] /\ fini_thread_done' = TRUE
    BY <1>41 DEF SetFiniThreadDone, ExitAt, ExitTo
  <2>2. UNCHANGED <<tn, thread_list, end_process_cookie, in_exit_cleanup, timed_out, live_at_exit>>
    BY <1>41 DEF SetFiniThreadDone
  <2>3. xpc'[t] = "self" /\ Others(t)
    BY <2>1, <1>e, <1>f
  <2>4. end_process_cookie # 0 /\ Complete
    BY <2>1, <1>0, <1>f DEF ExitInv, ScanInv
  <2> QED
    BY <2>1, <2>2, <2>3, <2>4, <1>f DEF ScanInv, Complete, Walk
<1> HIDE DEF vars, exitVars, listVars, flagVars, shootVars
<1>45. ASSUME NEW t \in All, LibraryStep(t) PROVE ScanInv'
  BY <1>45, <1>4, <1>5, <1>6, <1>7, <1>8, <1>9, <1>10, <1>13, <1>14, <1>15, <1>21,
     <1>22, <1>26, <1>26m, <1>27, <1>30, <1>34, <1>35, <1>36, <1>37, <1>38, <1>39, <1>41,
     <1>42, <1>43, <1>31, <1>32, <1>33
     DEF LibraryStep, LockStep, StartStep, DoneStep
<1>46. ASSUME NEW t \in All, EnvironmentStep(t) PROVE ScanInv'
  BY <1>46, <1>3, <1>7, <1>12, <1>16, <1>24, <1>18, <1>19, <1>20, <1>23, <1>40,
     <1>11, <1>11c, <1>28, <1>25, <1>29 DEF EnvironmentStep
<1> QED
  BY <1>1, <1>2, <1>17, <1>44, <1>45, <1>46 DEF Next, Gone

\* ShootdownComplete: a shootdown that did not time out has seen every thread that was
\* running the application finish its monitor_fini_thread, for any number of threads and
\* wherever they begin, end, are recycled, exit or die meanwhile (pthread.c:511-616).
THEOREM ShootdownReachesAll == Spec => []ShootdownComplete
<1>1. Init => ScanInv
  BY DEF Init, ScanInv, Walk
<1>2. IInv /\ ScanInv /\ [Next]_vars => ScanInv'
  BY ScanStep
<1>3. ScanInv => ShootdownComplete
  BY DEF ScanInv, Complete, ShootdownComplete
<1> QED
  BY <1>1, <1>2, <1>3, Inductive, PTL DEF Spec

-----------------------------------------------------------------------------
(* The refinement of MonitorCallbacks: every step of libmonitor is a step that *)
(* monitor.h promises its client, or one the client cannot see.                *)

\* The main thread: nothing that needs the client's support happens before it has
\* reached main.
MainInv ==
  /\ pc[Main] \notin {"unborn", "reserved", "raw"}
  /\ IF has_reached_main THEN pc[Main] \notin {"premain", "release"}
     ELSE pc[Main] \notin {"run", "support", "swchk", "swfini", "dead"}
  /\ thread_support_done => has_reached_main
  /\ \A t \in All : pc[t] = "support" => has_reached_main
  /\ \A t \in Threads : pc[t] \in {"link", "linking"} => has_reached_main
  /\ xpc[Main] # "none" /\ xkind[Main] = "pthread_exit" => has_reached_main

\* What happens only once the end of the process has begun.
CookieInv ==
  /\ end_process_cookie = 0 => sigpend = {}
  /\ \A t \in All : hpc[t] # "none" \/ pc[t] = "swchk" \/ xpc[t] = "wait" => end_process_cookie = 1
  /\ \A t \in All : xpc[t] = "selffini" => fini_thread_calls[t] > 0
  /\ \A t \in All : xpc[t] = "fini" => fini_process_calls > 0
  /\ end_process_cookie = 1 /\ ~fini_process_done /\ ~has_used_threads => xpc[Main] # "none"
  /\ fini_process_calls > 0 /\ ~fini_process_done => in_exit_cleanup \/ ~has_used_threads
  /\ \A t \in All : xpc[t] # "none" /\ xkind[t] = "pthread_exit" => pc[t] \in {"run", "raw"}

\* A thread is on the list, under its own name, from its linking to its unlinking.
ListInv ==
  /\ \A n \in Node, t \in Threads : tn[n].self = t => arg[t] = n /\ key[t] = n
  /\ \A t \in Threads : key[t] # NoNode /\ pc[t] # "dead" => tn[key[t]].self = t
  /\ \A t \in Threads : pc[t] \in {"reserved", "start", "link", "linking"} => arg[t] \notin thread_list
  /\ \A t \in Threads : key[t] # NoNode /\ pc[t] \notin {"link", "linking", "dead"} => key[t] \in thread_list
  /\ \A t \in Threads : pc[t] \notin {"premain", "release"} /\ (pc[t] = "raw" => key[t] = NoNode)

\* The walker's own node is the one that the walk has met under its name.
WalkInv ==
  /\ \A t \in All : xpc[t] \in Walk \cup {"shot", "self", "selffini"} /\ my_tn # NoNode =>
       my_tn \in thread_list /\ tn[my_tn].self = t
  /\ \A t \in All : xpc[t] \in Walk /\ key[t] \in visited \cap thread_list => my_tn = key[t]
  /\ \A t \in All : xpc[t] \in {"shot", "self"} /\ key[t] \in thread_list => my_tn = key[t]


\* The checks passed whose monitor_fini_thread has not begun.
Pending(t) == (IF pc[t] \in {"chk", "swchk"} THEN 1 ELSE 0) + (IF hpc[t] = "chk" THEN 1 ELSE 0)

\* The points between monitor_init_thread and the end of the cleanup routine.
InAppl == {"run", "support", "make", "making", "create", "rawcreate", "chk", "fini", "swchk", "swfini"}

\* A thread is marked as started from monitor_init_thread on, and as finished from
\* monitor_fini_thread on; only such a thread is asked to finish.
MarkInv ==
  /\ ~tn[MainTn].appl_started
  /\ \A t \in Threads : pc[t] \in {"reserved", "start", "link", "linking", "init"} /\ arg[t] # NoNode =>
       ~tn[arg[t]].appl_started
  /\ \A t \in Threads : pc[t] \in {"reserved", "start"} /\ arg[t] # NoNode =>
       ~tn[arg[t]].fini_started
  /\ \A n \in Node : tn[n].block_shootdown => "block" \in Moves
  /\ \A t \in Threads : pc[t] \in InAppl /\ key[t] # NoNode => tn[key[t]].appl_started
  /\ \A t \in All : pc[t] \in {"swchk", "swfini"} \/ hpc[t] = "chk" => t \in Threads
  /\ \A t \in Threads : pc[t] \in {"fini", "swfini", "unlink", "unlinking"} => tn[key[t]].fini_started
  /\ \A t \in Threads : hpc[t] = "chk" => key[t] # NoNode /\ pc[t] \in InAppl

\* The node remembers whether its thread has had monitor_fini_thread; a second call
\* needs a check made before the first, and an end of the process under way.
CountInv ==
  /\ \A t \in Threads : key[t] = NoNode => fini_thread_calls[t] = 0
  /\ \A t \in Threads : key[t] # NoNode /\ pc[t] # "dead" =>
       (tn[key[t]].fini_started <=> fini_thread_calls[t] > 0)
  /\ \A t \in Threads : fini_thread_calls[t] + Pending(t) <= 2
  /\ \A t \in Threads : pc[t] = "chk" /\ fini_thread_calls[t] > 0 => end_process_cookie = 1

-----------------------------------------------------------------------------
(* Writes of the node fields *)

\* Writing one field of one node leaves the others: tn_self, ...
LEMMA WriteSelf ==
  ASSUME NEW f \in [Node -> NodeFields], NEW n, NEW b, NEW g, g = [f EXCEPT ![n].self = b]
  PROVE  \A m \in Node :
           /\ g[m].appl_started = f[m].appl_started
           /\ g[m].fini_started = f[m].fini_started
           /\ g[m].block_shootdown = f[m].block_shootdown
           /\ g[m].self = IF m = n THEN b ELSE f[m].self
  BY DEF NodeFields

\* ... tn_appl_started, ...
LEMMA WriteAppl ==
  ASSUME NEW f \in [Node -> NodeFields], NEW n, NEW b, NEW g, g = [f EXCEPT ![n].appl_started = b]
  PROVE  \A m \in Node :
           /\ g[m].self = f[m].self
           /\ g[m].fini_started = f[m].fini_started
           /\ g[m].block_shootdown = f[m].block_shootdown
           /\ g[m].appl_started = IF m = n THEN b ELSE f[m].appl_started
  BY DEF NodeFields

\* ... tn_fini_started, ...
LEMMA WriteStarted ==
  ASSUME NEW f \in [Node -> NodeFields], NEW n, NEW b, NEW g, g = [f EXCEPT ![n].fini_started = b]
  PROVE  \A m \in Node :
           /\ g[m].self = f[m].self
           /\ g[m].appl_started = f[m].appl_started
           /\ g[m].block_shootdown = f[m].block_shootdown
           /\ g[m].fini_started = IF m = n THEN b ELSE f[m].fini_started
  BY DEF NodeFields

\* ... tn_block_shootdown, ...
LEMMA WriteBlock ==
  ASSUME NEW f \in [Node -> NodeFields], NEW n, NEW b, NEW g, g = [f EXCEPT ![n].block_shootdown = b]
  PROVE  \A m \in Node :
           /\ g[m].self = f[m].self
           /\ g[m].appl_started = f[m].appl_started
           /\ g[m].fini_started = f[m].fini_started
           /\ g[m].block_shootdown = IF m = n THEN b ELSE f[m].block_shootdown
  BY DEF NodeFields

\* ... and the fields that matter to nothing below, ...
LEMMA WriteOther ==
  ASSUME NEW f \in [Node -> NodeFields], NEW n, NEW b, NEW g, 
         \/ g = f \/ g = [f EXCEPT ![n].fini_done = b] \/ g = [f EXCEPT ![n].exit_win = b]
         \/ g = [f EXCEPT ![n].ignore_threads = b]
  PROVE  \A m \in Node :
           /\ g[m].self = f[m].self
           /\ g[m].appl_started = f[m].appl_started
           /\ g[m].fini_started = f[m].fini_started
           /\ g[m].block_shootdown = f[m].block_shootdown
  BY DEF NodeFields

\* ... and so does unlinking, which writes both marks of monitor_fini_thread.
LEMMA WriteBoth ==
  ASSUME NEW f \in [Node -> NodeFields], NEW n, NEW g,
         g = [f EXCEPT ![n].fini_started = TRUE, ![n].fini_done = TRUE]
  PROVE  \A m \in Node :
           /\ g[m].self = f[m].self
           /\ g[m].appl_started = f[m].appl_started
           /\ g[m].block_shootdown = f[m].block_shootdown
           /\ g[m].fini_started = IF m = n THEN TRUE ELSE f[m].fini_started
  BY DEF NodeFields

-----------------------------------------------------------------------------
(* Every step keeps the invariants *)

\* Every step keeps MainInv.
LEMMA MainStep ==
  ASSUME TypeOK, ThreadInv, MainInv, [Next]_vars
  PROVE  MainInv'
<1> USE ThreadsAssumption
    DEF TypeOK, ThreadInv, MainInv, All, PCs, Alive, NoNode, MainTn,
        InBase, InExit, InHandler, At, Goto, ExitAt, ExitTo, CallFiniThread, Home,
        exitVars, listVars, flagVars, shootVars, vars
<1>1. ASSUME MainStart PROVE MainInv'
  BY <1>1 DEF MainStart
<1>2. ASSUME ThreadRelease PROVE MainInv'
  BY <1>2 DEF ThreadRelease
<1>3. ASSUME NEW c \in All, NEW u \in Threads, PthreadCreate(c, u) PROVE MainInv'
  BY <1>3 DEF PthreadCreate, ThreadListInit
<1>4. ASSUME NEW c \in All, ThreadSupportDone(c) PROVE MainInv'
  BY <1>4 DEF ThreadSupportDone
<1>5. ASSUME NEW t \in All, LockStep(t) PROVE MainInv'
  BY <1>5 DEF LockStep, AcquireThreadLock
<1>6. ASSUME NEW c \in All, MakeThreadNode(c) PROVE MainInv'
  BY <1>6 DEF MakeThreadNode
<1>7. ASSUME NEW c \in All, NEW ok \in BOOLEAN, RealPthreadCreate(c, ok) PROVE MainInv'
  BY <1>7 DEF RealPthreadCreate
<1>8. ASSUME NEW t \in All, BeginThread(t) PROVE MainInv'
  BY <1>8 DEF BeginThread
<1>9. ASSUME NEW t \in All, LinkThreadNode(t) PROVE MainInv'
  BY <1>9 DEF LinkThreadNode, ListFixed
<1>10. ASSUME NEW t \in All, ApplStarted(t) PROVE MainInv'
  BY <1>10 DEF ApplStarted
<1>11. ASSUME NEW t \in All, CancelEarly(t) PROVE MainInv'
  BY <1>11 DEF CancelEarly
<1>11c. ASSUME NEW t \in All, CancelCleanup(t) PROVE MainInv'
  BY <1>11c DEF CancelCleanup
<1>12. ASSUME NEW t \in All, CleanupCheck(t) PROVE MainInv'
  BY <1>12 DEF CleanupCheck
<1>13. ASSUME NEW t \in All, StartStep(t) PROVE MainInv'
  BY <1>13 DEF StartStep, FiniThreadStart
<1>14. ASSUME NEW t \in All, DoneStep(t) PROVE MainInv'
  BY <1>14 DEF DoneStep, FiniThreadDone
<1>15. ASSUME NEW t \in All, UnlinkThreadNode(t) PROVE MainInv'
  BY <1>15 DEF UnlinkThreadNode, ListFixed
<1>16. ASSUME NEW t \in All, RawReturn(t) PROVE MainInv'
  BY <1>16 DEF RawReturn
<1>17. ASSUME LastThreadGone PROVE MainInv'
  BY <1>17 DEF LastThreadGone
<1>18. ASSUME NEW t \in All, NEW on \in BOOLEAN, BlockShootdown(t, on) PROVE MainInv'
  BY <1>18 DEF BlockShootdown
<1>19. ASSUME NEW t \in All, NEW on \in BOOLEAN, IgnoreNewThreads(t, on) PROVE MainInv'
  BY <1>19 DEF IgnoreNewThreads
<1>20. ASSUME NEW t \in All, ShootdownHandler(t) PROVE MainInv'
  BY <1>20 DEF ShootdownHandler
<1>21. ASSUME NEW t \in All, HandlerFiniStart(t) PROVE MainInv'
  BY <1>21 DEF HandlerFiniStart
<1>22. ASSUME NEW t \in All, HandlerFiniDone(t) PROVE MainInv'
  BY <1>22 DEF HandlerFiniDone
<1>23. ASSUME NEW t \in All, SigwaitHelper(t) PROVE MainInv'
  BY <1>23 DEF SigwaitHelper
<1>24. ASSUME NEW t \in All, NEW kind \in {"exit", "pthread_exit"}, CallExit(t, kind) PROVE MainInv'
  BY <1>24 DEF CallExit
<1>25. ASSUME NEW t \in All, FatalSignal(t) PROVE MainInv'
  BY <1>25 DEF FatalSignal
<1>26. ASSUME NEW t \in All, CasCookie(t) PROVE MainInv'
  BY <1>26 DEF CasCookie, WinsCookie
<1>26m. ASSUME NEW t \in All, MarkExitWin(t) PROVE MainInv'
  BY <1>26m DEF MarkExitWin
<1>27. ASSUME NEW t \in All, LoserReleased(t) PROVE MainInv'
  BY <1>27 DEF LoserReleased, CallbacksOver
<1>28. ASSUME NEW t \in All, CancelExit(t) PROVE MainInv'
  BY <1>28 DEF CancelExit
<1>29. ASSUME NEW t \in All, ExitAgain(t) PROVE MainInv'
  BY <1>29 DEF ExitAgain
<1>30. ASSUME NEW t \in All, BeginProcessExitDone(t) PROVE MainInv'
  BY <1>30 DEF BeginProcessExitDone, CallFiniProcess
<1>31. ASSUME NEW t \in All, FiniProcessDone(t) PROVE MainInv'
  BY <1>31 DEF FiniProcessDone
<1>32. ASSUME NEW t \in All, AfterEndProcess(t) PROVE MainInv'
  BY <1>32 DEF AfterEndProcess
<1>33. ASSUME NEW t \in All, FiniLibraryDone(t) PROVE MainInv'
  BY <1>33 DEF FiniLibraryDone
<1>34. ASSUME NEW t \in All, EnterExitCleanup(t) PROVE MainInv'
  BY <1>34 DEF EnterExitCleanup
<1>35. ASSUME NEW t \in All, ScanNode(t) PROVE MainInv'
  BY <1>35 DEF ScanNode
<1>36. ASSUME NEW t \in All, KillThread(t) PROVE MainInv'
  BY <1>36 DEF KillThread
<1>37. ASSUME NEW t \in All, CheckFiniDone(t) PROVE MainInv'
  BY <1>37 DEF CheckFiniDone
<1>38. ASSUME NEW t \in All, ScanFinished(t) PROVE MainInv'
  BY <1>38 DEF ScanFinished, ScanOver
<1>39. ASSUME NEW t \in All, ScanAgain(t) PROVE MainInv'
  BY <1>39 DEF ScanAgain
<1>40. ASSUME NEW t \in All, ScanTimeout(t) PROVE MainInv'
  BY <1>40 DEF ScanTimeout, ScanOver
<1>41. ASSUME NEW t \in All, SetFiniThreadDone(t) PROVE MainInv'
  BY <1>41 DEF SetFiniThreadDone
<1>42. ASSUME NEW t \in All, FiniSelf(t) PROVE MainInv'
  BY <1>42 DEF FiniSelf, CallFiniProcess
<1>43. ASSUME NEW t \in All, FiniSelfDone(t) PROVE MainInv'
  BY <1>43 DEF FiniSelfDone, CallFiniProcess
<1>44. ASSUME UNCHANGED vars PROVE MainInv'
  BY <1>44
<1> HIDE DEF TypeOK, ThreadInv, MainInv, All, PCs, Alive, NoNode, MainTn,
         InBase, InExit, InHandler, At, Goto, ExitAt, ExitTo, CallFiniThread, Home,
         exitVars, listVars, flagVars, shootVars, vars
<1>45. ASSUME NEW t \in All, LibraryStep(t) PROVE MainInv'
  BY <1>45, <1>4, <1>5, <1>6, <1>7, <1>8, <1>9, <1>10, <1>13, <1>14, <1>15, <1>21,
     <1>22, <1>26, <1>26m, <1>27, <1>30, <1>34, <1>35, <1>36, <1>37, <1>38, <1>39, <1>41,
     <1>42, <1>43, <1>31, <1>32, <1>33
     DEF LibraryStep, LockStep, StartStep, DoneStep
<1>46. ASSUME NEW t \in All, EnvironmentStep(t) PROVE MainInv'
  BY <1>46, <1>3, <1>7, <1>12, <1>16, <1>24, <1>18, <1>19, <1>20, <1>23, <1>40,
     <1>11, <1>11c, <1>28, <1>25, <1>29 DEF EnvironmentStep
<1> QED
  BY <1>1, <1>2, <1>17, <1>44, <1>45, <1>46 DEF Next, Gone

\* Every step keeps CookieInv.
LEMMA CookieStep ==
  ASSUME TypeOK, ThreadInv, ExitInv, CleanupInv, CookieInv, [Next]_vars
  PROVE  CookieInv'
<1> USE ThreadsAssumption
    DEF TypeOK, ThreadInv, ExitInv, CleanupInv, CookieInv, Winner, Leaving, All, PCs, Alive, NoNode, MainTn,
        InBase, InExit, InHandler, At, Goto, ExitAt, ExitTo, CallFiniThread, Home,
        exitVars, listVars, flagVars, shootVars, vars
<1>1. ASSUME MainStart PROVE CookieInv'
  BY <1>1 DEF MainStart
<1>2. ASSUME ThreadRelease PROVE CookieInv'
  BY <1>2 DEF ThreadRelease
<1>3. ASSUME NEW c \in All, NEW u \in Threads, PthreadCreate(c, u) PROVE CookieInv'
  BY <1>3 DEF PthreadCreate, ThreadListInit
<1>4. ASSUME NEW c \in All, ThreadSupportDone(c) PROVE CookieInv'
  BY <1>4 DEF ThreadSupportDone
<1>5. ASSUME NEW t \in All, LockStep(t) PROVE CookieInv'
  BY <1>5 DEF LockStep, AcquireThreadLock
<1>6. ASSUME NEW c \in All, MakeThreadNode(c) PROVE CookieInv'
  BY <1>6 DEF MakeThreadNode
<1>7. ASSUME NEW c \in All, NEW ok \in BOOLEAN, RealPthreadCreate(c, ok) PROVE CookieInv'
  BY <1>7 DEF RealPthreadCreate
<1>8. ASSUME NEW t \in All, BeginThread(t) PROVE CookieInv'
  BY <1>8 DEF BeginThread
<1>9. ASSUME NEW t \in All, LinkThreadNode(t) PROVE CookieInv'
  BY <1>9 DEF LinkThreadNode, ListFixed
<1>10. ASSUME NEW t \in All, ApplStarted(t) PROVE CookieInv'
  BY <1>10 DEF ApplStarted
<1>11. ASSUME NEW t \in All, CancelEarly(t) PROVE CookieInv'
  BY <1>11 DEF CancelEarly
<1>11c. ASSUME NEW t \in All, CancelCleanup(t) PROVE CookieInv'
  BY <1>11c DEF CancelCleanup
<1>12. ASSUME NEW t \in All, CleanupCheck(t) PROVE CookieInv'
  BY <1>12 DEF CleanupCheck
<1>13. ASSUME NEW t \in All, StartStep(t) PROVE CookieInv'
  BY <1>13 DEF StartStep, FiniThreadStart
<1>14. ASSUME NEW t \in All, DoneStep(t) PROVE CookieInv'
  BY <1>14 DEF DoneStep, FiniThreadDone
<1>15. ASSUME NEW t \in All, UnlinkThreadNode(t) PROVE CookieInv'
  BY <1>15 DEF UnlinkThreadNode, ListFixed
<1>16. ASSUME NEW t \in All, RawReturn(t) PROVE CookieInv'
  BY <1>16 DEF RawReturn
<1>17. ASSUME LastThreadGone PROVE CookieInv'
  BY <1>17 DEF LastThreadGone
<1>18. ASSUME NEW t \in All, NEW on \in BOOLEAN, BlockShootdown(t, on) PROVE CookieInv'
  BY <1>18 DEF BlockShootdown
<1>19. ASSUME NEW t \in All, NEW on \in BOOLEAN, IgnoreNewThreads(t, on) PROVE CookieInv'
  BY <1>19 DEF IgnoreNewThreads
<1>20. ASSUME NEW t \in All, ShootdownHandler(t) PROVE CookieInv'
  BY <1>20 DEF ShootdownHandler
<1>21. ASSUME NEW t \in All, HandlerFiniStart(t) PROVE CookieInv'
  BY <1>21 DEF HandlerFiniStart
<1>22. ASSUME NEW t \in All, HandlerFiniDone(t) PROVE CookieInv'
  BY <1>22 DEF HandlerFiniDone
<1>23. ASSUME NEW t \in All, SigwaitHelper(t) PROVE CookieInv'
  BY <1>23 DEF SigwaitHelper
<1>24. ASSUME NEW t \in All, NEW kind \in {"exit", "pthread_exit"}, CallExit(t, kind) PROVE CookieInv'
  BY <1>24 DEF CallExit
<1>25. ASSUME NEW t \in All, FatalSignal(t) PROVE CookieInv'
  BY <1>25 DEF FatalSignal
<1>26. ASSUME NEW t \in All, CasCookie(t) PROVE CookieInv'
  BY <1>26 DEF CasCookie, WinsCookie
<1>26m. ASSUME NEW t \in All, MarkExitWin(t) PROVE CookieInv'
  BY <1>26m DEF MarkExitWin
<1>27. ASSUME NEW t \in All, LoserReleased(t) PROVE CookieInv'
  BY <1>27 DEF LoserReleased, CallbacksOver
<1>28. ASSUME NEW t \in All, CancelExit(t) PROVE CookieInv'
  BY <1>28 DEF CancelExit
<1>29. ASSUME NEW t \in All, ExitAgain(t) PROVE CookieInv'
  BY <1>29 DEF ExitAgain
<1>30. ASSUME NEW t \in All, BeginProcessExitDone(t) PROVE CookieInv'
  BY <1>30 DEF BeginProcessExitDone, CallFiniProcess
<1>31. ASSUME NEW t \in All, FiniProcessDone(t) PROVE CookieInv'
  BY <1>31 DEF FiniProcessDone
<1>32. ASSUME NEW t \in All, AfterEndProcess(t) PROVE CookieInv'
  BY <1>32 DEF AfterEndProcess
<1>33. ASSUME NEW t \in All, FiniLibraryDone(t) PROVE CookieInv'
  BY <1>33 DEF FiniLibraryDone
<1>34. ASSUME NEW t \in All, EnterExitCleanup(t) PROVE CookieInv'
  BY <1>34 DEF EnterExitCleanup
<1>35. ASSUME NEW t \in All, ScanNode(t) PROVE CookieInv'
  BY <1>35 DEF ScanNode
<1>36. ASSUME NEW t \in All, KillThread(t) PROVE CookieInv'
  BY <1>36 DEF KillThread
<1>37. ASSUME NEW t \in All, CheckFiniDone(t) PROVE CookieInv'
  BY <1>37 DEF CheckFiniDone
<1>38. ASSUME NEW t \in All, ScanFinished(t) PROVE CookieInv'
  BY <1>38 DEF ScanFinished, ScanOver
<1>39. ASSUME NEW t \in All, ScanAgain(t) PROVE CookieInv'
  BY <1>39 DEF ScanAgain
<1>40. ASSUME NEW t \in All, ScanTimeout(t) PROVE CookieInv'
  BY <1>40 DEF ScanTimeout, ScanOver
<1>41. ASSUME NEW t \in All, SetFiniThreadDone(t) PROVE CookieInv'
  BY <1>41 DEF SetFiniThreadDone
<1>42. ASSUME NEW t \in All, FiniSelf(t) PROVE CookieInv'
  BY <1>42 DEF FiniSelf, CallFiniProcess
<1>43. ASSUME NEW t \in All, FiniSelfDone(t) PROVE CookieInv'
  BY <1>43 DEF FiniSelfDone, CallFiniProcess
<1>44. ASSUME UNCHANGED vars PROVE CookieInv'
  BY <1>44
<1> HIDE DEF TypeOK, ThreadInv, ExitInv, CleanupInv, CookieInv, Winner, Leaving, All, PCs, Alive, NoNode, MainTn,
         InBase, InExit, InHandler, At, Goto, ExitAt, ExitTo, CallFiniThread, Home,
         exitVars, listVars, flagVars, shootVars, vars
<1>45. ASSUME NEW t \in All, LibraryStep(t) PROVE CookieInv'
  BY <1>45, <1>4, <1>5, <1>6, <1>7, <1>8, <1>9, <1>10, <1>13, <1>14, <1>15, <1>21,
     <1>22, <1>26, <1>26m, <1>27, <1>30, <1>34, <1>35, <1>36, <1>37, <1>38, <1>39, <1>41,
     <1>42, <1>43, <1>31, <1>32, <1>33
     DEF LibraryStep, LockStep, StartStep, DoneStep
<1>46. ASSUME NEW t \in All, EnvironmentStep(t) PROVE CookieInv'
  BY <1>46, <1>3, <1>7, <1>12, <1>16, <1>24, <1>18, <1>19, <1>20, <1>23, <1>40,
     <1>11, <1>11c, <1>28, <1>25, <1>29 DEF EnvironmentStep
<1> QED
  BY <1>1, <1>2, <1>17, <1>44, <1>45, <1>46 DEF Next, Gone

\* Every step keeps ListInv.
LEMMA ListStep ==
  ASSUME TypeOK, ThreadInv, NodeInv, ListInv, [Next]_vars
  PROVE  ListInv'
<1> USE ThreadsAssumption
    DEF TypeOK, ThreadInv, ListInv, All, PCs, Alive, NoNode, MainTn,
        InBase, InExit, InHandler, At, Goto, ExitAt, ExitTo, CallFiniThread, Home,
        exitVars, listVars, flagVars, shootVars, vars
<1>1. ASSUME MainStart PROVE ListInv'
  BY <1>1 DEF MainStart
<1>2. ASSUME ThreadRelease PROVE ListInv'
  BY <1>2 DEF ThreadRelease
<1>3. ASSUME NEW c \in All, NEW u \in Threads, PthreadCreate(c, u) PROVE ListInv'
  <2>1. /\ pc[u] = "unborn" /\ pc[c] \notin {"unborn", "reserved", "start", "link", "linking", "dead"} /\ c # u
        /\ arg' = arg /\ pc' \in [All -> PCs] /\ pc'[u] = "reserved" /\ arg[u] = NoNode
        /\ pc'[c] \in {"rawcreate", "support", "make"}
        /\ \A t \in All \ {c, u} : pc'[t] = pc[t]
    BY <1>3 DEF PthreadCreate
  <2>2. CASE has_used_threads
    <3>1. UNCHANGED <<tn, key, thread_list>>
      BY <1>3, <2>2 DEF PthreadCreate
    <3>2. NoNode \notin thread_list
      BY DEF NodeInv
    <3> QED
      BY <2>1, <3>1, <3>2
  <2>3. CASE ~has_used_threads
    <3>1. tn' = [tn EXCEPT ![MainTn].self = Main] /\ key' = [key EXCEPT ![Main] = MainTn] /\ thread_list' = {}
      BY <1>3, <2>3 DEF PthreadCreate, ThreadListInit
    <3>2. \A m \in Node : tn'[m].self = IF m = MainTn THEN Main ELSE tn[m].self
      BY <3>1, SelfUpdate
    <3>3. \A t \in Threads : key'[t] = NoNode
      BY <2>3, <3>1
    <3> QED
      BY <2>1, <3>1, <3>2, <3>3
  <2> QED
    BY <2>2, <2>3
<1>4. ASSUME NEW c \in All, ThreadSupportDone(c) PROVE ListInv'
  BY <1>4 DEF ThreadSupportDone
<1>5. ASSUME NEW t \in All, LockStep(t) PROVE ListInv'
  BY <1>5 DEF LockStep, AcquireThreadLock
<1>6. ASSUME NEW c \in All, MakeThreadNode(c) PROVE ListInv'
  <2>1. PICK n \in Node :
          /\ \/ n \in free_list
             \/ n >= tn_array + tn_array_pos
          /\ tn' = [tn EXCEPT ![n] = ZeroNode]
          /\ arg' = [arg EXCEPT ![child[c]] = n]
    BY <1>6, NewNode
  <2>2. /\ tn' \in [Node -> NodeFields] /\ tn'[n].self = NoThread
        /\ \A m \in Node : m # n => tn'[m] = tn[m]
    <3>1. tn'[n] = ZeroNode /\ ZeroNode.self = NoThread
      BY <2>1 DEF ZeroNode
    <3> QED
      BY <2>1, <3>1, ZeroUpdate
  <2>3. PICK u \in Threads : u = child[c] /\ pc[u] = "reserved" /\ key[u] = NoNode
    BY <1>6 DEF MakeThreadNode
  <2>4. /\ pc' = [pc EXCEPT ![c] = "create"] /\ pc[c] = "making" /\ UNCHANGED <<key, thread_list>>
    BY <1>6 DEF MakeThreadNode
  <2>5. n \notin thread_list
    BY <2>1 DEF NodeInv, Node
  <2>6. \A t \in Threads : key[t] # NoNode /\ pc[t] # "dead" => key[t] # n
    BY <2>1 DEF NodeInv, Owner, Node
  <2>7. \A m \in Node, t \in Threads : tn'[m].self = t => arg'[t] = m /\ key'[t] = m
    <3> TAKE m \in Node, t \in Threads
    <3> HAVE tn'[m].self = t
    <3>1. m # n /\ tn[m].self = t
      BY <2>2
    <3>2. arg[t] = m /\ key[t] = m
      BY <3>1
    <3>3. t # u
      BY <2>3, <3>2 DEF Node
    <3> QED
      BY <2>1, <2>3, <2>4, <3>2, <3>3
  <2>8. \A t \in Threads : key'[t] # NoNode /\ pc'[t] # "dead" => tn'[key'[t]].self = t
    BY <2>2, <2>4, <2>6
  <2>9. \A t \in Threads : pc'[t] \in {"reserved", "start", "link", "linking"} => arg'[t] \notin thread_list'
    BY <2>1, <2>3, <2>4, <2>5
  <2>10. \A t \in Threads : key'[t] # NoNode /\ pc'[t] \notin {"link", "linking", "dead"} => key'[t] \in thread_list'
    BY <2>4
  <2> QED
    BY <2>4, <2>7, <2>8, <2>9, <2>10
<1>7. ASSUME NEW c \in All, NEW ok \in BOOLEAN, RealPthreadCreate(c, ok) PROVE ListInv'
  BY <1>7 DEF RealPthreadCreate
<1>8. ASSUME NEW t \in All, BeginThread(t) PROVE ListInv'
  <2>1. /\ tn' = [tn EXCEPT ![arg[t]].self = t] /\ key' = [key EXCEPT ![t] = arg[t]]
        /\ pc[t] = "start" /\ pc' = [pc EXCEPT ![t] = "link"] /\ UNCHANGED <<arg, thread_list>>
        /\ t \in Threads /\ arg[t] # NoNode
    BY <1>8 DEF BeginThread
  <2>2. \A m \in Node : tn'[m].self = IF m = arg[t] THEN t ELSE tn[m].self
    BY <2>1, SelfUpdate
  <2>3. \A u \in Threads : u # t /\ key[u] # NoNode /\ pc[u] # "dead" => key[u] # arg[t]
    BY <2>1 DEF NodeInv, Owner
  <2> QED
    BY <2>1, <2>2, <2>3
<1>9. ASSUME NEW t \in All, LinkThreadNode(t) PROVE ListInv'
  <2>1. /\ pc[t] = "linking" /\ UNCHANGED <<tn, arg, key>> /\ t \in Threads /\ key[t] = arg[t] /\ key[t] # NoNode
        /\ \/ pc' = [pc EXCEPT ![t] = "dead"] /\ thread_list' = thread_list
           \/ pc' = [pc EXCEPT ![t] = "init"] /\ thread_list' = thread_list \cup {arg[t]}
    BY <1>9 DEF LinkThreadNode
  <2>2. \A u \in Threads : u # t /\ pc[u] \in {"reserved", "start", "link", "linking"} => arg[u] # arg[t]
    BY <2>1 DEF NodeInv, Owner
  <2> QED
    BY <2>1, <2>2
<1>10. ASSUME NEW t \in All, ApplStarted(t) PROVE ListInv'
  BY <1>10 DEF ApplStarted
<1>11. ASSUME NEW t \in All, CancelEarly(t) PROVE ListInv'
  BY <1>11 DEF CancelEarly
<1>11c. ASSUME NEW t \in All, CancelCleanup(t) PROVE ListInv'
  BY <1>11c DEF CancelCleanup
<1>12. ASSUME NEW t \in All, CleanupCheck(t) PROVE ListInv'
  BY <1>12 DEF CleanupCheck
<1>13. ASSUME NEW t \in All, StartStep(t) PROVE ListInv'
  <2>1. /\ tn' = [tn EXCEPT ![key[t]].fini_started = TRUE] /\ UNCHANGED <<arg, key, thread_list>>
    BY <1>13 DEF StartStep, FiniThreadStart
  <2>2. \/ pc[t] = "chk" /\ pc' = [pc EXCEPT ![t] = "fini"]
        \/ pc[t] = "swchk" /\ pc' = [pc EXCEPT ![t] = "swfini"]
    BY <1>13 DEF StartStep, FiniThreadStart
  <2>3. \A m \in Node : tn'[m].self = tn[m].self
    BY <2>1, WriteStarted
  <2> QED
    BY <2>1, <2>2, <2>3
<1>14. ASSUME NEW t \in All, DoneStep(t) PROVE ListInv'
  <2>1. /\ tn' = [tn EXCEPT ![key[t]].fini_done = TRUE] /\ UNCHANGED <<arg, key, thread_list>>
    BY <1>14 DEF DoneStep, FiniThreadDone
  <2>2. \/ pc[t] = "fini" /\ pc' = [pc EXCEPT ![t] = "unlink"]
        \/ pc[t] = "swfini" /\ pc' = [pc EXCEPT ![t] = "run"]
    BY <1>14 DEF DoneStep, FiniThreadDone
  <2>3. \A m \in Node : tn'[m].self = tn[m].self
    BY <2>1, WriteOther
  <2> QED
    BY <2>1, <2>2, <2>3
<1>15. ASSUME NEW t \in All, UnlinkThreadNode(t) PROVE ListInv'
  <2>1. /\ pc[t] = "unlinking" /\ pc' = [pc EXCEPT ![t] = "dead"] /\ UNCHANGED <<arg, key>>
        /\ t \in Threads /\ key[t] # NoNode /\ key[t] = arg[t] /\ arg[t] \in Node
    BY <1>15 DEF UnlinkThreadNode
  <2>2. CASE ListFixed
    <3>1. tn' = [tn EXCEPT ![arg[t]].fini_started = TRUE, ![arg[t]].fini_done = TRUE] /\ thread_list' = thread_list
      BY <1>15, <2>2 DEF UnlinkThreadNode
    <3>2. \A m \in Node : tn'[m].self = tn[m].self
      BY <3>1, WriteBoth
    <3> QED
      BY <2>1, <3>1, <3>2
  <2>3. CASE ~ListFixed
    <3>1. tn' = [tn EXCEPT ![arg[t]] = ZeroNode] /\ thread_list' = thread_list \ {arg[t]}
      BY <1>15, <2>3 DEF UnlinkThreadNode
    <3>2. /\ tn'[arg[t]].self = NoThread
          /\ \A m \in Node : m # arg[t] => tn'[m] = tn[m]
      BY <2>1, <3>1, ZeroUpdate DEF ZeroNode
    <3>3. \A u \in Threads : u # t /\ key[u] # NoNode /\ pc[u] # "dead" => key[u] # arg[t]
      BY <2>1 DEF NodeInv, Owner
    <3>4. \A m \in Node, u \in Threads : tn'[m].self = u => arg'[u] = m /\ key'[u] = m
      BY <2>1, <3>2
    <3>5. \A u \in Threads : key'[u] # NoNode /\ pc'[u] # "dead" => tn'[key'[u]].self = u
      BY <2>1, <3>2, <3>3
    <3>6. \A u \in Threads : pc'[u] \in {"reserved", "start", "link", "linking"} => arg'[u] \notin thread_list'
      BY <2>1, <3>1
    <3>7. \A u \in Threads : key'[u] # NoNode /\ pc'[u] \notin {"link", "linking", "dead"} => key'[u] \in thread_list'
      BY <2>1, <3>1, <3>3
    <3> QED
      BY <2>1, <3>4, <3>5, <3>6, <3>7
  <2> QED
    BY <2>2, <2>3
<1>16. ASSUME NEW t \in All, RawReturn(t) PROVE ListInv'
  BY <1>16 DEF RawReturn
<1>17. ASSUME LastThreadGone PROVE ListInv'
  BY <1>17 DEF LastThreadGone
<1>18. ASSUME NEW t \in All, NEW on \in BOOLEAN, BlockShootdown(t, on) PROVE ListInv'
  BY <1>18 DEF BlockShootdown
<1>19. ASSUME NEW t \in All, NEW on \in BOOLEAN, IgnoreNewThreads(t, on) PROVE ListInv'
  BY <1>19 DEF IgnoreNewThreads
<1>20. ASSUME NEW t \in All, ShootdownHandler(t) PROVE ListInv'
  BY <1>20 DEF ShootdownHandler
<1>21. ASSUME NEW t \in All, HandlerFiniStart(t) PROVE ListInv'
  BY <1>21 DEF HandlerFiniStart
<1>22. ASSUME NEW t \in All, HandlerFiniDone(t) PROVE ListInv'
  BY <1>22 DEF HandlerFiniDone
<1>23. ASSUME NEW t \in All, SigwaitHelper(t) PROVE ListInv'
  BY <1>23 DEF SigwaitHelper
<1>24. ASSUME NEW t \in All, NEW kind \in {"exit", "pthread_exit"}, CallExit(t, kind) PROVE ListInv'
  BY <1>24 DEF CallExit
<1>25. ASSUME NEW t \in All, FatalSignal(t) PROVE ListInv'
  BY <1>25 DEF FatalSignal
<1>26. ASSUME NEW t \in All, CasCookie(t) PROVE ListInv'
  BY <1>26 DEF CasCookie, WinsCookie
<1>26m. ASSUME NEW t \in All, MarkExitWin(t) PROVE ListInv'
  <2>1. UNCHANGED <<arg, key, pc, thread_list>>
    BY <1>26m DEF MarkExitWin
  <2>2. tn' = tn \/ tn' = [tn EXCEPT ![GetTn(t)].exit_win = TRUE]
    BY <1>26m DEF MarkExitWin
  <2>3. \A m \in Node : tn'[m].self = tn[m].self
    <3>1. CASE tn' = tn
      BY <3>1
    <3>2. CASE tn' = [tn EXCEPT ![GetTn(t)].exit_win = TRUE]
      BY <3>2, WriteOther
    <3> QED
      BY <2>2, <3>1, <3>2
  <2> QED
    BY <2>1, <2>3
<1>27. ASSUME NEW t \in All, LoserReleased(t) PROVE ListInv'
  BY <1>27 DEF LoserReleased, CallbacksOver
<1>28. ASSUME NEW t \in All, CancelExit(t) PROVE ListInv'
  BY <1>28 DEF CancelExit
<1>29. ASSUME NEW t \in All, ExitAgain(t) PROVE ListInv'
  BY <1>29 DEF ExitAgain
<1>30. ASSUME NEW t \in All, BeginProcessExitDone(t) PROVE ListInv'
  BY <1>30 DEF BeginProcessExitDone, CallFiniProcess
<1>31. ASSUME NEW t \in All, FiniProcessDone(t) PROVE ListInv'
  BY <1>31 DEF FiniProcessDone
<1>32. ASSUME NEW t \in All, AfterEndProcess(t) PROVE ListInv'
  BY <1>32 DEF AfterEndProcess
<1>33. ASSUME NEW t \in All, FiniLibraryDone(t) PROVE ListInv'
  BY <1>33 DEF FiniLibraryDone
<1>34. ASSUME NEW t \in All, EnterExitCleanup(t) PROVE ListInv'
  BY <1>34 DEF EnterExitCleanup
<1>35. ASSUME NEW t \in All, ScanNode(t) PROVE ListInv'
  BY <1>35 DEF ScanNode
<1>36. ASSUME NEW t \in All, KillThread(t) PROVE ListInv'
  BY <1>36 DEF KillThread
<1>37. ASSUME NEW t \in All, CheckFiniDone(t) PROVE ListInv'
  BY <1>37 DEF CheckFiniDone
<1>38. ASSUME NEW t \in All, ScanFinished(t) PROVE ListInv'
  BY <1>38 DEF ScanFinished, ScanOver
<1>39. ASSUME NEW t \in All, ScanAgain(t) PROVE ListInv'
  BY <1>39 DEF ScanAgain
<1>40. ASSUME NEW t \in All, ScanTimeout(t) PROVE ListInv'
  BY <1>40 DEF ScanTimeout, ScanOver
<1>41. ASSUME NEW t \in All, SetFiniThreadDone(t) PROVE ListInv'
  BY <1>41 DEF SetFiniThreadDone
<1>42. ASSUME NEW t \in All, FiniSelf(t) PROVE ListInv'
  <2>1. UNCHANGED <<arg, key, pc, thread_list>>
    BY <1>42 DEF FiniSelf
  <2>2. tn' = tn \/ tn' = [tn EXCEPT ![my_tn].fini_started = TRUE]
    BY <1>42 DEF FiniSelf
  <2>3. \A m \in Node : tn'[m].self = tn[m].self
    <3>1. CASE tn' = tn
      BY <3>1
    <3>2. CASE tn' = [tn EXCEPT ![my_tn].fini_started = TRUE]
      BY <3>2, WriteStarted
    <3> QED
      BY <2>2, <3>1, <3>2
  <2> QED
    BY <2>1, <2>3
<1>43. ASSUME NEW t \in All, FiniSelfDone(t) PROVE ListInv'
  BY <1>43 DEF FiniSelfDone, CallFiniProcess
<1>44. ASSUME UNCHANGED vars PROVE ListInv'
  BY <1>44
<1> HIDE DEF TypeOK, ThreadInv, ListInv, All, PCs, Alive, NoNode, MainTn,
         InBase, InExit, InHandler, At, Goto, ExitAt, ExitTo, CallFiniThread, Home,
         exitVars, listVars, flagVars, shootVars, vars
<1>45. ASSUME NEW t \in All, LibraryStep(t) PROVE ListInv'
  BY <1>45, <1>4, <1>5, <1>6, <1>7, <1>8, <1>9, <1>10, <1>13, <1>14, <1>15, <1>21,
     <1>22, <1>26, <1>26m, <1>27, <1>30, <1>34, <1>35, <1>36, <1>37, <1>38, <1>39, <1>41,
     <1>42, <1>43, <1>31, <1>32, <1>33
     DEF LibraryStep, LockStep, StartStep, DoneStep
<1>46. ASSUME NEW t \in All, EnvironmentStep(t) PROVE ListInv'
  BY <1>46, <1>3, <1>7, <1>12, <1>16, <1>24, <1>18, <1>19, <1>20, <1>23, <1>40,
     <1>11, <1>11c, <1>28, <1>25, <1>29 DEF EnvironmentStep
<1> QED
  BY <1>1, <1>2, <1>17, <1>44, <1>45, <1>46 DEF Next, Gone

\* Every step keeps WalkInv.
LEMMA WalkStep ==
  ASSUME TypeOK, ThreadInv, NodeInv, SelfInv, ExitInv, CleanupInv, ListInv, WalkInv, [Next]_vars
  PROVE  WalkInv'
<1> USE ThreadsAssumption
    DEF TypeOK, WalkInv, Walk, ExitInv, CleanupInv, Winner, NoNode, All,
        InBase, InExit, InHandler, At, Goto, ExitAt, ExitTo, CallFiniThread,
        exitVars, listVars, flagVars, shootVars, vars
<1>1. ASSUME MainStart PROVE WalkInv'
  BY <1>1 DEF MainStart
<1>2. ASSUME ThreadRelease PROVE WalkInv'
  BY <1>2 DEF ThreadRelease
<1>3. ASSUME NEW c \in All, NEW u \in Threads, PthreadCreate(c, u) PROVE WalkInv'
  BY <1>3 DEF PthreadCreate, ThreadListInit
<1>4. ASSUME NEW c \in All, ThreadSupportDone(c) PROVE WalkInv'
  BY <1>4 DEF ThreadSupportDone
<1>5. ASSUME NEW t \in All, LockStep(t) PROVE WalkInv'
  BY <1>5 DEF LockStep, AcquireThreadLock
<1>6. ASSUME NEW c \in All, MakeThreadNode(c) PROVE WalkInv'
  <2>1. PICK n \in Node :
          /\ n \in free_list \/ n >= tn_array + tn_array_pos
          /\ tn' = [tn EXCEPT ![n] = ZeroNode]
    BY <1>6, NewNode
  <2>2. \A m \in Node : m # n => tn'[m] = tn[m]
    BY <2>1, ZeroUpdate
  <2>3. n \notin thread_list
    BY <2>1 DEF NodeInv, Node
  <2>4. UNCHANGED <<xpc, key, thread_list, visited, my_tn>>
    BY <1>6 DEF MakeThreadNode
  <2> QED
    BY <2>2, <2>3, <2>4
<1>7. ASSUME NEW c \in All, NEW ok \in BOOLEAN, RealPthreadCreate(c, ok) PROVE WalkInv'
  BY <1>7 DEF RealPthreadCreate
<1>8. ASSUME NEW t \in All, BeginThread(t) PROVE WalkInv'
  <2>1. /\ tn' = [tn EXCEPT ![arg[t]].self = t] /\ key' = [key EXCEPT ![t] = arg[t]]
        /\ pc[t] = "start" /\ t \in Threads /\ xpc[t] = "none"
        /\ UNCHANGED <<xpc, thread_list, visited, my_tn>>
    BY <1>8 DEF BeginThread, ThreadInv
  <2>2. \A m \in Node : tn'[m].self = IF m = arg[t] THEN t ELSE tn[m].self
    BY <2>1, SelfUpdate
  <2>3. arg[t] \notin thread_list
    BY <2>1 DEF ListInv
  <2> QED
    BY <2>1, <2>2, <2>3
<1>9. ASSUME NEW t \in All, LinkThreadNode(t) PROVE WalkInv'
  BY <1>9 DEF LinkThreadNode, ListFixed
<1>10. ASSUME NEW t \in All, ApplStarted(t) PROVE WalkInv'
  BY <1>10 DEF ApplStarted
<1>11. ASSUME NEW t \in All, CancelEarly(t) PROVE WalkInv'
  BY <1>11 DEF CancelEarly
<1>11c. ASSUME NEW t \in All, CancelCleanup(t) PROVE WalkInv'
  BY <1>11c DEF CancelCleanup
<1>12. ASSUME NEW t \in All, CleanupCheck(t) PROVE WalkInv'
  BY <1>12 DEF CleanupCheck
<1>13. ASSUME NEW t \in All, StartStep(t) PROVE WalkInv'
  <2>1. tn' = [tn EXCEPT ![key[t]].fini_started = TRUE] /\ UNCHANGED <<xpc, key, thread_list, visited, my_tn>>
    BY <1>13 DEF StartStep, FiniThreadStart
  <2>2. \A m \in Node : tn'[m].self = tn[m].self
    BY <2>1, WriteStarted
  <2> QED
    BY <2>1, <2>2
<1>14. ASSUME NEW t \in All, DoneStep(t) PROVE WalkInv'
  <2>1. tn' = [tn EXCEPT ![key[t]].fini_done = TRUE] /\ UNCHANGED <<xpc, key, thread_list, visited, my_tn>>
    BY <1>14 DEF DoneStep, FiniThreadDone
  <2>2. \A m \in Node : tn'[m].self = tn[m].self
    BY <2>1, WriteOther
  <2> QED
    BY <2>1, <2>2
<1>15. ASSUME NEW t \in All, UnlinkThreadNode(t) PROVE WalkInv'
  <2>1. UNCHANGED <<xpc, key, visited, my_tn>>
    BY <1>15 DEF UnlinkThreadNode
  <2>2. CASE ListFixed
    <3>1. tn' = [tn EXCEPT ![arg[t]].fini_started = TRUE, ![arg[t]].fini_done = TRUE] /\ thread_list' = thread_list
      BY <1>15, <2>2 DEF UnlinkThreadNode
    <3>2. \A m \in Node : tn'[m].self = tn[m].self
      BY <3>1, WriteBoth
    <3> QED
      BY <2>1, <3>1, <3>2
  <2>3. CASE ~ListFixed
    BY <2>1, <2>3 DEF ListFixed
  <2> QED
    BY <2>2, <2>3
<1>16. ASSUME NEW t \in All, RawReturn(t) PROVE WalkInv'
  BY <1>16 DEF RawReturn
<1>17. ASSUME LastThreadGone PROVE WalkInv'
  BY <1>17 DEF LastThreadGone
<1>18. ASSUME NEW t \in All, NEW on \in BOOLEAN, BlockShootdown(t, on) PROVE WalkInv'
  BY <1>18 DEF BlockShootdown
<1>19. ASSUME NEW t \in All, NEW on \in BOOLEAN, IgnoreNewThreads(t, on) PROVE WalkInv'
  BY <1>19 DEF IgnoreNewThreads
<1>20. ASSUME NEW t \in All, ShootdownHandler(t) PROVE WalkInv'
  BY <1>20 DEF ShootdownHandler
<1>21. ASSUME NEW t \in All, HandlerFiniStart(t) PROVE WalkInv'
  BY <1>21 DEF HandlerFiniStart
<1>22. ASSUME NEW t \in All, HandlerFiniDone(t) PROVE WalkInv'
  BY <1>22 DEF HandlerFiniDone
<1>23. ASSUME NEW t \in All, SigwaitHelper(t) PROVE WalkInv'
  BY <1>23 DEF SigwaitHelper
<1>24. ASSUME NEW t \in All, NEW kind \in {"exit", "pthread_exit"}, CallExit(t, kind) PROVE WalkInv'
  BY <1>24 DEF CallExit
<1>25. ASSUME NEW t \in All, FatalSignal(t) PROVE WalkInv'
  BY <1>25 DEF FatalSignal
<1>26. ASSUME NEW t \in All, CasCookie(t) PROVE WalkInv'
  BY <1>26 DEF CasCookie, WinsCookie
<1>26m. ASSUME NEW t \in All, MarkExitWin(t) PROVE WalkInv'
  BY <1>26m DEF MarkExitWin
<1>27. ASSUME NEW t \in All, LoserReleased(t) PROVE WalkInv'
  BY <1>27 DEF LoserReleased, CallbacksOver
<1>28. ASSUME NEW t \in All, CancelExit(t) PROVE WalkInv'
  BY <1>28 DEF CancelExit
<1>29. ASSUME NEW t \in All, ExitAgain(t) PROVE WalkInv'
  BY <1>29 DEF ExitAgain
<1>30. ASSUME NEW t \in All, BeginProcessExitDone(t) PROVE WalkInv'
  BY <1>30 DEF BeginProcessExitDone, CallFiniProcess
<1>31. ASSUME NEW t \in All, FiniProcessDone(t) PROVE WalkInv'
  BY <1>31 DEF FiniProcessDone
<1>32. ASSUME NEW t \in All, AfterEndProcess(t) PROVE WalkInv'
  BY <1>32 DEF AfterEndProcess
<1>33. ASSUME NEW t \in All, FiniLibraryDone(t) PROVE WalkInv'
  BY <1>33 DEF FiniLibraryDone
<1>34. ASSUME NEW t \in All, EnterExitCleanup(t) PROVE WalkInv'
  BY <1>34 DEF EnterExitCleanup
<1>35. ASSUME NEW t \in All, ScanNode(t) PROVE WalkInv'
  <2>1. PICK n \in thread_list \ visited :
          /\ visited' = visited \cup {n}
          /\ my_tn' = IF tn[n].self = t THEN n ELSE my_tn
          /\ xpc' = [xpc EXCEPT ![t] = IF tn[n].self = t \/ ~tn[n].appl_started THEN "scan"
                                       ELSE IF tn[n].fini_started THEN "chkdone" ELSE "kill"]
    BY <1>35 DEF ScanNode
  <2>2. UNCHANGED <<tn, key, thread_list>> /\ xpc[t] = "scan"
    BY <1>35 DEF ScanNode
  <2>3. \A u \in All : xpc'[u] \in Winner => u = t
    BY <2>1, <2>2
  <2>4. xpc'[t] \in Walk
    BY <2>1
  <2>5. my_tn' # NoNode => my_tn' \in thread_list /\ tn[my_tn'].self = t
    BY <2>1, <2>2
  <2>6. key[t] = n => tn[n].self = t
    <3>1. CASE t \in Threads
      <4>1. n # NoNode
        BY DEF NodeInv
      <4>2. pc[t] # "dead"
        BY <2>2 DEF ThreadInv, Alive
      <4> QED
        BY <3>1, <4>1, <4>2 DEF ListInv
    <3>2. CASE t = Main
      BY <2>2, <3>2 DEF ThreadInv, NodeInv, MainTn
    <3> QED
      BY <3>1, <3>2
  <2>7. key[t] \in visited' \cap thread_list => my_tn' = key[t]
    <3>1. CASE key[t] = n
      BY <2>1, <2>6, <3>1
    <3>2. CASE key[t] # n
      <4>1. key[t] \in visited' \cap thread_list => my_tn = key[t]
        BY <2>1, <2>2, <3>2
      <4>2. tn[n].self = t => n = key[t]
        <5>1. CASE t \in Threads
          BY <5>1 DEF ListInv
        <5>2. CASE t = Main
          BY <5>2 DEF SelfInv
        <5> QED
          BY <5>1, <5>2
      <4> QED
        BY <2>1, <3>2, <4>1, <4>2
    <3> QED
      BY <3>1, <3>2
  <2> QED
    BY <2>2, <2>3, <2>4, <2>5, <2>7
<1>36. ASSUME NEW t \in All, KillThread(t) PROVE WalkInv'
  BY <1>36 DEF KillThread
<1>37. ASSUME NEW t \in All, CheckFiniDone(t) PROVE WalkInv'
  BY <1>37 DEF CheckFiniDone
<1>38. ASSUME NEW t \in All, ScanFinished(t) PROVE WalkInv'
  BY <1>38 DEF ScanFinished, ScanOver
<1>39. ASSUME NEW t \in All, ScanAgain(t) PROVE WalkInv'
  BY <1>39 DEF ScanAgain
<1>40. ASSUME NEW t \in All, ScanTimeout(t) PROVE WalkInv'
  BY <1>40 DEF ScanTimeout, ScanOver
<1>41. ASSUME NEW t \in All, SetFiniThreadDone(t) PROVE WalkInv'
  BY <1>41 DEF SetFiniThreadDone
<1>42. ASSUME NEW t \in All, FiniSelf(t) PROVE WalkInv'
  <2>1. UNCHANGED <<key, thread_list, visited, my_tn>> /\ xpc[t] = "self"
    BY <1>42 DEF FiniSelf
  <2>2. tn' = tn \/ tn' = [tn EXCEPT ![my_tn].fini_started = TRUE]
    BY <1>42 DEF FiniSelf
  <2>3. \A m \in Node : tn'[m].self = tn[m].self
    <3>1. CASE tn' = tn
      BY <3>1
    <3>2. CASE tn' = [tn EXCEPT ![my_tn].fini_started = TRUE]
      BY <3>2, WriteStarted
    <3> QED
      BY <2>2, <3>1, <3>2
  <2>4. xpc' = [xpc EXCEPT ![t] = "selffini"] \/ xpc' = [xpc EXCEPT ![t] = "fini"]
    BY <1>42 DEF FiniSelf, CallFiniProcess
  <2> QED
    BY <2>1, <2>3, <2>4
<1>43. ASSUME NEW t \in All, FiniSelfDone(t) PROVE WalkInv'
  BY <1>43 DEF FiniSelfDone, CallFiniProcess
<1>44. ASSUME UNCHANGED vars PROVE WalkInv'
  BY <1>44
<1> HIDE DEF TypeOK, WalkInv, Walk, ExitInv, CleanupInv, Winner, NoNode, All,
        InBase, InExit, InHandler, At, Goto, ExitAt, ExitTo, CallFiniThread,
        exitVars, listVars, flagVars, shootVars, vars
<1>45. ASSUME NEW t \in All, LibraryStep(t) PROVE WalkInv'
  BY <1>45, <1>4, <1>5, <1>6, <1>7, <1>8, <1>9, <1>10, <1>13, <1>14, <1>15, <1>21,
     <1>22, <1>26, <1>26m, <1>27, <1>30, <1>34, <1>35, <1>36, <1>37, <1>38, <1>39, <1>41,
     <1>42, <1>43, <1>31, <1>32, <1>33
     DEF LibraryStep, LockStep, StartStep, DoneStep
<1>46. ASSUME NEW t \in All, EnvironmentStep(t) PROVE WalkInv'
  BY <1>46, <1>3, <1>7, <1>12, <1>16, <1>24, <1>18, <1>19, <1>20, <1>23, <1>40,
     <1>11, <1>11c, <1>28, <1>25, <1>29 DEF EnvironmentStep
<1> QED
  BY <1>1, <1>2, <1>17, <1>44, <1>45, <1>46 DEF Next, Gone

\* Every step keeps MarkInv.
LEMMA MarkStep ==
  ASSUME TypeOK, ThreadInv, NodeInv, SelfInv, ListInv, WalkInv, MainInv, MarkInv, [Next]_vars
  PROVE  MarkInv'
<1> USE ThreadsAssumption
    DEF TypeOK, ThreadInv, MarkInv, InAppl, All, NoNode, MainTn, Alive, MayRunFiniThread,
        InBase, InExit, InHandler, At, Goto, ExitAt, ExitTo, CallFiniThread, Home, GetTn,
        exitVars, listVars, flagVars, shootVars, vars
<1>1. ASSUME MainStart PROVE MarkInv'
  BY <1>1 DEF MainStart
<1>2. ASSUME ThreadRelease PROVE MarkInv'
  BY <1>2 DEF ThreadRelease
<1>3. ASSUME NEW c \in All, NEW u \in Threads, PthreadCreate(c, u) PROVE MarkInv'
  <2>1. /\ pc[u] = "unborn" /\ pc[c] = Home(c) /\ c # u /\ hpc[c] = "none"
        /\ UNCHANGED <<arg, hpc>> /\ pc' \in [All -> PCs] /\ pc'[u] = "reserved" /\ arg[u] = NoNode
        /\ pc'[c] \in {"rawcreate", "support", "make"}
        /\ \A t \in All \ {c, u} : pc'[t] = pc[t]
    BY <1>3 DEF PthreadCreate, PCs
  <2>2. /\ \A m \in Node : /\ tn'[m].appl_started = tn[m].appl_started
                           /\ tn'[m].fini_started = tn[m].fini_started
                           /\ tn'[m].block_shootdown = tn[m].block_shootdown
        /\ \A t \in Threads : key'[t] = key[t]
    <3>1. CASE has_used_threads
      BY <1>3, <3>1 DEF PthreadCreate
    <3>2. CASE ~has_used_threads
      <4>1. tn' = [tn EXCEPT ![MainTn].self = Main] /\ key' = [key EXCEPT ![Main] = MainTn]
        BY <1>3, <3>2 DEF PthreadCreate, ThreadListInit
      <4> QED
        BY <4>1, WriteSelf
    <3> QED
      BY <3>1, <3>2
  <2>3. c \in Threads => key[c] = NoNode \/ tn[key[c]].appl_started
    BY <2>1
  <2>4. \A t \in Threads : key[t] # NoNode => key[t] \in Node
    OBVIOUS
  <2>5. key[u] = NoNode /\ hpc[u] # "chk"
    BY <2>1
  <2>6. \A t \in Threads : pc'[t] \in {"reserved", "start", "link", "linking", "init", "fini", "swfini", "unlink", "unlinking"} =>
          t = u \/ (pc'[t] = pc[t] /\ t # c)
    BY <2>1
  <2>7. \A t \in Threads : pc'[t] \in InAppl => t = c \/ pc'[t] = pc[t]
    BY <2>1
  <2>8. \A t \in Threads : hpc[t] = "chk" => pc'[t] = pc[t]
    BY <2>1, <2>5
  <2>9. MainTn \in Node
    BY MainTnIsNode
  <2> HIDE DEF Home
  <2>10. ~tn'[MainTn].appl_started
    BY <2>2, <2>9
  <2>11. \A t \in Threads :
           /\ pc'[t] \in {"reserved", "start", "link", "linking", "init"} /\ arg'[t] # NoNode => ~tn'[arg'[t]].appl_started
           /\ pc'[t] \in {"reserved", "start"} /\ arg'[t] # NoNode => ~tn'[arg'[t]].fini_started
    BY <2>1, <2>2, <2>6
  <2>12. \A n \in Node : tn'[n].block_shootdown => "block" \in Moves
    BY <2>2
  <2>13. \A t \in Threads : pc'[t] \in InAppl /\ key'[t] # NoNode => tn'[key'[t]].appl_started
    BY <2>2, <2>3, <2>4, <2>7
  <2>14. \A t \in All : pc'[t] \in {"swchk", "swfini"} \/ hpc'[t] = "chk" => t \in Threads
    BY <2>1
  <2>15. \A t \in Threads : pc'[t] \in {"fini", "swfini", "unlink", "unlinking"} => tn'[key'[t]].fini_started
    BY <2>1, <2>2, <2>4, <2>6
  <2>16. \A t \in Threads : hpc'[t] = "chk" => key'[t] # NoNode /\ pc'[t] \in InAppl
    BY <2>1, <2>2, <2>8
  <2> QED
    BY <2>10, <2>11, <2>12, <2>13, <2>14, <2>15, <2>16
<1>4. ASSUME NEW c \in All, ThreadSupportDone(c) PROVE MarkInv'
  BY <1>4 DEF ThreadSupportDone
<1>5. ASSUME NEW t \in All, LockStep(t) PROVE MarkInv'
  BY <1>5 DEF LockStep, AcquireThreadLock
<1>6. ASSUME NEW c \in All, MakeThreadNode(c) PROVE MarkInv'
  <2>1. PICK n \in Node :
          /\ n \in free_list \/ n >= tn_array + tn_array_pos
          /\ tn' = [tn EXCEPT ![n] = ZeroNode]
          /\ arg' = [arg EXCEPT ![child[c]] = n]
    BY <1>6, NewNode
  <2>2. /\ ~tn'[n].appl_started /\ ~tn'[n].fini_started /\ ~tn'[n].block_shootdown
        /\ \A m \in Node : m # n => tn'[m] = tn[m]
    <3>1. tn'[n] = ZeroNode
      BY <2>1
    <3> QED
      BY <2>1, <3>1, ZeroUpdate DEF ZeroNode
  <2>3. PICK u \in Threads : u = child[c] /\ pc[u] = "reserved" /\ key[u] = NoNode
    BY <1>6 DEF MakeThreadNode
  <2>4. /\ pc' = [pc EXCEPT ![c] = "create"] /\ pc[c] = "making" /\ UNCHANGED <<key, hpc>>
    BY <1>6 DEF MakeThreadNode
  <2>5. \A t \in Threads : arg[t] # NoNode /\ pc[t] # "dead" => arg[t] # n
    BY <2>1 DEF NodeInv, Owner, Node
  <2>6. ~tn'[MainTn].appl_started
    BY <2>1, <2>2, MainTnIsNode
  <2>7. \A t \in Threads :
           /\ pc'[t] \in {"reserved", "start", "link", "linking", "init"} /\ arg'[t] # NoNode => ~tn'[arg'[t]].appl_started
           /\ pc'[t] \in {"reserved", "start"} /\ arg'[t] # NoNode => ~tn'[arg'[t]].fini_started
    <3> TAKE t \in Threads
    <3>1. CASE t = u
      BY <2>1, <2>2, <2>3, <3>1
    <3>2. CASE t # u
      BY <2>1, <2>2, <2>3, <2>4, <2>5, <3>2
    <3> QED
      BY <3>1, <3>2
  <2>8. \A m \in Node : tn'[m].block_shootdown => "block" \in Moves
    BY <2>2
  <2>9. \A t \in Threads : pc'[t] \in InAppl /\ key'[t] # NoNode => tn'[key'[t]].appl_started
    BY <2>2, <2>4, <2>5
  <2>10. \A t \in All : pc'[t] \in {"swchk", "swfini"} \/ hpc'[t] = "chk" => t \in Threads
    BY <2>4
  <2>11. \A t \in Threads : pc'[t] \in {"fini", "swfini", "unlink", "unlinking"} => tn'[key'[t]].fini_started
    BY <2>2, <2>4, <2>5
  <2>12. \A t \in Threads : hpc'[t] = "chk" => key'[t] # NoNode /\ pc'[t] \in InAppl
    BY <2>4
  <2> QED
    BY <2>6, <2>7, <2>8, <2>9, <2>10, <2>11, <2>12
<1>7. ASSUME NEW c \in All, NEW ok \in BOOLEAN, RealPthreadCreate(c, ok) PROVE MarkInv'
  BY <1>7 DEF RealPthreadCreate
<1>8. ASSUME NEW t \in All, BeginThread(t) PROVE MarkInv'
  BY <1>8 DEF BeginThread
<1>9. ASSUME NEW t \in All, LinkThreadNode(t) PROVE MarkInv'
  BY <1>9 DEF LinkThreadNode, ListFixed
<1>10. ASSUME NEW t \in All, ApplStarted(t) PROVE MarkInv'
  <2>1. /\ tn' = [tn EXCEPT ![arg[t]].appl_started = TRUE] /\ UNCHANGED <<arg, key, hpc>>
        /\ pc[t] = "init" /\ pc' = [pc EXCEPT ![t] = "run"] /\ t \in Threads /\ key[t] = arg[t] /\ arg[t] # NoNode
    BY <1>10 DEF ApplStarted
  <2>2. \A m \in Node : /\ tn'[m].appl_started = IF m = arg[t] THEN TRUE ELSE tn[m].appl_started
                        /\ tn'[m].fini_started = tn[m].fini_started
                        /\ tn'[m].block_shootdown = tn[m].block_shootdown
    BY <2>1, WriteAppl
  <2>3. /\ arg[t] # MainTn
        /\ \A u \in Threads : u # t /\ arg[u] # NoNode /\ pc[u] # "dead" => arg[u] # arg[t]
    BY <2>1 DEF NodeInv, Owner
  <2> QED
    BY <2>1, <2>2, <2>3, MainTnIsNode
<1>11. ASSUME NEW t \in All, CancelEarly(t) PROVE MarkInv'
  BY <1>11 DEF CancelEarly
<1>11c. ASSUME NEW t \in All, CancelCleanup(t) PROVE MarkInv'
  BY <1>11c DEF CancelCleanup
<1>12. ASSUME NEW t \in All, CleanupCheck(t) PROVE MarkInv'
  BY <1>12 DEF CleanupCheck
<1>13. ASSUME NEW t \in All, StartStep(t) PROVE MarkInv'
  <2>1. /\ tn' = [tn EXCEPT ![key[t]].fini_started = TRUE] /\ UNCHANGED <<arg, key, hpc>>
        /\ t \in Threads /\ key[t] # NoNode /\ key[t] = arg[t] /\ hpc[t] = "none"
    BY <1>13 DEF StartStep, FiniThreadStart
  <2>2. \/ pc[t] = "chk" /\ pc' = [pc EXCEPT ![t] = "fini"]
        \/ pc[t] = "swchk" /\ pc' = [pc EXCEPT ![t] = "swfini"]
    BY <1>13 DEF StartStep, FiniThreadStart
  <2>3. \A m \in Node : /\ tn'[m].appl_started = tn[m].appl_started
                        /\ tn'[m].fini_started = IF m = key[t] THEN TRUE ELSE tn[m].fini_started
                        /\ tn'[m].block_shootdown = tn[m].block_shootdown
    BY <2>1, WriteStarted
  <2>4. \A u \in Threads : u # t /\ arg[u] # NoNode /\ pc[u] # "dead" => arg[u] # key[t]
    BY <2>1, <2>2 DEF NodeInv, Owner
  <2> QED
    BY <2>1, <2>2, <2>3, <2>4, MainTnIsNode
<1>14. ASSUME NEW t \in All, DoneStep(t) PROVE MarkInv'
  <2>1. /\ tn' = [tn EXCEPT ![key[t]].fini_done = TRUE] /\ UNCHANGED <<arg, key, hpc>>
        /\ t \in Threads /\ key[t] # NoNode /\ hpc[t] = "none"
    BY <1>14 DEF DoneStep, FiniThreadDone
  <2>2. \/ pc[t] = "fini" /\ pc' = [pc EXCEPT ![t] = "unlink"]
        \/ pc[t] = "swfini" /\ pc' = [pc EXCEPT ![t] = "run"]
    BY <1>14 DEF DoneStep, FiniThreadDone
  <2>3. \A m \in Node : /\ tn'[m].appl_started = tn[m].appl_started
                        /\ tn'[m].fini_started = tn[m].fini_started
                        /\ tn'[m].block_shootdown = tn[m].block_shootdown
    BY <2>1, WriteOther
  <2> QED
    BY <2>1, <2>2, <2>3, MainTnIsNode
<1>15. ASSUME NEW t \in All, UnlinkThreadNode(t) PROVE MarkInv'
  <2>1. /\ pc[t] = "unlinking" /\ pc' = [pc EXCEPT ![t] = "dead"] /\ UNCHANGED <<arg, key, hpc>>
        /\ t \in Threads /\ key[t] # NoNode /\ key[t] = arg[t] /\ arg[t] \in Node /\ hpc[t] = "none"
    BY <1>15 DEF UnlinkThreadNode
  <2>2. /\ arg[t] # MainTn
        /\ \A u \in Threads : u # t /\ arg[u] # NoNode /\ pc[u] # "dead" => arg[u] # arg[t]
    BY <2>1 DEF NodeInv, Owner
  <2>3. /\ \A m \in Node : m # arg[t] => /\ tn'[m].appl_started = tn[m].appl_started
                                         /\ tn'[m].fini_started = tn[m].fini_started
        /\ \A m \in Node : tn'[m].block_shootdown => tn[m].block_shootdown
    <3>1. CASE ListFixed
      <4>1. tn' = [tn EXCEPT ![arg[t]].fini_started = TRUE, ![arg[t]].fini_done = TRUE]
        BY <1>15, <3>1 DEF UnlinkThreadNode
      <4> QED
        BY <4>1, WriteBoth
    <3>2. CASE ~ListFixed
      <4>1. tn' = [tn EXCEPT ![arg[t]] = ZeroNode]
        BY <1>15, <3>2 DEF UnlinkThreadNode
      <4>2. ~tn'[arg[t]].block_shootdown
        BY <2>1, <4>1 DEF ZeroNode
      <4>3. \A m \in Node : m # arg[t] => tn'[m] = tn[m]
        BY <4>1, ZeroUpdate
      <4> QED
        BY <4>2, <4>3
    <3> QED
      BY <3>1, <3>2
  <2> QED
    BY <2>1, <2>2, <2>3, MainTnIsNode
<1>16. ASSUME NEW t \in All, RawReturn(t) PROVE MarkInv'
  BY <1>16 DEF RawReturn
<1>17. ASSUME LastThreadGone PROVE MarkInv'
  BY <1>17 DEF LastThreadGone
<1>18. ASSUME NEW t \in All, NEW on \in BOOLEAN, BlockShootdown(t, on) PROVE MarkInv'
  BY <1>18 DEF BlockShootdown
<1>19. ASSUME NEW t \in All, NEW on \in BOOLEAN, IgnoreNewThreads(t, on) PROVE MarkInv'
  BY <1>19 DEF IgnoreNewThreads
<1>20. ASSUME NEW t \in All, ShootdownHandler(t) PROVE MarkInv'
  <2>1. /\ UNCHANGED <<tn, pc, arg, key>>
        /\ hpc' = [hpc EXCEPT ![t] = IF key[t] # NoNode /\ MayRunFiniThread(key[t]) THEN "chk" ELSE "none"]
        /\ Alive(t)
    BY <1>20 DEF ShootdownHandler
  <2>2. CASE key[t] # NoNode /\ MayRunFiniThread(key[t])
    <3>1. tn[key[t]].appl_started /\ ~tn[key[t]].fini_started
      BY <2>2
    <3>2. t # Main
      BY <2>2, <3>1
    <3>3. key[t] = arg[t] /\ t \in Threads
      BY <2>2, <3>2
    <3>4. pc[t] \notin {"premain", "release", "raw"}
      BY <3>3, <2>2 DEF ListInv
    <3>5. pc[t] \in InAppl
      BY <2>1, <2>2, <3>1, <3>3, <3>4 DEF PCs
    <3> QED
      BY <2>1, <3>3, <3>5, <2>2
  <2>3. CASE ~(key[t] # NoNode /\ MayRunFiniThread(key[t]))
    BY <2>1, <2>3
  <2> QED
    BY <2>2, <2>3
<1>21. ASSUME NEW t \in All, HandlerFiniStart(t) PROVE MarkInv'
  BY <1>21 DEF HandlerFiniStart
<1>22. ASSUME NEW t \in All, HandlerFiniDone(t) PROVE MarkInv'
  BY <1>22 DEF HandlerFiniDone
<1>23. ASSUME NEW t \in All, SigwaitHelper(t) PROVE MarkInv'
  BY <1>23 DEF SigwaitHelper
<1>24. ASSUME NEW t \in All, NEW kind \in {"exit", "pthread_exit"}, CallExit(t, kind) PROVE MarkInv'
  BY <1>24 DEF CallExit
<1>25. ASSUME NEW t \in All, FatalSignal(t) PROVE MarkInv'
  BY <1>25 DEF FatalSignal
<1>26. ASSUME NEW t \in All, CasCookie(t) PROVE MarkInv'
  BY <1>26 DEF CasCookie, WinsCookie
<1>26m. ASSUME NEW t \in All, MarkExitWin(t) PROVE MarkInv'
  <2>1. UNCHANGED <<arg, key, pc, hpc>>
    BY <1>26m DEF MarkExitWin
  <2>2. tn' = tn \/ tn' = [tn EXCEPT ![GetTn(t)].exit_win = TRUE]
    BY <1>26m DEF MarkExitWin
  <2>3. \A m \in Node : /\ tn'[m].appl_started = tn[m].appl_started
                        /\ tn'[m].fini_started = tn[m].fini_started
                        /\ tn'[m].block_shootdown = tn[m].block_shootdown
    <3>1. CASE tn' = tn
      BY <3>1
    <3>2. CASE tn' = [tn EXCEPT ![GetTn(t)].exit_win = TRUE]
      BY <3>2, WriteOther
    <3> QED
      BY <2>2, <3>1, <3>2
  <2> QED
    BY <2>1, <2>3, MainTnIsNode
<1>27. ASSUME NEW t \in All, LoserReleased(t) PROVE MarkInv'
  BY <1>27 DEF LoserReleased, CallbacksOver
<1>28. ASSUME NEW t \in All, CancelExit(t) PROVE MarkInv'
  BY <1>28 DEF CancelExit
<1>29. ASSUME NEW t \in All, ExitAgain(t) PROVE MarkInv'
  BY <1>29 DEF ExitAgain
<1>30. ASSUME NEW t \in All, BeginProcessExitDone(t) PROVE MarkInv'
  BY <1>30 DEF BeginProcessExitDone, CallFiniProcess
<1>31. ASSUME NEW t \in All, FiniProcessDone(t) PROVE MarkInv'
  BY <1>31 DEF FiniProcessDone
<1>32. ASSUME NEW t \in All, AfterEndProcess(t) PROVE MarkInv'
  BY <1>32 DEF AfterEndProcess
<1>33. ASSUME NEW t \in All, FiniLibraryDone(t) PROVE MarkInv'
  BY <1>33 DEF FiniLibraryDone
<1>34. ASSUME NEW t \in All, EnterExitCleanup(t) PROVE MarkInv'
  BY <1>34 DEF EnterExitCleanup
<1>35. ASSUME NEW t \in All, ScanNode(t) PROVE MarkInv'
  BY <1>35 DEF ScanNode
<1>36. ASSUME NEW t \in All, KillThread(t) PROVE MarkInv'
  BY <1>36 DEF KillThread
<1>37. ASSUME NEW t \in All, CheckFiniDone(t) PROVE MarkInv'
  BY <1>37 DEF CheckFiniDone
<1>38. ASSUME NEW t \in All, ScanFinished(t) PROVE MarkInv'
  BY <1>38 DEF ScanFinished, ScanOver
<1>39. ASSUME NEW t \in All, ScanAgain(t) PROVE MarkInv'
  BY <1>39 DEF ScanAgain
<1>40. ASSUME NEW t \in All, ScanTimeout(t) PROVE MarkInv'
  BY <1>40 DEF ScanTimeout, ScanOver
<1>41. ASSUME NEW t \in All, SetFiniThreadDone(t) PROVE MarkInv'
  BY <1>41 DEF SetFiniThreadDone
<1>42. ASSUME NEW t \in All, FiniSelf(t) PROVE MarkInv'
  <2>1. UNCHANGED <<arg, key, pc, hpc>> /\ xpc[t] = "self"
    BY <1>42 DEF FiniSelf
  <2>2. CASE tn' = tn
    BY <2>1, <2>2
  <2>3. CASE my_tn # NoNode /\ tn' = [tn EXCEPT ![my_tn].fini_started = TRUE]
    <3>1. \A m \in Node : /\ tn'[m].appl_started = tn[m].appl_started
                          /\ tn'[m].fini_started = IF m = my_tn THEN TRUE ELSE tn[m].fini_started
                          /\ tn'[m].block_shootdown = tn[m].block_shootdown
      BY <2>3, WriteStarted
    <3>2. my_tn \in thread_list
      BY <2>1, <2>3 DEF WalkInv
    <3>3. \A u \in Threads : pc[u] \in {"reserved", "start"} => arg[u] # my_tn
      BY <3>2 DEF ListInv
    <3>9. \A u \in Threads : /\ arg[u] # NoNode => arg[u] \in Node
                             /\ key[u] # NoNode => key[u] \in Node
      OBVIOUS
    <3>4. \A u \in Threads : pc[u] \in {"reserved", "start"} /\ arg[u] # NoNode => ~tn'[arg[u]].fini_started
      BY <3>1, <3>3, <3>9
    <3>5. \A u \in Threads : pc[u] \in {"fini", "swfini", "unlink", "unlinking"} => tn'[key[u]].fini_started
      <4>1. \A m \in Node : tn[m].fini_started => tn'[m].fini_started
        BY <3>1
      <4>2. \A u \in Threads : pc[u] \in {"fini", "swfini", "unlink", "unlinking"} => key[u] # NoNode
        OBVIOUS
      <4> QED
        BY <3>9, <4>1, <4>2
    <3>6. \A u \in Threads : pc[u] \in InAppl /\ key[u] # NoNode => tn'[key[u]].appl_started
      BY <3>1, <3>9
    <3>7. \A u \in Threads : pc[u] \in {"reserved", "start", "link", "linking", "init"} /\ arg[u] # NoNode => ~tn'[arg[u]].appl_started
      BY <3>1, <3>9
    <3>8. ~tn'[MainTn].appl_started /\ \A n \in Node : tn'[n].block_shootdown => "block" \in Moves
      BY <3>1, MainTnIsNode
    <3> QED
      BY <2>1, <3>4, <3>5, <3>6, <3>7, <3>8
  <2> QED
    BY <1>42, <2>2, <2>3 DEF FiniSelf
<1>43. ASSUME NEW t \in All, FiniSelfDone(t) PROVE MarkInv'
  BY <1>43 DEF FiniSelfDone, CallFiniProcess
<1>44. ASSUME UNCHANGED vars PROVE MarkInv'
  BY <1>44
<1> HIDE DEF TypeOK, ThreadInv, MarkInv, InAppl, All, NoNode, MainTn, Alive, MayRunFiniThread,
        InBase, InExit, InHandler, At, Goto, ExitAt, ExitTo, CallFiniThread, Home, GetTn,
        exitVars, listVars, flagVars, shootVars, vars
<1>45. ASSUME NEW t \in All, LibraryStep(t) PROVE MarkInv'
  BY <1>45, <1>4, <1>5, <1>6, <1>7, <1>8, <1>9, <1>10, <1>13, <1>14, <1>15, <1>21,
     <1>22, <1>26, <1>26m, <1>27, <1>30, <1>34, <1>35, <1>36, <1>37, <1>38, <1>39, <1>41,
     <1>42, <1>43, <1>31, <1>32, <1>33
     DEF LibraryStep, LockStep, StartStep, DoneStep
<1>46. ASSUME NEW t \in All, EnvironmentStep(t) PROVE MarkInv'
  BY <1>46, <1>3, <1>7, <1>12, <1>16, <1>24, <1>18, <1>19, <1>20, <1>23, <1>40,
     <1>11, <1>11c, <1>28, <1>25, <1>29 DEF EnvironmentStep
<1> QED
  BY <1>1, <1>2, <1>17, <1>44, <1>45, <1>46 DEF Next, Gone

\* Every step keeps CountInv.
LEMMA CountStep ==
  ASSUME TypeOK, ThreadInv, NodeInv, SelfInv, ExitInv, CookieInv, ListInv, WalkInv, MarkInv, CountInv, [Next]_vars
  PROVE  CountInv'
<1> USE ThreadsAssumption
    DEF TypeOK, ThreadInv, CountInv, Pending, All, NoNode, MainTn, Alive, MayRunFiniThread,
        InBase, InExit, InHandler, At, Goto, ExitAt, ExitTo, CallFiniThread, Home, GetTn,
        exitVars, listVars, flagVars, shootVars, vars
<1>1. ASSUME MainStart PROVE CountInv'
  BY <1>1 DEF MainStart
<1>2. ASSUME ThreadRelease PROVE CountInv'
  BY <1>2 DEF ThreadRelease
<1>3. ASSUME NEW c \in All, NEW u \in Threads, PthreadCreate(c, u) PROVE CountInv'
  BY <1>3 DEF PthreadCreate, ThreadListInit
<1>4. ASSUME NEW c \in All, ThreadSupportDone(c) PROVE CountInv'
  BY <1>4 DEF ThreadSupportDone
<1>5. ASSUME NEW t \in All, LockStep(t) PROVE CountInv'
  BY <1>5 DEF LockStep, AcquireThreadLock
<1>6. ASSUME NEW c \in All, MakeThreadNode(c) PROVE CountInv'
  <2>1. PICK n \in Node :
          /\ n \in free_list \/ n >= tn_array + tn_array_pos
          /\ tn' = [tn EXCEPT ![n] = ZeroNode]
    BY <1>6, NewNode
  <2>2. \A m \in Node : m # n => tn'[m] = tn[m]
    BY <2>1, ZeroUpdate
  <2>3. /\ pc' = [pc EXCEPT ![c] = "create"] /\ pc[c] = "making"
        /\ UNCHANGED <<key, hpc, fini_thread_calls, end_process_cookie>>
    BY <1>6 DEF MakeThreadNode
  <2>4. \A t \in Threads : key[t] # NoNode /\ pc[t] # "dead" => key[t] # n /\ key[t] \in Node
    BY <2>1 DEF NodeInv, Owner, Node
  <2> QED
    BY <2>2, <2>3, <2>4
<1>7. ASSUME NEW c \in All, NEW ok \in BOOLEAN, RealPthreadCreate(c, ok) PROVE CountInv'
  BY <1>7 DEF RealPthreadCreate
<1>8. ASSUME NEW t \in All, BeginThread(t) PROVE CountInv'
  <2>1. /\ tn' = [tn EXCEPT ![arg[t]].self = t] /\ key' = [key EXCEPT ![t] = arg[t]]
        /\ pc[t] = "start" /\ pc' = [pc EXCEPT ![t] = "link"] /\ t \in Threads /\ arg[t] # NoNode
        /\ UNCHANGED <<hpc, fini_thread_calls, end_process_cookie>>
    BY <1>8 DEF BeginThread
  <2>2. \A m \in Node : tn'[m].fini_started = tn[m].fini_started
    BY <2>1, WriteSelf
  <2>3. key[t] = NoNode /\ arg[t] \in Node
    BY <2>1 DEF ListInv
  <2>4. ~tn[arg[t]].fini_started
    BY <2>1 DEF MarkInv
  <2>5. \A u \in Threads : u # t => key'[u] = key[u] /\ pc'[u] = pc[u]
    BY <2>1
  <2>6. key'[t] = arg[t] /\ pc'[t] = "link" /\ fini_thread_calls[t] = 0
    BY <2>1, <2>3
  <2>7. \A u \in Threads : key'[u] # NoNode /\ pc'[u] # "dead" => (tn'[key'[u]].fini_started <=> fini_thread_calls'[u] > 0)
    BY <2>1, <2>2, <2>3, <2>4, <2>5, <2>6
  <2> QED
    BY <2>1, <2>5, <2>6, <2>7
<1>9. ASSUME NEW t \in All, LinkThreadNode(t) PROVE CountInv'
  BY <1>9 DEF LinkThreadNode, ListFixed
<1>10. ASSUME NEW t \in All, ApplStarted(t) PROVE CountInv'
  BY <1>10 DEF ApplStarted
<1>11. ASSUME NEW t \in All, CancelEarly(t) PROVE CountInv'
  BY <1>11 DEF CancelEarly
<1>11c. ASSUME NEW t \in All, CancelCleanup(t) PROVE CountInv'
  BY <1>11c DEF CancelCleanup
<1>12. ASSUME NEW t \in All, CleanupCheck(t) PROVE CountInv'
  BY <1>12 DEF CleanupCheck
<1>13. ASSUME NEW t \in All, StartStep(t) PROVE CountInv'
  <2>1. /\ tn' = [tn EXCEPT ![key[t]].fini_started = TRUE]
        /\ fini_thread_calls' = [fini_thread_calls EXCEPT ![t] = @ + 1]
        /\ UNCHANGED <<key, hpc, end_process_cookie>>
    BY <1>13 DEF StartStep, FiniThreadStart
  <2>2. \/ pc[t] = "chk" /\ pc' = [pc EXCEPT ![t] = "fini"]
        \/ pc[t] = "swchk" /\ pc' = [pc EXCEPT ![t] = "swfini"]
    BY <1>13 DEF StartStep, FiniThreadStart
  <2>8. t \in Threads /\ key[t] # NoNode /\ key[t] = arg[t] /\ key[t] \in Node
    <3>1. t \in Threads /\ key[t] # NoNode
      BY <2>2 DEF MarkInv
    <3> QED
      BY <3>1
  <2>3. \A m \in Node : tn'[m].fini_started = IF m = key[t] THEN TRUE ELSE tn[m].fini_started
    BY <2>8, <2>1, WriteStarted
  <2>4. \A u \in Threads : u # t /\ key[u] # NoNode /\ pc[u] # "dead" => key[u] # key[t] /\ key[u] \in Node
    BY <2>8, <2>1, <2>2 DEF NodeInv, Owner
  <2>5. fini_thread_calls'[t] > 0 /\ fini_thread_calls'[t] = fini_thread_calls[t] + 1
    BY <2>8, <2>1
  <2>6. \A u \in Threads : key'[u] # NoNode /\ pc'[u] # "dead" => (tn'[key'[u]].fini_started <=> fini_thread_calls'[u] > 0)
    BY <2>8, <2>1, <2>2, <2>3, <2>4, <2>5
  <2>7. \A u \in Threads : fini_thread_calls'[u] + Pending(u)' <= 2
    BY <2>8, <2>1, <2>2
  <2> QED
    BY <2>8, <2>1, <2>2, <2>6, <2>7
<1>14. ASSUME NEW t \in All, DoneStep(t) PROVE CountInv'
  <2>1. /\ tn' = [tn EXCEPT ![key[t]].fini_done = TRUE]
        /\ UNCHANGED <<key, hpc, fini_thread_calls, end_process_cookie>>
    BY <1>14 DEF DoneStep, FiniThreadDone
  <2>2. \A m \in Node : tn'[m].fini_started = tn[m].fini_started
    BY <2>1, WriteOther
  <2>3. \/ pc[t] = "fini" /\ pc' = [pc EXCEPT ![t] = "unlink"]
        \/ pc[t] = "swfini" /\ pc' = [pc EXCEPT ![t] = "run"]
    BY <1>14 DEF DoneStep, FiniThreadDone
  <2> QED
    BY <2>1, <2>2, <2>3
<1>15. ASSUME NEW t \in All, UnlinkThreadNode(t) PROVE CountInv'
  <2>1. /\ pc[t] = "unlinking" /\ pc' = [pc EXCEPT ![t] = "dead"]
        /\ UNCHANGED <<key, hpc, fini_thread_calls, end_process_cookie>>
        /\ t \in Threads /\ key[t] # NoNode /\ key[t] = arg[t] /\ arg[t] \in Node
    BY <1>15 DEF UnlinkThreadNode
  <2>2. \A u \in Threads : u # t /\ key[u] # NoNode /\ pc[u] # "dead" => key[u] # arg[t] /\ key[u] \in Node
    BY <2>1 DEF NodeInv, Owner
  <2>3. \A m \in Node : m # arg[t] => tn'[m].fini_started = tn[m].fini_started
    <3>1. CASE ListFixed
      <4>1. tn' = [tn EXCEPT ![arg[t]].fini_started = TRUE, ![arg[t]].fini_done = TRUE]
        BY <1>15, <3>1 DEF UnlinkThreadNode
      <4> QED
        BY <4>1, WriteBoth
    <3>2. CASE ~ListFixed
      <4>1. tn' = [tn EXCEPT ![arg[t]] = ZeroNode]
        BY <1>15, <3>2 DEF UnlinkThreadNode
      <4> QED
        BY <4>1, ZeroUpdate
    <3> QED
      BY <3>1, <3>2
  <2> QED
    BY <2>1, <2>2, <2>3
<1>16. ASSUME NEW t \in All, RawReturn(t) PROVE CountInv'
  BY <1>16 DEF RawReturn
<1>17. ASSUME LastThreadGone PROVE CountInv'
  BY <1>17 DEF LastThreadGone
<1>18. ASSUME NEW t \in All, NEW on \in BOOLEAN, BlockShootdown(t, on) PROVE CountInv'
  BY <1>18 DEF BlockShootdown
<1>19. ASSUME NEW t \in All, NEW on \in BOOLEAN, IgnoreNewThreads(t, on) PROVE CountInv'
  BY <1>19 DEF IgnoreNewThreads
<1>20. ASSUME NEW t \in All, ShootdownHandler(t) PROVE CountInv'
  BY <1>20 DEF ShootdownHandler
<1>21. ASSUME NEW t \in All, HandlerFiniStart(t) PROVE CountInv'
  <2>1. /\ tn' = [tn EXCEPT ![key[t]].fini_started = TRUE]
        /\ fini_thread_calls' = [fini_thread_calls EXCEPT ![t] = @ + 1]
        /\ UNCHANGED <<key, pc, end_process_cookie>>
        /\ hpc[t] = "chk" /\ hpc' = [hpc EXCEPT ![t] = "fini"]
    BY <1>21 DEF HandlerFiniStart
  <2>2. /\ t \in Threads /\ key[t] # NoNode /\ pc[t] # "dead" /\ key[t] = arg[t] /\ key[t] \in Node
        /\ end_process_cookie = 1
    BY <2>1 DEF MarkInv, InAppl, CookieInv
  <2>3. \A m \in Node : tn'[m].fini_started = IF m = key[t] THEN TRUE ELSE tn[m].fini_started
    BY <2>1, WriteStarted
  <2>4. \A u \in Threads : u # t /\ key[u] # NoNode /\ pc[u] # "dead" => key[u] # key[t] /\ key[u] \in Node
    BY <2>2 DEF NodeInv, Owner
  <2>5. fini_thread_calls'[t] > 0 /\ fini_thread_calls'[t] = fini_thread_calls[t] + 1
    BY <2>1
  <2>6. \A u \in Threads : key'[u] # NoNode /\ pc'[u] # "dead" => (tn'[key'[u]].fini_started <=> fini_thread_calls'[u] > 0)
    BY <2>1, <2>2, <2>3, <2>4, <2>5
  <2>7. \A u \in Threads : fini_thread_calls'[u] + Pending(u)' <= 2
    BY <2>1, <2>2
  <2> QED
    BY <2>1, <2>2, <2>6, <2>7
<1>22. ASSUME NEW t \in All, HandlerFiniDone(t) PROVE CountInv'
  BY <1>22 DEF HandlerFiniDone
<1>23. ASSUME NEW t \in All, SigwaitHelper(t) PROVE CountInv'
  BY <1>23 DEF SigwaitHelper
<1>24. ASSUME NEW t \in All, NEW kind \in {"exit", "pthread_exit"}, CallExit(t, kind) PROVE CountInv'
  BY <1>24 DEF CallExit
<1>25. ASSUME NEW t \in All, FatalSignal(t) PROVE CountInv'
  BY <1>25 DEF FatalSignal
<1>26. ASSUME NEW t \in All, CasCookie(t) PROVE CountInv'
  BY <1>26 DEF CasCookie, WinsCookie
<1>26m. ASSUME NEW t \in All, MarkExitWin(t) PROVE CountInv'
  <2>1. UNCHANGED <<key, pc, hpc, fini_thread_calls>> /\ end_process_cookie' = end_process_cookie
    BY <1>26m DEF MarkExitWin
  <2>2. tn' = tn \/ tn' = [tn EXCEPT ![GetTn(t)].exit_win = TRUE]
    BY <1>26m DEF MarkExitWin
  <2>3. \A m \in Node : tn'[m].fini_started = tn[m].fini_started
    <3>1. CASE tn' = tn
      BY <3>1
    <3>2. CASE tn' = [tn EXCEPT ![GetTn(t)].exit_win = TRUE]
      BY <3>2, WriteOther
    <3> QED
      BY <2>2, <3>1, <3>2
  <2> QED
    BY <2>1, <2>3
<1>27. ASSUME NEW t \in All, LoserReleased(t) PROVE CountInv'
  BY <1>27 DEF LoserReleased, CallbacksOver
<1>28. ASSUME NEW t \in All, CancelExit(t) PROVE CountInv'
  BY <1>28 DEF CancelExit
<1>29. ASSUME NEW t \in All, ExitAgain(t) PROVE CountInv'
  BY <1>29 DEF ExitAgain
<1>30. ASSUME NEW t \in All, BeginProcessExitDone(t) PROVE CountInv'
  BY <1>30 DEF BeginProcessExitDone, CallFiniProcess
<1>31. ASSUME NEW t \in All, FiniProcessDone(t) PROVE CountInv'
  BY <1>31 DEF FiniProcessDone
<1>32. ASSUME NEW t \in All, AfterEndProcess(t) PROVE CountInv'
  BY <1>32 DEF AfterEndProcess
<1>33. ASSUME NEW t \in All, FiniLibraryDone(t) PROVE CountInv'
  BY <1>33 DEF FiniLibraryDone
<1>34. ASSUME NEW t \in All, EnterExitCleanup(t) PROVE CountInv'
  BY <1>34 DEF EnterExitCleanup
<1>35. ASSUME NEW t \in All, ScanNode(t) PROVE CountInv'
  BY <1>35 DEF ScanNode
<1>36. ASSUME NEW t \in All, KillThread(t) PROVE CountInv'
  BY <1>36 DEF KillThread
<1>37. ASSUME NEW t \in All, CheckFiniDone(t) PROVE CountInv'
  BY <1>37 DEF CheckFiniDone
<1>38. ASSUME NEW t \in All, ScanFinished(t) PROVE CountInv'
  BY <1>38 DEF ScanFinished, ScanOver
<1>39. ASSUME NEW t \in All, ScanAgain(t) PROVE CountInv'
  BY <1>39 DEF ScanAgain
<1>40. ASSUME NEW t \in All, ScanTimeout(t) PROVE CountInv'
  BY <1>40 DEF ScanTimeout, ScanOver
<1>41. ASSUME NEW t \in All, SetFiniThreadDone(t) PROVE CountInv'
  BY <1>41 DEF SetFiniThreadDone
<1>42. ASSUME NEW t \in All, FiniSelf(t) PROVE CountInv'
  <2>1. UNCHANGED <<key, pc, hpc, end_process_cookie>> /\ xpc[t] = "self" /\ hpc[t] # "chk"
    BY <1>42 DEF FiniSelf
  <2>2. CASE UNCHANGED <<tn, fini_thread_calls>>
    BY <2>1, <2>2
  <2>3. CASE /\ my_tn # NoNode /\ ~tn[my_tn].fini_started
             /\ tn' = [tn EXCEPT ![my_tn].fini_started = TRUE]
             /\ fini_thread_calls' = [fini_thread_calls EXCEPT ![t] = @ + 1]
    <3>1. my_tn \in thread_list /\ tn[my_tn].self = t
      BY <2>1, <2>3 DEF WalkInv
    <3>2. t \in Threads /\ key[t] = my_tn /\ arg[t] = my_tn
      BY <3>1 DEF SelfInv, ListInv
    <3>3. pc[t] # "dead" /\ end_process_cookie = 1
      BY <2>1 DEF ExitInv, Winner
    <3>4. \A m \in Node : tn'[m].fini_started = IF m = my_tn THEN TRUE ELSE tn[m].fini_started
      BY <2>3, WriteStarted
    <3>5. \A u \in Threads : u # t /\ key[u] # NoNode /\ pc[u] # "dead" => key[u] # key[t] /\ key[u] \in Node
      BY <3>2, <3>3, <2>3 DEF NodeInv, Owner
    <3>6. fini_thread_calls[t] = 0 /\ fini_thread_calls'[t] = 1
      BY <2>3, <3>2, <3>3
    <3>7. \A u \in Threads : key'[u] # NoNode /\ pc'[u] # "dead" => (tn'[key'[u]].fini_started <=> fini_thread_calls'[u] > 0)
      BY <2>1, <2>3, <3>1, <3>2, <3>3, <3>4, <3>5, <3>6
    <3>8. \A u \in Threads : fini_thread_calls'[u] + Pending(u)' <= 2
      BY <2>1, <2>3, <3>2, <3>6
    <3> QED
      BY <2>1, <2>3, <3>2, <3>3, <3>7, <3>8
  <2> QED
    BY <1>42, <2>2, <2>3 DEF FiniSelf
<1>43. ASSUME NEW t \in All, FiniSelfDone(t) PROVE CountInv'
  BY <1>43 DEF FiniSelfDone, CallFiniProcess
<1>44. ASSUME UNCHANGED vars PROVE CountInv'
  BY <1>44
<1> HIDE DEF TypeOK, ThreadInv, CountInv, Pending, All, NoNode, MainTn, Alive, MayRunFiniThread,
        InBase, InExit, InHandler, At, Goto, ExitAt, ExitTo, CallFiniThread, Home, GetTn,
        exitVars, listVars, flagVars, shootVars, vars
<1>45. ASSUME NEW t \in All, LibraryStep(t) PROVE CountInv'
  BY <1>45, <1>4, <1>5, <1>6, <1>7, <1>8, <1>9, <1>10, <1>13, <1>14, <1>15, <1>21,
     <1>22, <1>26, <1>26m, <1>27, <1>30, <1>34, <1>35, <1>36, <1>37, <1>38, <1>39, <1>41,
     <1>42, <1>43, <1>31, <1>32, <1>33
     DEF LibraryStep, LockStep, StartStep, DoneStep
<1>46. ASSUME NEW t \in All, EnvironmentStep(t) PROVE CountInv'
  BY <1>46, <1>3, <1>7, <1>12, <1>16, <1>24, <1>18, <1>19, <1>20, <1>23, <1>40,
     <1>11, <1>11c, <1>28, <1>25, <1>29 DEF EnvironmentStep
<1> QED
  BY <1>1, <1>2, <1>17, <1>44, <1>45, <1>46 DEF Next, Gone

-----------------------------------------------------------------------------
(* What each kind of step is for the client *)

\* A step of the library is a step of the abstract specification, or nothing.
Mapped == [Callbacks!Next]_Callbacks!callbackVars

\* The thread in the winner's callbacks, for any points f of the exit frames.
Ender(f) == IF \E t \in All : f[t] \in Winner THEN CHOOSE t \in All : f[t] \in Winner ELSE NoThread

\* It is the only winner, ...
LEMMA EnderIs ==
  ASSUME NEW f, NEW t \in All, f[t] \in Winner, \A u \in All : f[u] \in Winner => u = t
  PROVE  Ender(f) = t
  BY DEF Ender

\* ... or nobody, ...
LEMMA EnderNone ==
  ASSUME NEW f, \A u \in All : f[u] \notin Winner
  PROVE  Ender(f) = NoThread
  BY DEF Ender

\* ... and the same as long as the winners are.
LEMMA EnderOne ==
  ASSUME NEW f, NEW g, \A t, u \in All : f[t] \in Winner /\ f[u] \in Winner => t = u,
         \A u \in All : f[u] \in Winner <=> g[u] \in Winner
  PROVE  Ender(f) = Ender(g)
<1>1. CASE \E t \in All : f[t] \in Winner
  <2>1. PICK t \in All : f[t] \in Winner
    BY <1>1
  <2>2. Ender(f) = t /\ Ender(g) = t
    BY <2>1, EnderIs
  <2> QED
    BY <2>2
<1>2. CASE \A t \in All : f[t] \notin Winner
  BY <1>2, EnderNone
<1> QED
  BY <1>1, <1>2

\* What the stage depends on.
StageVars == <<end_process_cookie, fini_process_done, fini_process_calls, terminated>>

\* Who is a winner does not change.
SameWinners == \A t \in All : xpc[t] \in Winner <=> xpc'[t] \in Winner

\* No thread's phase changes but perhaps t's.
OthersKept(t) == \A u \in All \ {t} : PhaseOf(u)' = PhaseOf(u)

\* A step that changes nothing that the client can tell.
LEMMA AsStutter ==
  ASSUME ExitInv, SameWinners, UNCHANGED StageVars, UNCHANGED fini_thread_calls,
         \A t \in All : PhaseOf(t)' = PhaseOf(t)
  PROVE  Mapped
<1>1. Ender(xpc') = Ender(xpc)
  BY EnderOne DEF ExitInv, SameWinners
<1>2. StageOf' = StageOf
  BY DEF StageOf, StageVars
<1>3. UNCHANGED Callbacks!callbackVars
  BY <1>1, <1>2 DEF Callbacks!callbackVars, EnderOf, Ender
<1> QED
  BY <1>3 DEF Mapped

\* Most of these leave the base frames alone.
LEMMA AsQuiet ==
  ASSUME ExitInv, SameWinners, UNCHANGED StageVars, UNCHANGED <<fini_thread_calls, pc, key, has_reached_main>>
  PROVE  Mapped
<1>1. \A t \in All : PhaseOf(t)' = PhaseOf(t)
  BY DEF PhaseOf
<1> QED
  BY <1>1, AsStutter

\* Only the phase of one thread changes, ...
LEMMA PhaseMoves ==
  ASSUME NEW t \in All, NEW p, PhaseOf(t)' = p, OthersKept(t)
  PROVE  [u \in All |-> PhaseOf(u)]' = [[u \in All |-> PhaseOf(u)] EXCEPT ![t] = p]
  BY DEF OthersKept

\* ... when monitor_init_process returns, ...
LEMMA AsBeginMain ==
  ASSUME ExitInv, SameWinners, UNCHANGED StageVars, UNCHANGED fini_thread_calls, ~terminated,
         PhaseOf(Main) = "before", PhaseOf(Main)' = "live", OthersKept(Main)
  PROVE  Mapped
<1>1. Ender(xpc') = Ender(xpc)
  BY EnderOne DEF ExitInv, SameWinners
<1>2. StageOf' = StageOf /\ StageOf # "gone" /\ Main \in All
  BY DEF StageOf, StageVars, All
<1>3. [u \in All |-> PhaseOf(u)]' = [[u \in All |-> PhaseOf(u)] EXCEPT ![Main] = "live"]
  BY <1>2, PhaseMoves
<1>4. Callbacks!BeginMain
  BY <1>1, <1>2, <1>3 DEF Callbacks!BeginMain, Callbacks!Running, EnderOf, Ender
<1> QED
  BY <1>4 DEF Mapped, Callbacks!Next

\* ... when monitor_init_thread begins, ...
LEMMA AsBeginThread ==
  ASSUME ExitInv, SameWinners, UNCHANGED StageVars, UNCHANGED fini_thread_calls, ~terminated,
         NEW t \in Threads, PhaseOf(t) = "before", PhaseOf(t)' = "init", OthersKept(t),
         PhaseOf(Main) # "before", StageOf # "finishing"
  PROVE  Mapped
<1>1. Ender(xpc') = Ender(xpc)
  BY EnderOne DEF ExitInv, SameWinners
<1>2. StageOf' = StageOf /\ StageOf # "gone" /\ Main \in All /\ t \in All /\ t # Main
  BY ThreadsAssumption DEF StageOf, StageVars, All
<1>3. [u \in All |-> PhaseOf(u)]' = [[u \in All |-> PhaseOf(u)] EXCEPT ![t] = "init"]
  BY <1>2, PhaseMoves
<1>4. Callbacks!BeginThread(t)
  BY <1>1, <1>2, <1>3 DEF Callbacks!BeginThread, Callbacks!Running, EnderOf, Ender
<1> QED
  BY <1>2, <1>4 DEF Mapped, Callbacks!Next

\* ... when it returns, ...
LEMMA AsStartThread ==
  ASSUME ExitInv, SameWinners, UNCHANGED StageVars, UNCHANGED fini_thread_calls, ~terminated,
         NEW t \in All, PhaseOf(t) = "init", PhaseOf(t)' = "live", OthersKept(t)
  PROVE  Mapped
<1>1. Ender(xpc') = Ender(xpc)
  BY EnderOne DEF ExitInv, SameWinners
<1>2. StageOf' = StageOf /\ StageOf # "gone"
  BY DEF StageOf, StageVars
<1>3. [u \in All |-> PhaseOf(u)]' = [[u \in All |-> PhaseOf(u)] EXCEPT ![t] = "live"]
  BY PhaseMoves
<1>4. Callbacks!StartThread(t)
  BY <1>1, <1>2, <1>3 DEF Callbacks!StartThread, Callbacks!Running, EnderOf, Ender
<1> QED
  BY <1>4 DEF Mapped, Callbacks!Next

\* ... when an ignored thread begins, ...
LEMMA AsIgnoreThread ==
  ASSUME ExitInv, SameWinners, UNCHANGED StageVars, UNCHANGED fini_thread_calls, ~terminated,
         NEW t \in All, PhaseOf(t) = "before", PhaseOf(t)' = "ignored", OthersKept(t)
  PROVE  Mapped
<1>1. Ender(xpc') = Ender(xpc)
  BY EnderOne DEF ExitInv, SameWinners
<1>2. StageOf' = StageOf /\ StageOf # "gone"
  BY DEF StageOf, StageVars
<1>3. [u \in All |-> PhaseOf(u)]' = [[u \in All |-> PhaseOf(u)] EXCEPT ![t] = "ignored"]
  BY PhaseMoves
<1>4. Callbacks!IgnoreThread(t)
  BY <1>1, <1>2, <1>3 DEF Callbacks!IgnoreThread, Callbacks!Running, EnderOf, Ender
<1> QED
  BY <1>4 DEF Mapped, Callbacks!Next

\* ... and when a thread ends.
LEMMA AsThreadOver ==
  ASSUME ExitInv, SameWinners, UNCHANGED StageVars, UNCHANGED fini_thread_calls, ~terminated,
         NEW t \in All, xpc[t] \notin Winner,
         PhaseOf(t) # "over", PhaseOf(t)' = "over", OthersKept(t),
         (PhaseOf(t) = "live" /\ t # Main /\ "block" \notin Moves) => (fini_thread_calls[t] > 0 \/ StageOf # "running")
  PROVE  Mapped
<1>1. Ender(xpc') = Ender(xpc)
  BY EnderOne DEF ExitInv, SameWinners
<1>2. StageOf' = StageOf /\ StageOf # "gone"
  BY DEF StageOf, StageVars
<1>3. [u \in All |-> PhaseOf(u)]' = [[u \in All |-> PhaseOf(u)] EXCEPT ![t] = "over"]
  BY PhaseMoves
<1>4. Ender(xpc) # t
  <2>1. CASE \E u \in All : xpc[u] \in Winner
    <3>1. PICK u \in All : xpc[u] \in Winner
      BY <2>1
    <3>2. Ender(xpc) = u
      BY <3>1, EnderIs DEF ExitInv
    <3> QED
      BY <3>1, <3>2
  <2>2. CASE \A u \in All : xpc[u] \notin Winner
    BY <2>2, EnderNone, ThreadsAssumption DEF All
  <2> QED
    BY <2>1, <2>2
<1>5. Callbacks!ThreadOver(t)
  BY <1>1, <1>2, <1>3, <1>4 DEF Callbacks!ThreadOver, Callbacks!Running, EnderOf, Ender
<1> QED
  BY <1>5 DEF Mapped, Callbacks!Next

\* So does the winner, cancelled in one of its callbacks.
LEMMA AsEnderOver ==
  ASSUME ExitInv, UNCHANGED StageVars, UNCHANGED fini_thread_calls,
         NEW t \in All, xpc[t] \in Winner, \A u \in All : xpc'[u] \notin Winner,
         PhaseOf(t) # "over", PhaseOf(t)' = "over", OthersKept(t),
         StageOf \in {"ending", "finishing"}
  PROVE  Mapped
<1>1. Ender(xpc') = NoThread
  BY EnderNone
<1>2. Ender(xpc) = t
  BY EnderIs DEF ExitInv
<1>3. StageOf' = StageOf
  BY DEF StageOf, StageVars
<1>4. [u \in All |-> PhaseOf(u)]' = [[u \in All |-> PhaseOf(u)] EXCEPT ![t] = "over"]
  BY PhaseMoves
<1>5. Callbacks!ThreadOver(t)
  BY <1>1, <1>2, <1>3, <1>4 DEF Callbacks!ThreadOver, Callbacks!Running, EnderOf, Ender
<1> QED
  BY <1>5 DEF Mapped, Callbacks!Next

\* monitor_fini_thread begins.
LEMMA AsFiniThread ==
  ASSUME ExitInv, SameWinners, UNCHANGED StageVars, ~terminated,
         \A u \in All : PhaseOf(u)' = PhaseOf(u),
         NEW t \in Threads, fini_thread_calls' = [fini_thread_calls EXCEPT ![t] = @ + 1],
         PhaseOf(t) = "live" \/ (PhaseOf(t) = "init" /\ xpc[t] \in Winner),
         fini_thread_calls[t] = 0 \/ (fini_thread_calls[t] = 1 /\ StageOf # "running")
  PROVE  Mapped
<1>1. Ender(xpc') = Ender(xpc)
  BY EnderOne DEF ExitInv, SameWinners
<1>2. StageOf' = StageOf /\ StageOf # "gone" /\ t \in All /\ t # Main
  BY ThreadsAssumption DEF StageOf, StageVars, All
<1>3. xpc[t] \in Winner => Ender(xpc) = t
  BY <1>2, EnderIs DEF ExitInv
<1>4. Callbacks!FiniThread(t)
  BY <1>1, <1>2, <1>3 DEF Callbacks!FiniThread, Callbacks!Running, EnderOf, Ender
<1> QED
  BY <1>2, <1>4 DEF Mapped, Callbacks!Next

\* What a step that moves the end of the process leaves alone.
FramesKept == UNCHANGED <<fini_thread_calls, pc, key, has_reached_main>>

\* The first thread leaves.
LEMMA AsEndProcess ==
  ASSUME FramesKept, NEW t \in All, StageOf = "running", StageOf' = "ending", xpc'[t] \in Winner,
         \A u \in All : xpc'[u] \in Winner => u = t
  PROVE  Mapped
<1>1. Ender(xpc') = t
  BY EnderIs
<1>2. \A u \in All : PhaseOf(u)' = PhaseOf(u)
  BY DEF PhaseOf, FramesKept
<1>3. Callbacks!EndProcess(t)
  BY <1>1, <1>2 DEF Callbacks!EndProcess, EnderOf, Ender, FramesKept
<1> QED
  BY <1>3 DEF Mapped, Callbacks!Next

\* monitor_fini_process begins in the winner.
LEMMA AsFiniProcess ==
  ASSUME ExitInv, SameWinners, FramesKept, NEW t \in All, xpc[t] \in Winner,
         StageOf = "ending", StageOf' = "finishing",
         (PhaseOf(t) = "live" /\ t # Main) => fini_thread_calls[t] > 0
  PROVE  Mapped
<1>1. Ender(xpc') = Ender(xpc)
  BY EnderOne DEF ExitInv, SameWinners
<1>2. Ender(xpc) = t /\ t # NoThread
  BY EnderIs, ThreadsAssumption DEF ExitInv, All
<1>3. \A u \in All : PhaseOf(u)' = PhaseOf(u)
  BY DEF PhaseOf, FramesKept
<1>4. Callbacks!FiniProcess
  BY <1>1, <1>2, <1>3 DEF Callbacks!FiniProcess, EnderOf, Ender, FramesKept
<1> QED
  BY <1>4 DEF Mapped, Callbacks!Next

\* The callbacks are abandoned.
LEMMA AsAbandon ==
  ASSUME ExitInv, UNCHANGED fini_thread_calls, \A u \in All : PhaseOf(u)' = PhaseOf(u),
         NEW t \in All, xpc[t] \in Winner, \A u \in All : xpc'[u] \notin Winner,
         StageOf \in {"ending", "finishing"}, UNCHANGED StageVars
  PROVE  Mapped
<1>1. Ender(xpc') = NoThread
  BY EnderNone
<1>2. Ender(xpc) = t /\ t # NoThread
  BY EnderIs, ThreadsAssumption DEF ExitInv, All
<1>3. StageOf' = StageOf
  BY DEF StageOf, StageVars
<1>4. Callbacks!Abandon
  BY <1>1, <1>2, <1>3 DEF Callbacks!Abandon, EnderOf, Ender
<1> QED
  BY <1>4 DEF Mapped, Callbacks!Next

\* They are over.
LEMMA AsFinished ==
  ASSUME FramesKept, \A u \in All : xpc'[u] \notin Winner,
         StageOf = "finishing" \/ (StageOf = "ending" /\ \A u \in All : xpc[u] \notin Winner),
         StageOf' = "finished"
  PROVE  Mapped
<1>1. Ender(xpc') = NoThread
  BY EnderNone
<1>2. (\A u \in All : xpc[u] \notin Winner) => Ender(xpc) = NoThread
  BY EnderNone
<1>3. \A u \in All : PhaseOf(u)' = PhaseOf(u)
  BY DEF PhaseOf, FramesKept
<1>4. Callbacks!Finished
  BY <1>1, <1>2, <1>3 DEF Callbacks!Finished, EnderOf, Ender, FramesKept
<1> QED
  BY <1>4 DEF Mapped, Callbacks!Next

\* The process is gone.
LEMMA AsGone ==
  ASSUME FramesKept, ~terminated, terminated', \A u \in All : xpc'[u] \notin Winner,
         StageOf = "finished" \/ \A u \in All : PhaseOf(u) \in {"before", "over"}
  PROVE  Mapped
<1>1. Ender(xpc') = NoThread
  BY EnderNone
<1>2. \A u \in All : PhaseOf(u)' = PhaseOf(u)
  BY DEF PhaseOf, FramesKept
<1>3. StageOf # "gone" /\ StageOf' = "gone"
  BY DEF StageOf
<1>4. Callbacks!Gone
  BY <1>1, <1>2, <1>3 DEF Callbacks!Gone, Callbacks!Running, EnderOf, Ender, FramesKept
<1> QED
  BY <1>4 DEF Mapped, Callbacks!Next

-----------------------------------------------------------------------------
(* Every step is one of them *)

\* Every step is a step of MonitorCallbacks, or one the client does not see.
LEMMA MapStep ==
  ASSUME IInv, ScanInv, MainInv, CookieInv, ListInv, WalkInv, MarkInv, CountInv, [Next]_vars
  PROVE  Mapped
<1>0. TypeOK /\ ThreadInv /\ NodeInv /\ SelfInv /\ ExitInv /\ CleanupInv
  BY DEF IInv
<1> USE <1>0, ThreadsAssumption
    DEF TypeOK, ThreadInv, All, NoNode, MainTn, Alive,
        InBase, InExit, InHandler, At, Goto, ExitAt, ExitTo, CallFiniThread, Home,
        exitVars, listVars, flagVars, shootVars, vars
<1>1. ASSUME MainStart PROVE Mapped
  <2>1. UNCHANGED StageVars /\ UNCHANGED fini_thread_calls /\ SameWinners /\ ~terminated
    BY <1>1 DEF MainStart, StageVars, SameWinners
  <2>2. pc[Main] = "premain" /\ pc' = [pc EXCEPT ![Main] = "release"] /\ UNCHANGED <<key, has_reached_main>>
    BY <1>1 DEF MainStart
  <2>3. ~has_reached_main
    BY <2>2 DEF MainInv
  <2>4. PhaseOf(Main) = "before" /\ PhaseOf(Main)' = "live" /\ OthersKept(Main)
    BY <2>2, <2>3 DEF PhaseOf, OthersKept
  <2> QED
    BY <2>1, <2>4, AsBeginMain
<1>2. ASSUME ThreadRelease PROVE Mapped
  <2>1. UNCHANGED StageVars /\ UNCHANGED fini_thread_calls /\ SameWinners /\ ~terminated
    BY <1>2 DEF ThreadRelease, StageVars, SameWinners
  <2>2. \A u \in All : PhaseOf(u)' = PhaseOf(u)
    BY <1>2 DEF ThreadRelease, PhaseOf
  <2> QED
    BY <2>1, <2>2, AsStutter
<1>3. ASSUME NEW c \in All, NEW u \in Threads, PthreadCreate(c, u) PROVE Mapped
  <2>1. UNCHANGED StageVars /\ UNCHANGED fini_thread_calls /\ SameWinners /\ ~terminated
    BY <1>3 DEF PthreadCreate, ThreadListInit, StageVars, SameWinners
  <2>2. /\ pc[u] = "unborn" /\ pc[c] = Home(c) /\ c # u /\ has_reached_main' = has_reached_main
        /\ pc'[u] = "reserved" /\ pc'[c] \in {"rawcreate", "support", "make"}
        /\ \A t \in All \ {c, u} : pc'[t] = pc[t]
    BY <1>3 DEF PthreadCreate, PCs
  <2>3. \A t \in Threads : key'[t] = key[t]
    BY <1>3 DEF PthreadCreate, ThreadListInit
  <2>4. \A t \in All \ {c, u} : PhaseOf(t)' = PhaseOf(t)
    BY <2>2, <2>3 DEF PhaseOf
  <2>5. PhaseOf(u)' = PhaseOf(u)
    BY <2>2 DEF PhaseOf
  <2>6. PhaseOf(c)' = PhaseOf(c)
    BY <2>2, <2>3 DEF PhaseOf, MainInv
  <2> QED
    BY <2>1, <2>4, <2>5, <2>6, AsStutter
<1>4. ASSUME NEW c \in All, ThreadSupportDone(c) PROVE Mapped
  <2>1. UNCHANGED StageVars /\ UNCHANGED fini_thread_calls /\ SameWinners /\ ~terminated
    BY <1>4 DEF ThreadSupportDone, StageVars, SameWinners
  <2>2. \A u \in All : PhaseOf(u)' = PhaseOf(u)
    BY <1>4 DEF ThreadSupportDone, PhaseOf
  <2> QED
    BY <2>1, <2>2, AsStutter
<1>5. ASSUME NEW t \in All, LockStep(t) PROVE Mapped
  <2>1. UNCHANGED StageVars /\ UNCHANGED fini_thread_calls /\ SameWinners /\ ~terminated
    BY <1>5 DEF LockStep, AcquireThreadLock, StageVars, SameWinners
  <2>2. \A u \in All : PhaseOf(u)' = PhaseOf(u)
    BY <1>5 DEF LockStep, AcquireThreadLock, PhaseOf
  <2> QED
    BY <2>1, <2>2, AsStutter
<1>6. ASSUME NEW c \in All, MakeThreadNode(c) PROVE Mapped
  <2>1. UNCHANGED StageVars /\ UNCHANGED fini_thread_calls /\ SameWinners /\ ~terminated
    BY <1>6 DEF MakeThreadNode, StageVars, SameWinners
  <2>2. \A u \in All : PhaseOf(u)' = PhaseOf(u)
    BY <1>6 DEF MakeThreadNode, PhaseOf
  <2> QED
    BY <2>1, <2>2, AsStutter
<1>7. ASSUME NEW c \in All, NEW ok \in BOOLEAN, RealPthreadCreate(c, ok) PROVE Mapped
  <2>1. UNCHANGED StageVars /\ UNCHANGED fini_thread_calls /\ SameWinners /\ ~terminated
    BY <1>7 DEF RealPthreadCreate, StageVars, SameWinners
  <2>2. PICK u \in Threads : /\ u = child[c] /\ pc[u] = "reserved" /\ c # u /\ key[u] = NoNode
    BY <1>7 DEF RealPthreadCreate
  <2>3. /\ UNCHANGED <<key, has_reached_main>> /\ pc[c] \in {"create", "rawcreate"} /\ pc'[c] = Home(c)
        /\ pc'[u] \in {"dead", "start", "raw"}
        /\ \A t \in All \ {c, u} : pc'[t] = pc[t]
    BY <1>7, <2>2 DEF RealPthreadCreate
  <2>4. PhaseOf(c)' = PhaseOf(c)
    BY <2>3 DEF PhaseOf, MainInv
  <2>5. OthersKept(u)
    BY <2>3, <2>4 DEF PhaseOf, OthersKept
  <2>6. PhaseOf(u) = "before" /\ u \in All /\ u # Main
    BY <2>2 DEF PhaseOf
  <2>7. CASE pc'[u] = "dead"
    <3>1. PhaseOf(u)' = "over"
      BY <2>6, <2>7 DEF PhaseOf
    <3>2. xpc[u] \notin Winner
      BY <2>2 DEF Winner
    <3> QED
      BY <2>1, <2>5, <2>6, <3>1, <3>2, AsThreadOver
  <2>8. CASE pc'[u] = "start"
    <3>1. PhaseOf(u)' = PhaseOf(u)
      BY <2>2, <2>8 DEF PhaseOf
    <3> QED
      BY <2>1, <2>5, <3>1, AsStutter DEF OthersKept
  <2>9. CASE pc'[u] = "raw"
    <3>1. PhaseOf(u)' = "ignored"
      BY <2>2, <2>3, <2>6, <2>9 DEF PhaseOf
    <3> QED
      BY <2>1, <2>5, <2>6, <3>1, AsIgnoreThread
  <2> QED
    BY <2>3, <2>7, <2>8, <2>9
<1>8. ASSUME NEW t \in All, BeginThread(t) PROVE Mapped
  <2>1. UNCHANGED StageVars /\ UNCHANGED fini_thread_calls /\ SameWinners /\ ~terminated
    BY <1>8 DEF BeginThread, StageVars, SameWinners
  <2>2. \A u \in All : PhaseOf(u)' = PhaseOf(u)
    BY <1>8 DEF BeginThread, PhaseOf
  <2> QED
    BY <2>1, <2>2, AsStutter
<1>9. ASSUME NEW t \in All, LinkThreadNode(t) PROVE Mapped
  <2>1. UNCHANGED StageVars /\ UNCHANGED fini_thread_calls /\ SameWinners /\ ~terminated
    BY <1>9 DEF LinkThreadNode, ListFixed, StageVars, SameWinners
  <2>2. /\ pc[t] = "linking" /\ xpc[t] = "none" /\ t \in Threads /\ t # Main /\ UNCHANGED <<key, has_reached_main>>
        /\ \/ pc' = [pc EXCEPT ![t] = "dead"]
           \/ pc' = [pc EXCEPT ![t] = "init"] /\ ~in_exit_cleanup
    BY <1>9 DEF LinkThreadNode, ListFixed
  <2>3. PhaseOf(t) = "before" /\ OthersKept(t)
    BY <2>2 DEF PhaseOf, OthersKept
  <2>4. CASE pc' = [pc EXCEPT ![t] = "dead"]
    <3>1. PhaseOf(t)' = "over" /\ xpc[t] \notin Winner
      BY <2>2, <2>4 DEF PhaseOf, Winner
    <3> QED
      BY <2>1, <2>2, <2>3, <3>1, AsThreadOver
  <2>5. CASE pc' = [pc EXCEPT ![t] = "init"] /\ ~in_exit_cleanup
    <3>1. PhaseOf(t)' = "init"
      BY <2>2, <2>5 DEF PhaseOf
    <3>2. has_used_threads /\ has_reached_main /\ pc[Main] \notin {"unborn", "reserved", "start", "link", "linking"}
      BY <2>2 DEF MainInv
    <3>3. PhaseOf(Main) # "before"
      BY <3>2 DEF PhaseOf
    <3>4. StageOf # "finishing"
      BY <2>5, <3>2 DEF StageOf, CookieInv
    <3> QED
      BY <2>1, <2>2, <2>3, <3>1, <3>3, <3>4, AsBeginThread
  <2> QED
    BY <2>2, <2>4, <2>5
<1>10. ASSUME NEW t \in All, ApplStarted(t) PROVE Mapped
  <2>1. UNCHANGED StageVars /\ UNCHANGED fini_thread_calls /\ SameWinners /\ ~terminated
    BY <1>10 DEF ApplStarted, StageVars, SameWinners
  <2>2. /\ pc[t] = "init" /\ pc' = [pc EXCEPT ![t] = "run"] /\ t \in Threads /\ t # Main /\ key[t] # NoNode
        /\ UNCHANGED <<key, has_reached_main>>
    BY <1>10 DEF ApplStarted
  <2>3. PhaseOf(t) = "init" /\ PhaseOf(t)' = "live" /\ OthersKept(t)
    BY <2>2 DEF PhaseOf, OthersKept
  <2> QED
    BY <2>1, <2>3, AsStartThread
<1>11. ASSUME NEW t \in All, CancelEarly(t) PROVE Mapped
  <2>1. UNCHANGED StageVars /\ UNCHANGED fini_thread_calls /\ SameWinners /\ ~terminated
    BY <1>11 DEF CancelEarly, StageVars, SameWinners
  <2>2. /\ pc[t] \in {"start", "init"} /\ pc' = [pc EXCEPT ![t] = "dead"] /\ t \in Threads /\ t # Main
        /\ xpc[t] = "none" /\ UNCHANGED <<key, has_reached_main>>
    BY <1>11 DEF CancelEarly
  <2>3. PhaseOf(t) \in {"before", "init"} /\ PhaseOf(t)' = "over" /\ OthersKept(t) /\ xpc[t] \notin Winner
    BY <2>2 DEF PhaseOf, OthersKept, Winner
  <2> QED
    BY <2>1, <2>3, AsThreadOver
<1>11c. ASSUME NEW t \in All, CancelCleanup(t) PROVE Mapped
  <2>1. UNCHANGED StageVars /\ UNCHANGED fini_thread_calls /\ SameWinners /\ ~terminated
    BY <1>11c DEF CancelCleanup, StageVars, SameWinners
  <2>2. /\ pc[t] = "fini" /\ pc' = [pc EXCEPT ![t] = "dead"] /\ t \in Threads /\ t # Main
        /\ xpc[t] = "none" /\ UNCHANGED <<key, has_reached_main>> /\ key[t] # NoNode
    BY <1>11c DEF CancelCleanup
  <2>3. PhaseOf(t) = "live" /\ PhaseOf(t)' = "over" /\ OthersKept(t) /\ xpc[t] \notin Winner
    BY <2>2 DEF PhaseOf, OthersKept, Winner
  <2>4. fini_thread_calls[t] > 0
    BY <2>2 DEF CountInv, MarkInv
  <2> QED
    BY <2>1, <2>3, <2>4, AsThreadOver
<1>12. ASSUME NEW t \in All, CleanupCheck(t) PROVE Mapped
  <2>1. UNCHANGED StageVars /\ UNCHANGED fini_thread_calls /\ SameWinners /\ ~terminated
    BY <1>12 DEF CleanupCheck, StageVars, SameWinners
  <2>2. /\ pc[t] = "run" /\ t \in Threads /\ t # Main /\ UNCHANGED <<key, has_reached_main>>
        /\ pc' = [pc EXCEPT ![t] = IF MayRunFiniThread(arg[t]) THEN "chk" ELSE "dead"]
        /\ xpc[t] \in {"none", "wait"}
    BY <1>12 DEF CleanupCheck
  <2>3. key[t] # NoNode /\ key[t] = arg[t] /\ arg[t] \in Node
    BY <2>2
  <2>4. PhaseOf(t) = "live" /\ OthersKept(t) /\ xpc[t] \notin Winner
    BY <2>2, <2>3 DEF PhaseOf, OthersKept, Winner
  <2>5. CASE MayRunFiniThread(arg[t])
    <3>1. PhaseOf(t)' = "live"
      BY <2>2, <2>3, <2>5 DEF PhaseOf
    <3> QED
      BY <2>1, <2>4, <3>1, AsStutter DEF OthersKept
  <2>6. CASE ~MayRunFiniThread(arg[t])
    <3>1. PhaseOf(t)' = "over"
      BY <2>2, <2>6 DEF PhaseOf
    <3>2. tn[arg[t]].appl_started
      BY <2>2, <2>3 DEF MarkInv, InAppl
    <3>3. tn[arg[t]].fini_started \/ tn[arg[t]].block_shootdown \/ fini_thread_done
      BY <2>6, <3>2 DEF MayRunFiniThread
    <3>4. tn[arg[t]].fini_started => fini_thread_calls[t] > 0
      BY <2>2, <2>3 DEF CountInv
    <3>5. tn[arg[t]].block_shootdown => "block" \in Moves
      BY <2>3 DEF MarkInv
    <3>6. fini_thread_done => StageOf # "running"
      BY DEF ScanInv, StageOf
    <3> QED
      BY <2>1, <2>4, <3>1, <3>3, <3>4, <3>5, <3>6, AsThreadOver
  <2> QED
    BY <2>5, <2>6
<1>13. ASSUME NEW t \in All, StartStep(t) PROVE Mapped
  <2>1. /\ UNCHANGED StageVars /\ SameWinners /\ ~terminated /\ UNCHANGED <<key, has_reached_main>>
        /\ fini_thread_calls' = [fini_thread_calls EXCEPT ![t] = @ + 1]
    BY <1>13 DEF StartStep, FiniThreadStart, StageVars, SameWinners
  <2>2. \/ pc[t] = "chk" /\ pc' = [pc EXCEPT ![t] = "fini"]
        \/ pc[t] = "swchk" /\ pc' = [pc EXCEPT ![t] = "swfini"]
    BY <1>13 DEF StartStep, FiniThreadStart
  <2>3. t \in Threads /\ t # Main
    BY <2>2 DEF MarkInv
  <2>4. key[t] # NoNode
    BY <2>2, <2>3
  <2>5. PhaseOf(t) = "live" /\ \A u \in All : PhaseOf(u)' = PhaseOf(u)
    BY <2>1, <2>2, <2>3, <2>4 DEF PhaseOf
  <2>6. fini_thread_calls[t] \in Nat /\ fini_thread_calls[t] <= 1
    BY <2>2, <2>3 DEF CountInv, Pending
  <2>7. fini_thread_calls[t] > 0 => end_process_cookie = 1
    BY <2>2, <2>3 DEF CountInv, CookieInv
  <2>8. end_process_cookie = 1 => StageOf # "running"
    BY DEF StageOf
  <2>9. fini_thread_calls[t] = 0 \/ (fini_thread_calls[t] = 1 /\ StageOf # "running")
    BY <2>6, <2>7, <2>8
  <2> QED
    BY <2>1, <2>3, <2>5, <2>9, AsFiniThread
<1>14. ASSUME NEW t \in All, DoneStep(t) PROVE Mapped
  <2>1. UNCHANGED StageVars /\ UNCHANGED fini_thread_calls /\ SameWinners /\ ~terminated
    BY <1>14 DEF DoneStep, FiniThreadDone, StageVars, SameWinners
  <2>2. /\ t \in Threads /\ t # Main /\ xpc[t] = "none" /\ UNCHANGED <<key, has_reached_main>>
        /\ \/ pc[t] = "fini" /\ pc' = [pc EXCEPT ![t] = "unlink"]
           \/ pc[t] = "swfini" /\ pc' = [pc EXCEPT ![t] = "run"]
    BY <1>14 DEF DoneStep, FiniThreadDone, MarkInv
  <2>3. key[t] # NoNode /\ key[t] \in Node
    BY <2>2
  <2>4. PhaseOf(t) = "live" /\ OthersKept(t) /\ xpc[t] \notin Winner
    BY <2>2, <2>3 DEF PhaseOf, OthersKept, Winner
  <2>5. CASE pc[t] = "fini" /\ pc' = [pc EXCEPT ![t] = "unlink"]
    <3>1. PhaseOf(t)' = "over"
      BY <2>2, <2>5 DEF PhaseOf
    <3>2. tn[key[t]].fini_started
      BY <2>2, <2>5 DEF MarkInv
    <3>3. fini_thread_calls[t] > 0
      BY <2>2, <2>3, <2>5, <3>2 DEF CountInv
    <3> QED
      BY <2>1, <2>4, <3>1, <3>3, AsThreadOver
  <2>6. CASE pc[t] = "swfini" /\ pc' = [pc EXCEPT ![t] = "run"]
    <3>1. PhaseOf(t)' = "live"
      BY <2>2, <2>3, <2>6 DEF PhaseOf
    <3> QED
      BY <2>1, <2>4, <3>1, AsStutter DEF OthersKept
  <2> QED
    BY <2>2, <2>5, <2>6
<1>15. ASSUME NEW t \in All, UnlinkThreadNode(t) PROVE Mapped
  <2>1. UNCHANGED StageVars /\ UNCHANGED fini_thread_calls /\ SameWinners /\ ~terminated
    BY <1>15 DEF UnlinkThreadNode, ListFixed, StageVars, SameWinners
  <2>2. \A u \in All : PhaseOf(u)' = PhaseOf(u)
    BY <1>15 DEF UnlinkThreadNode, ListFixed, PhaseOf
  <2> QED
    BY <2>1, <2>2, AsStutter
<1>16. ASSUME NEW t \in All, RawReturn(t) PROVE Mapped
  <2>1. UNCHANGED StageVars /\ UNCHANGED fini_thread_calls /\ SameWinners /\ ~terminated
    BY <1>16 DEF RawReturn, StageVars, SameWinners
  <2>2. /\ pc[t] = "raw" /\ pc' = [pc EXCEPT ![t] = "dead"] /\ xpc[t] = "none" /\ UNCHANGED <<key, has_reached_main>>
    BY <1>16 DEF RawReturn
  <2>3. t \in Threads /\ t # Main /\ key[t] = NoNode
    BY <2>2 DEF MainInv, ListInv
  <2>4. PhaseOf(t) = "ignored" /\ PhaseOf(t)' = "over" /\ OthersKept(t) /\ xpc[t] \notin Winner
    BY <2>2, <2>3 DEF PhaseOf, OthersKept, Winner
  <2> QED
    BY <2>1, <2>4, AsThreadOver
<1>17. ASSUME LastThreadGone PROVE Mapped
  <2>1. /\ FramesKept /\ ~terminated /\ terminated' /\ xpc' = xpc
        /\ \A t \in All : pc[t] \in {"unborn", "reserved", "dead"}
    BY <1>17 DEF LastThreadGone, FramesKept
  <2>2. \A t \in All : PhaseOf(t) \in {"before", "over"}
    BY <2>1 DEF PhaseOf
  <2>3. \A t \in All : xpc'[t] \notin Winner
    BY <2>1 DEF Winner
  <2> QED
    BY <2>1, <2>2, <2>3, AsGone
<1>18. ASSUME NEW t \in All, NEW on \in BOOLEAN, BlockShootdown(t, on) PROVE Mapped
  <2>1. /\ UNCHANGED StageVars
        /\ UNCHANGED <<fini_thread_calls, pc, key, has_reached_main>>
        /\ SameWinners
    BY <1>18 DEF BlockShootdown, StageVars, SameWinners, Winner
  <2> QED
    BY <2>1, AsQuiet
<1>19. ASSUME NEW t \in All, NEW on \in BOOLEAN, IgnoreNewThreads(t, on) PROVE Mapped
  <2>1. /\ UNCHANGED StageVars
        /\ UNCHANGED <<fini_thread_calls, pc, key, has_reached_main>>
        /\ SameWinners
    BY <1>19 DEF IgnoreNewThreads, StageVars, SameWinners, Winner
  <2> QED
    BY <2>1, AsQuiet
<1>20. ASSUME NEW t \in All, ShootdownHandler(t) PROVE Mapped
  <2>1. /\ UNCHANGED StageVars
        /\ UNCHANGED <<fini_thread_calls, pc, key, has_reached_main>>
        /\ SameWinners
    BY <1>20 DEF ShootdownHandler, StageVars, SameWinners, Winner
  <2> QED
    BY <2>1, AsQuiet
<1>21. ASSUME NEW t \in All, HandlerFiniStart(t) PROVE Mapped
  <2>1. /\ UNCHANGED StageVars /\ SameWinners /\ ~terminated /\ UNCHANGED <<pc, key, has_reached_main>>
        /\ fini_thread_calls' = [fini_thread_calls EXCEPT ![t] = @ + 1] /\ hpc[t] = "chk"
    BY <1>21 DEF HandlerFiniStart, StageVars, SameWinners
  <2>2. t \in Threads /\ t # Main /\ end_process_cookie = 1
    BY <2>1 DEF MarkInv, CookieInv
  <2>3. key[t] # NoNode /\ pc[t] \in InAppl
    BY <2>1, <2>2 DEF MarkInv
  <2>4. PhaseOf(t) = "live"
    BY <2>2, <2>3 DEF PhaseOf, InAppl
  <2>5. fini_thread_calls[t] \in Nat /\ fini_thread_calls[t] <= 1
    BY <2>1, <2>2 DEF CountInv, Pending
  <2>6. StageOf # "running"
    BY <2>2 DEF StageOf
  <2>7. fini_thread_calls[t] = 0 \/ (fini_thread_calls[t] = 1 /\ StageOf # "running")
    BY <2>5, <2>6
  <2>8. \A u \in All : PhaseOf(u)' = PhaseOf(u)
    BY <2>1 DEF PhaseOf
  <2> QED
    BY <2>1, <2>2, <2>4, <2>7, <2>8, AsFiniThread
<1>22. ASSUME NEW t \in All, HandlerFiniDone(t) PROVE Mapped
  <2>1. /\ UNCHANGED StageVars
        /\ UNCHANGED <<fini_thread_calls, pc, key, has_reached_main>>
        /\ SameWinners
    BY <1>22 DEF HandlerFiniDone, StageVars, SameWinners, Winner
  <2> QED
    BY <2>1, AsQuiet
<1>23. ASSUME NEW t \in All, SigwaitHelper(t) PROVE Mapped
  <2>1. UNCHANGED StageVars /\ UNCHANGED fini_thread_calls /\ SameWinners /\ ~terminated
    BY <1>23 DEF SigwaitHelper, StageVars, SameWinners
  <2>2. \A u \in All : PhaseOf(u)' = PhaseOf(u)
    BY <1>23 DEF SigwaitHelper, PhaseOf
  <2> QED
    BY <2>1, <2>2, AsStutter
<1>24. ASSUME NEW t \in All, NEW kind \in {"exit", "pthread_exit"}, CallExit(t, kind) PROVE Mapped
  <2>1. /\ UNCHANGED StageVars
        /\ UNCHANGED <<fini_thread_calls, pc, key, has_reached_main>>
        /\ SameWinners
    BY <1>24 DEF CallExit, StageVars, SameWinners, Winner
  <2> QED
    BY <2>1, AsQuiet
<1>25. ASSUME NEW t \in All, FatalSignal(t) PROVE Mapped
  <2>1. /\ UNCHANGED StageVars
        /\ UNCHANGED <<fini_thread_calls, pc, key, has_reached_main>>
        /\ SameWinners
    BY <1>25 DEF FatalSignal, StageVars, SameWinners, Winner
  <2> QED
    BY <2>1, AsQuiet
<1>26. ASSUME NEW t \in All, CasCookie(t) PROVE Mapped
  <2>1. FramesKept /\ xpc[t] = "cas" /\ ~terminated /\ UNCHANGED <<terminated, fini_process_calls>>
    BY <1>26 DEF CasCookie, FramesKept
  <2>2. CASE end_process_cookie = 0
    <3>1. end_process_cookie' = 1 /\ fini_process_done' = fini_process_done /\ xpc' = [xpc EXCEPT ![t] = "won"]
      BY <1>26, <2>2 DEF CasCookie, WinsCookie
    <3>2. fini_process_calls = 0 /\ ~fini_process_done /\ \A u \in All : xpc[u] \notin Winner
      BY <2>2 DEF ExitInv
    <3>3. StageOf = "running" /\ StageOf' = "ending"
      BY <2>1, <2>2, <3>1, <3>2 DEF StageOf
    <3>4. xpc'[t] \in Winner /\ \A u \in All : xpc'[u] \in Winner => u = t
      BY <3>1, <3>2 DEF Winner
    <3> QED
      BY <2>1, <3>3, <3>4, AsEndProcess
  <2>3. CASE end_process_cookie # 0 /\ GetTn(t) # NoNode /\ tn[GetTn(t)].exit_win
    <3>1. /\ end_process_cookie' = end_process_cookie /\ fini_process_done' /\ xpc' = [xpc EXCEPT ![t] = "done"]
          /\ end_process_cookie = 1
      BY <1>26, <2>3 DEF CasCookie, WinsCookie
    <3>2. \A u \in All : xpc[u] \notin Winner
      <4> SUFFICES ASSUME NEW u \in All, xpc[u] \in Winner PROVE FALSE
        OBVIOUS
      <4>1. GetTn(t) \in Node
        BY <2>3, MainTnIsNode DEF GetTn
      <4>2. GetTn(u) = GetTn(t)
        BY <2>3, <4>1 DEF ExitInv
      <4>3. u = t
        BY <2>1, <2>3, <4>2, OwnTn DEF Winner
      <4> QED
        BY <2>1, <4>3 DEF Winner
    <3>3. \A u \in All : xpc'[u] \notin Winner
      BY <3>1, <3>2 DEF Winner
    <3>4. CASE fini_process_done
      <4>1. UNCHANGED StageVars /\ SameWinners
        BY <2>1, <3>1, <3>2, <3>3, <3>4 DEF StageVars, SameWinners
      <4> QED
        BY <2>1, <4>1, AsQuiet DEF FramesKept
    <3>5. CASE ~fini_process_done
      <4>1. StageOf \in {"finishing", "ending"} /\ StageOf' = "finished"
        BY <2>1, <3>1, <3>5 DEF StageOf
      <4> QED
        BY <2>1, <3>2, <3>3, <4>1, AsFinished
    <3> QED
      BY <3>4, <3>5
  <2>4. CASE end_process_cookie # 0 /\ ~(GetTn(t) # NoNode /\ tn[GetTn(t)].exit_win)
    <3>1. UNCHANGED <<end_process_cookie, fini_process_done>> /\ xpc' = [xpc EXCEPT ![t] = "wait"]
      BY <1>26, <2>4 DEF CasCookie, WinsCookie
    <3>2. UNCHANGED StageVars /\ SameWinners
      BY <2>1, <3>1 DEF StageVars, SameWinners, Winner
    <3> QED
      BY <2>1, <3>2, AsQuiet DEF FramesKept
  <2> QED
    BY <2>2, <2>3, <2>4
<1>26m. ASSUME NEW t \in All, MarkExitWin(t) PROVE Mapped
  <2>1. /\ UNCHANGED StageVars
        /\ UNCHANGED <<fini_thread_calls, pc, key, has_reached_main>>
        /\ SameWinners
    BY <1>26m DEF MarkExitWin, StageVars, SameWinners, Winner
  <2> QED
    BY <2>1, AsQuiet
<1>27. ASSUME NEW t \in All, LoserReleased(t) PROVE Mapped
  <2>1. /\ UNCHANGED StageVars
        /\ UNCHANGED <<fini_thread_calls, pc, key, has_reached_main>>
        /\ SameWinners
    BY <1>27 DEF LoserReleased, CallbacksOver, StageVars, SameWinners, Winner
  <2> QED
    BY <2>1, AsQuiet
<1>28. ASSUME NEW t \in All, CancelExit(t) PROVE Mapped
  <2>1. UNCHANGED StageVars /\ UNCHANGED fini_thread_calls /\ ~terminated
    BY <1>28 DEF CancelExit, StageVars
  <2>2. /\ pc[t] \in {"run", "raw"} /\ t \in Threads /\ t # Main /\ UNCHANGED <<key, has_reached_main>>
        /\ pc' = [pc EXCEPT ![t] = IF pc[t] = "run" /\ MayRunFiniThread(arg[t]) THEN "chk" ELSE "dead"]
        /\ xpc[t] \in {"begin", "wait", "fini", "lib", "done"} /\ xpc' = [xpc EXCEPT ![t] = "none"]
    BY <1>28 DEF CancelExit
  <2>3. end_process_cookie = 1 /\ (xpc[t] \in Winner => ~fini_process_done)
    BY <2>2 DEF ExitInv, CookieInv, Winner, Leaving
  <2>4. StageOf # "running" /\ (xpc[t] \in Winner => StageOf \in {"ending", "finishing"})
    BY <2>1, <2>3 DEF StageOf
  <2>5. xpc'[t] \notin Winner /\ \A u \in All \ {t} : xpc'[u] = xpc[u]
    BY <2>2 DEF Winner
  <2>6. PhaseOf(t) \in {"live", "ignored"} /\ OthersKept(t)
    BY <2>2 DEF PhaseOf, OthersKept
  <2>7. xpc[t] \notin Winner => SameWinners
    BY <2>5 DEF SameWinners
  <2>8. CASE pc[t] = "run" /\ MayRunFiniThread(arg[t])
    <3>1. PhaseOf(t)' = PhaseOf(t)
      BY <2>2, <2>8 DEF PhaseOf
    <3>2. \A u \in All : PhaseOf(u)' = PhaseOf(u)
      BY <2>6, <3>1 DEF OthersKept
    <3>3. CASE xpc[t] \in Winner
      <4>1. \A u \in All : xpc'[u] \notin Winner
        BY <2>5, <3>3 DEF ExitInv
      <4> QED
        BY <2>1, <2>4, <3>2, <3>3, <4>1, AsAbandon
    <3>4. CASE xpc[t] \notin Winner
      BY <2>1, <2>7, <3>2, <3>4, AsStutter
    <3> QED
      BY <3>3, <3>4
  <2>9. CASE ~(pc[t] = "run" /\ MayRunFiniThread(arg[t]))
    <3>1. PhaseOf(t)' = "over"
      BY <2>2, <2>9 DEF PhaseOf
    <3>2. CASE xpc[t] \in Winner
      <4>1. \A u \in All : xpc'[u] \notin Winner
        BY <2>5, <3>2 DEF ExitInv
      <4> QED
        BY <2>1, <2>4, <2>6, <3>1, <3>2, <4>1, AsEnderOver
    <3>3. CASE xpc[t] \notin Winner
      BY <2>1, <2>4, <2>6, <2>7, <3>1, <3>3, AsThreadOver
    <3> QED
      BY <3>2, <3>3
  <2> QED
    BY <2>8, <2>9
<1>29. ASSUME NEW t \in All, ExitAgain(t) PROVE Mapped
  <2>1. /\ FramesKept /\ UNCHANGED StageVars /\ ~terminated
        /\ xpc' = [xpc EXCEPT ![t] = "cas"] /\ (xpc[t] = "done" \/ xpc[t] \in Winner)
    BY <1>29 DEF ExitAgain, FramesKept, StageVars
  <2>2. CASE xpc[t] = "done"
    <3>1. SameWinners
      BY <2>1, <2>2 DEF SameWinners, Winner
    <3> QED
      BY <2>1, <3>1, AsQuiet DEF FramesKept
  <2>3. CASE xpc[t] \in Winner
    <3>1. \A u \in All : xpc'[u] \notin Winner
      BY <2>1, <2>3 DEF ExitInv, Winner
    <3>2. end_process_cookie = 1 /\ ~fini_process_done
      BY <2>3 DEF ExitInv
    <3>3. StageOf \in {"ending", "finishing"}
      BY <2>1, <3>2 DEF StageOf
    <3> QED
      BY <2>1, <2>3, <3>1, <3>3, AsAbandon DEF FramesKept, PhaseOf
  <2> QED
    BY <2>1, <2>2, <2>3
<1>30. ASSUME NEW t \in All, BeginProcessExitDone(t) PROVE Mapped
  <2>1. /\ FramesKept /\ ~terminated /\ xpc[t] = "begin" /\ UNCHANGED <<end_process_cookie, fini_process_done, terminated>>
    BY <1>30 DEF BeginProcessExitDone, FramesKept
  <2>2. CASE has_used_threads
    <3>1. UNCHANGED StageVars /\ SameWinners
      BY <1>30, <2>1, <2>2 DEF BeginProcessExitDone, StageVars, SameWinners, Winner
    <3> QED
      BY <2>1, <3>1, AsQuiet DEF FramesKept
  <2>3. CASE ~has_used_threads
    <3>1. xpc' = [xpc EXCEPT ![t] = "fini"] /\ fini_process_calls' = fini_process_calls + 1
      BY <1>30, <2>3 DEF BeginProcessExitDone, CallFiniProcess
    <3>2. SameWinners /\ xpc[t] \in Winner
      BY <2>1, <3>1 DEF SameWinners, Winner
    <3>3. StageOf = "ending" /\ StageOf' = "finishing"
      <4>1. end_process_cookie = 1 /\ ~fini_process_done /\ fini_process_calls = 0
        BY <2>1 DEF ExitInv, Winner
      <4> QED
        BY <2>1, <3>1, <4>1 DEF StageOf
    <3>4. t # Main => PhaseOf(t) = "before"
      BY <2>3 DEF PhaseOf
    <3> QED
      BY <2>1, <3>2, <3>3, <3>4, AsFiniProcess
  <2> QED
    BY <2>2, <2>3
<1>31. ASSUME NEW t \in All, FiniProcessDone(t) PROVE Mapped
  <2>1. /\ FramesKept /\ ~terminated /\ xpc[t] = "fini" /\ xpc' = [xpc EXCEPT ![t] = "done"]
        /\ UNCHANGED terminated /\ fini_process_done'
    BY <1>31 DEF FiniProcessDone, FramesKept
  <2>2. fini_process_calls > 0 /\ ~fini_process_done
    BY <2>1 DEF CookieInv, ExitInv, Winner
  <2>3. StageOf = "finishing" /\ StageOf' = "finished"
    BY <2>1, <2>2 DEF StageOf
  <2>4. \A u \in All : xpc'[u] \notin Winner
    BY <2>1 DEF ExitInv, Winner
  <2> QED
    BY <2>1, <2>3, <2>4, AsFinished
<1>32. ASSUME NEW t \in All, AfterEndProcess(t) PROVE Mapped
  <2>1. xpc[t] = "done" /\ ~terminated /\ UNCHANGED <<fini_thread_calls, key, has_reached_main, end_process_cookie, fini_process_done, fini_process_calls>>
    BY <1>32 DEF AfterEndProcess
  <2>2. fini_process_done /\ \A u \in All : xpc[u] \notin Winner
    BY <2>1 DEF ExitInv, Leaving
  <2>3. StageOf = "finished"
    BY <2>1, <2>2 DEF StageOf
  <2>4. CASE xkind[t] = "pthread_exit"
    <3>1. xpc' = [xpc EXCEPT ![t] = "none"] /\ pc' = [pc EXCEPT ![t] = "dead"] /\ UNCHANGED terminated
      BY <1>32, <2>4 DEF AfterEndProcess
    <3>2. SameWinners /\ UNCHANGED StageVars /\ xpc[t] \notin Winner
      BY <2>1, <2>2, <3>1 DEF SameWinners, StageVars, Winner
    <3>3. pc[t] \in {"run", "raw"} /\ (t = Main => has_reached_main)
      BY <2>1, <2>4 DEF CookieInv, MainInv
    <3>4. PhaseOf(t) # "over" /\ PhaseOf(t)' = "over" /\ OthersKept(t)
      BY <2>1, <3>1, <3>3 DEF PhaseOf, OthersKept
    <3> QED
      BY <2>1, <2>3, <3>2, <3>4, AsThreadOver
  <2>5. CASE xkind[t] # "pthread_exit" /\ fini_library_called
    <3>1. terminated' /\ FramesKept /\ xpc' = [xpc EXCEPT ![t] = "done"]
      BY <1>32, <2>5 DEF AfterEndProcess, FramesKept
    <3>2. \A u \in All : xpc'[u] \notin Winner
      BY <2>2, <3>1 DEF Winner
    <3> QED
      BY <2>1, <2>3, <3>1, <3>2, AsGone
  <2>6. CASE xkind[t] # "pthread_exit" /\ ~fini_library_called
    <3>1. UNCHANGED terminated /\ UNCHANGED <<fini_thread_calls, pc, key, has_reached_main>> /\ xpc' = [xpc EXCEPT ![t] = "lib"]
      BY <1>32, <2>6 DEF AfterEndProcess
    <3>2. SameWinners /\ UNCHANGED StageVars
      BY <2>1, <2>2, <3>1 DEF SameWinners, StageVars, Winner
    <3> QED
      BY <3>1, <3>2, AsQuiet
  <2> QED
    BY <2>4, <2>5, <2>6
<1>33. ASSUME NEW t \in All, FiniLibraryDone(t) PROVE Mapped
  <2>1. FramesKept /\ ~terminated /\ terminated' /\ xpc[t] = "lib" /\ xpc' = xpc
    BY <1>33 DEF FiniLibraryDone, FramesKept
  <2>2. fini_process_done /\ \A u \in All : xpc[u] \notin Winner
    BY <2>1 DEF ExitInv, Leaving
  <2>3. StageOf = "finished"
    BY <2>1, <2>2 DEF StageOf
  <2> QED
    BY <2>1, <2>2, <2>3, AsGone
<1>34. ASSUME NEW t \in All, EnterExitCleanup(t) PROVE Mapped
  <2>1. /\ UNCHANGED StageVars
        /\ UNCHANGED <<fini_thread_calls, pc, key, has_reached_main>>
        /\ SameWinners
    BY <1>34 DEF EnterExitCleanup, StageVars, SameWinners, Winner
  <2> QED
    BY <2>1, AsQuiet
<1>35. ASSUME NEW t \in All, ScanNode(t) PROVE Mapped
  <2>1. /\ UNCHANGED StageVars
        /\ UNCHANGED <<fini_thread_calls, pc, key, has_reached_main>>
        /\ SameWinners
    BY <1>35 DEF ScanNode, StageVars, SameWinners, Winner
  <2> QED
    BY <2>1, AsQuiet
<1>36. ASSUME NEW t \in All, KillThread(t) PROVE Mapped
  <2>1. /\ UNCHANGED StageVars
        /\ UNCHANGED <<fini_thread_calls, pc, key, has_reached_main>>
        /\ SameWinners
    BY <1>36 DEF KillThread, StageVars, SameWinners, Winner
  <2> QED
    BY <2>1, AsQuiet
<1>37. ASSUME NEW t \in All, CheckFiniDone(t) PROVE Mapped
  <2>1. /\ UNCHANGED StageVars
        /\ UNCHANGED <<fini_thread_calls, pc, key, has_reached_main>>
        /\ SameWinners
    BY <1>37 DEF CheckFiniDone, StageVars, SameWinners, Winner
  <2> QED
    BY <2>1, AsQuiet
<1>38. ASSUME NEW t \in All, ScanFinished(t) PROVE Mapped
  <2>1. /\ UNCHANGED StageVars
        /\ UNCHANGED <<fini_thread_calls, pc, key, has_reached_main>>
        /\ SameWinners
    BY <1>38 DEF ScanFinished, ScanOver, StageVars, SameWinners, Winner
  <2> QED
    BY <2>1, AsQuiet
<1>39. ASSUME NEW t \in All, ScanAgain(t) PROVE Mapped
  <2>1. /\ UNCHANGED StageVars
        /\ UNCHANGED <<fini_thread_calls, pc, key, has_reached_main>>
        /\ SameWinners
    BY <1>39 DEF ScanAgain, StageVars, SameWinners, Winner
  <2> QED
    BY <2>1, AsQuiet
<1>40. ASSUME NEW t \in All, ScanTimeout(t) PROVE Mapped
  <2>1. /\ UNCHANGED StageVars
        /\ UNCHANGED <<fini_thread_calls, pc, key, has_reached_main>>
        /\ SameWinners
    BY <1>40 DEF ScanTimeout, ScanOver, StageVars, SameWinners, Winner
  <2> QED
    BY <2>1, AsQuiet
<1>41. ASSUME NEW t \in All, SetFiniThreadDone(t) PROVE Mapped
  <2>1. /\ UNCHANGED StageVars
        /\ UNCHANGED <<fini_thread_calls, pc, key, has_reached_main>>
        /\ SameWinners
    BY <1>41 DEF SetFiniThreadDone, StageVars, SameWinners, Winner
  <2> QED
    BY <2>1, AsQuiet
<1>42. ASSUME NEW t \in All, FiniSelf(t) PROVE Mapped
  <2>1. /\ ~terminated /\ xpc[t] = "self" /\ xpc[t] \in Winner
        /\ UNCHANGED <<pc, key, has_reached_main, end_process_cookie, fini_process_done, terminated>>
    BY <1>42 DEF FiniSelf, Winner
  <2>2. pc[t] \notin {"unborn", "reserved", "dead"}
    BY <2>1
  <2>3. CASE my_tn # NoNode /\ ~tn[my_tn].fini_started
    <3>1. /\ fini_thread_calls' = [fini_thread_calls EXCEPT ![t] = @ + 1] /\ fini_process_calls' = fini_process_calls
          /\ xpc' = [xpc EXCEPT ![t] = "selffini"]
      BY <1>42, <2>3 DEF FiniSelf
    <3>2. my_tn \in thread_list /\ tn[my_tn].self = t
      BY <2>1, <2>3 DEF WalkInv
    <3>3. t \in Threads /\ t # Main
      BY <3>2 DEF SelfInv
    <3>4. key[t] = my_tn /\ arg[t] = my_tn /\ pc[t] \notin {"start", "link", "linking"}
      BY <3>2, <3>3 DEF ListInv
    <3>5. pc[t] \notin {"unlink", "unlinking"}
      BY <2>3, <3>3, <3>4 DEF MarkInv
    <3>6. PhaseOf(t) \in {"live", "init"}
      BY <2>2, <2>3, <3>3, <3>4, <3>5 DEF PhaseOf
    <3>7. fini_thread_calls[t] = 0
      BY <2>2, <2>3, <3>3, <3>4 DEF CountInv
    <3>8. SameWinners /\ UNCHANGED StageVars
      BY <2>1, <3>1 DEF SameWinners, StageVars, Winner
    <3>9. \A u \in All : PhaseOf(u)' = PhaseOf(u)
      BY <2>1 DEF PhaseOf
    <3> QED
      BY <2>1, <3>1, <3>3, <3>6, <3>7, <3>8, <3>9, AsFiniThread
  <2>4. CASE ~(my_tn # NoNode /\ ~tn[my_tn].fini_started)
    <3>1. /\ xpc' = [xpc EXCEPT ![t] = "fini"] /\ fini_process_calls' = fini_process_calls + 1
          /\ UNCHANGED fini_thread_calls
      BY <1>42, <2>4 DEF FiniSelf, CallFiniProcess
    <3>2. SameWinners /\ FramesKept
      BY <2>1, <3>1 DEF SameWinners, FramesKept, Winner
    <3>3. StageOf = "ending" /\ StageOf' = "finishing"
      <4>1. end_process_cookie = 1 /\ ~fini_process_done /\ fini_process_calls = 0
        BY <2>1 DEF ExitInv, Winner
      <4> QED
        BY <2>1, <3>1, <4>1 DEF StageOf
    <3>4. ASSUME PhaseOf(t) = "live", t # Main PROVE fini_thread_calls[t] > 0
      <4>1. t \in Threads /\ key[t] # NoNode /\ pc[t] \notin {"link", "linking"}
        BY <3>4 DEF PhaseOf
      <4>2. key[t] \in thread_list
        BY <2>2, <4>1 DEF ListInv
      <4>3. my_tn = key[t]
        BY <2>1, <4>2 DEF WalkInv
      <4>4. tn[key[t]].fini_started
        BY <2>4, <4>1, <4>3
      <4> QED
        BY <2>2, <4>1, <4>4 DEF CountInv
    <3> QED
      BY <2>1, <3>2, <3>3, <3>4, AsFiniProcess
  <2> QED
    BY <2>3, <2>4
<1>43. ASSUME NEW t \in All, FiniSelfDone(t) PROVE Mapped
  <2>1. /\ ~terminated /\ xpc[t] = "selffini" /\ xpc[t] \in Winner /\ FramesKept
        /\ UNCHANGED <<end_process_cookie, fini_process_done, terminated>>
        /\ xpc' = [xpc EXCEPT ![t] = "fini"] /\ fini_process_calls' = fini_process_calls + 1
    BY <1>43 DEF FiniSelfDone, CallFiniProcess, FramesKept, Winner
  <2>2. SameWinners
    BY <2>1 DEF SameWinners, Winner
  <2>3. StageOf = "ending" /\ StageOf' = "finishing"
    <3>1. end_process_cookie = 1 /\ ~fini_process_done /\ fini_process_calls = 0
      BY <2>1 DEF ExitInv, Winner
    <3> QED
      BY <2>1, <3>1 DEF StageOf
  <2>4. fini_thread_calls[t] > 0
    BY <2>1 DEF CookieInv
  <2> QED
    BY <2>1, <2>2, <2>3, <2>4, AsFiniProcess
<1>44. ASSUME UNCHANGED vars PROVE Mapped
  <2>1. UNCHANGED StageVars /\ UNCHANGED <<fini_thread_calls, pc, key, has_reached_main>> /\ SameWinners
    BY <1>44 DEF StageVars, SameWinners
  <2> QED
    BY <2>1, AsQuiet
<1> HIDE DEF TypeOK, ThreadInv, All, NoNode, MainTn, Alive,
        InBase, InExit, InHandler, At, Goto, ExitAt, ExitTo, CallFiniThread, Home,
        exitVars, listVars, flagVars, shootVars, vars
<1>45. ASSUME NEW t \in All, LibraryStep(t) PROVE Mapped
  BY <1>45, <1>4, <1>5, <1>6, <1>7, <1>8, <1>9, <1>10, <1>13, <1>14, <1>15, <1>21,
     <1>22, <1>26, <1>26m, <1>27, <1>30, <1>34, <1>35, <1>36, <1>37, <1>38, <1>39, <1>41,
     <1>42, <1>43, <1>31, <1>32, <1>33
     DEF LibraryStep, LockStep, StartStep, DoneStep
<1>46. ASSUME NEW t \in All, EnvironmentStep(t) PROVE Mapped
  BY <1>46, <1>3, <1>7, <1>12, <1>16, <1>24, <1>18, <1>19, <1>20, <1>23, <1>40,
     <1>11, <1>11c, <1>28, <1>25, <1>29 DEF EnvironmentStep
<1> QED
  BY <1>1, <1>2, <1>17, <1>44, <1>45, <1>46 DEF Next, Gone

-----------------------------------------------------------------------------
(* The refinement *)

\* The invariant of the refinement, besides IInv.
PromiseInv == ScanInv /\ MainInv /\ CookieInv /\ ListInv /\ WalkInv /\ MarkInv /\ CountInv

\* It holds when the process starts, ...
LEMMA InitPromise ==
  ASSUME Init
  PROVE  PromiseInv
<1> USE ThreadsAssumption, MainTnIsNode DEF Init, All, NoNode, ZeroNode
<1>1. ScanInv
  BY DEF ScanInv, Walk
<1>2. MainInv /\ CookieInv
  BY DEF MainInv, CookieInv
<1>3. ListInv /\ WalkInv
  BY DEF ListInv, WalkInv, Walk
<1>4. MarkInv
  BY DEF MarkInv, InAppl
<1>5. CountInv
  BY DEF CountInv, Pending
<1> QED
  BY <1>1, <1>2, <1>3, <1>4, <1>5 DEF PromiseInv

\* ... where nothing has happened for the client either.
LEMMA InitMapped ==
  ASSUME Init
  PROVE  Callbacks!Init
<1>1. \A t \in All : PhaseOf(t) = "before"
  BY DEF Init, PhaseOf
<1>2. StageOf = "running"
  BY DEF Init, StageOf
<1>3. EnderOf = NoThread
  BY DEF Init, EnderOf, Winner
<1> QED
  BY <1>1, <1>2, <1>3 DEF Init, Callbacks!Init

\* ClientPromise: for any number of threads, and wherever they are created, end, exit,
\* crash or are cancelled, the client gets its callbacks in an order that monitor.h and
\* tests/exit.c allow (pthread.c:445-700, main.c:225-356).
THEOREM PromiseKept == Spec => ClientPromise
<1>1. Init => PromiseInv /\ Callbacks!Init
  BY InitPromise, InitMapped
<1>2. IInv /\ PromiseInv /\ [Next]_vars => PromiseInv'
  BY ScanStep, MainStep, CookieStep, ListStep, WalkStep, MarkStep, CountStep DEF IInv, PromiseInv
<1>3. IInv /\ PromiseInv /\ [Next]_vars => [Callbacks!Next]_Callbacks!callbackVars
  BY MapStep DEF PromiseInv, Mapped
<1> QED
  BY <1>1, <1>2, <1>3, Inductive, PTL DEF Spec, ClientPromise, Callbacks!Spec
=============================================================================
