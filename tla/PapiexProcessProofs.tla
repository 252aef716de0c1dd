------------------------ MODULE PapiexProcessProofs ------------------------
(***************************************************************************)
(* Proofs about PapiexProcess for any threads and any size of the table:   *)
(* the thread table of papiex keeps one entry for each thread, however     *)
(* threads begin and end and whatever a fork child inherits.               *)
(***************************************************************************)
EXTENDS PapiexProcess, FiniteSetTheorems, TLAPS

\* The steps of papiex_thread_init_routine before the entry counts, and those under
\* the lock.
Beginning == {"process init", "init", "append", "grow", "store", "bump"}
Critical  == {"grow", "store", "bump"}

\* The threads with an entry.
Entries == {t \in Threads : \E i \in 1 .. num : table[i] = t}

TableType ==
  /\ setup \in Setup /\ at \in [Threads -> Points] /\ phase \in [Threads -> Monitor!Phases]
  /\ counting \subseteq Threads \cup {Parent}
  /\ table \in [Slots -> Threads \cup {Parent, NoThread}] /\ num \in Nat /\ size \in Nat
  /\ papi_lock \in Threads \cup {NoThread}

\* Who is in the critical section holds the lock, and the entry it writes has room.
LockInv ==
  /\ num < size
  /\ \A t \in Threads : at[t] \in Critical => papi_lock = t
  /\ \A t \in Threads : at[t] \in {"store", "bump"} => num + 1 < size
  /\ \A t \in Threads : at[t] = "bump" => table[num + 1] = t

\* A thread gets its entry once in its life.
OnceInv ==
  /\ \A t \in Threads : at[t] \in Beginning \cup {"start"} => t = Main \/ phase[t] # "before"
  /\ \A t \in Threads : at[t] \in Beginning \/ (t # Main /\ phase[t] = "before") => t \notin Entries
  /\ \A t \in Threads : Entered(t) => t \in Entries

\* The entries are those of the threads, each once, after the inherited ones.
CountInv ==
  /\ num = setup.inherited + Cardinality(Entries)
  /\ \A i, j \in 1 .. num : table[i] = table[j] /\ table[i] \in Threads => i = j
  /\ \A i \in 1 .. num : table[i] # NoThread

TableInv == TableType /\ LockInv /\ OnceInv /\ CountInv

\* The table is large enough to be looked at as a function on Slots.
LEMMA SlotFacts ==
  /\ Cardinality(Threads) \in Nat /\ InitSize \in Nat \ {0}
  /\ Slots = 1 .. Cardinality(Threads) + InitSize
  /\ \A S \in SUBSET Threads : IsFiniteSet(S) /\ Cardinality(S) \in Nat /\ Cardinality(S) <= Cardinality(Threads)
  BY ThreadsAssumption, SizeAssumption, FS_CardinalityType, FS_Subset DEF Slots

\* A thread that is about to write its entry finds a slot for it.
LEMMA RoomInSlots ==
  ASSUME TableInv, NEW t \in Threads, t \notin Entries
  PROVE  num + 1 \in Slots /\ num \in Nat /\ 1 .. num \subseteq Slots
<1>1. Entries \in SUBSET Threads /\ IsFiniteSet(Entries)
  BY SlotFacts DEF Entries
<1>2. Cardinality(Entries \cup {t}) = Cardinality(Entries) + 1
  BY <1>1, FS_AddElement
<1>3. Cardinality(Entries \cup {t}) <= Cardinality(Threads)
  BY <1>1, SlotFacts
<1>4. Cardinality(Entries) \in Nat
  BY <1>1, SlotFacts
<1>5. setup.inherited \in 0 .. InitSize - 1
  BY DEF TableInv, TableType, Setup
<1>6. num = setup.inherited + Cardinality(Entries) /\ num \in Nat
  BY DEF TableInv, CountInv, TableType
<1> QED
  BY <1>2, <1>3, <1>4, <1>5, <1>6, SlotFacts

\* The first state of a process satisfies the invariant, with the entries a fork
\* child inherits.
LEMMA TableInit == Init => TableInv
<1> SUFFICES ASSUME Init PROVE TableInv
  OBVIOUS
<1>1. /\ setup \in Setup /\ setup.inherited \in Nat /\ setup.inherited < InitSize
      /\ InitSize \in Nat /\ Cardinality(Threads) \in Nat
  <2>1. setup \in Setup
    BY SetupsAssumption DEF Init
  <2> QED
    BY <2>1, SizeAssumption, SlotFacts DEF Setup
<1>2. /\ phase = [t \in Threads |-> "before"] /\ counting \subseteq {Parent}
      /\ at = [t \in Threads |-> IF t = Main THEN "process init" ELSE "app"]
      /\ table = [i \in Slots |-> IF i <= setup.inherited THEN Parent ELSE NoThread]
      /\ num = setup.inherited /\ size = InitSize /\ papi_lock = NoThread
  BY DEF Init, Monitor!Init
<1>3. TableType
  BY <1>1, <1>2 DEF TableType, Points, Monitor!Phases
<1>4. \A i \in 1 .. num : i \in Slots /\ table[i] = Parent
  <2>1. ASSUME NEW i \in 1 .. num PROVE i \in Slots /\ i <= setup.inherited
    <3> DEFINE n == setup.inherited
               c == Cardinality(Threads)
    <3>1. n \in Nat /\ n < InitSize /\ InitSize \in Nat /\ c \in Nat /\ i \in 1 .. n
      BY <1>1, <1>2, <2>1
    <3> HIDE DEF n, c
    <3>2. i \in 1 .. c + InitSize /\ i <= n
      BY <3>1
    <3> QED
      BY <3>2 DEF Slots, n, c
  <2> QED
    BY <1>2, <2>1
<1>5. Entries = {}
  BY <1>4, ThreadsAssumption DEF Entries
<1>6. LockInv
  BY <1>1, <1>2 DEF LockInv, Critical
<1>7. OnceInv
  BY <1>2, <1>5, ThreadsAssumption DEF OnceInv, Entered, Beginning
<1>8. CountInv
  <2>1. Cardinality(Entries) = 0
    BY <1>5, FS_EmptySet
  <2> QED
    <3>1. num = setup.inherited + Cardinality(Entries)
      <4>1. num \in Nat /\ num = setup.inherited
        BY <1>1, <1>2
      <4>2. num = num + 0
        BY <4>1
      <4> QED
        BY <2>1, <4>1, <4>2
    <3>2. \A i \in 1 .. num : table[i] \notin Threads /\ table[i] # NoThread
      BY <1>4, ThreadsAssumption
    <3> QED
      BY <3>1, <3>2 DEF CountInv
<1> QED
  BY <1>3, <1>6, <1>7, <1>8 DEF TableInv

\* A thread goes on, from wherever it is, to a place that does not belong to the
\* making of an entry; the table stays.
LEMMA MoveKeeps ==
  ASSUME TableInv, UNCHANGED <<setup, table, num, size, papi_lock>>,
         NEW t \in Threads, NEW to \in Points \ (Beginning \cup {"start"}),
         at' = at \/ at' = [at EXCEPT ![t] = to],
         phase' \in [Threads -> Monitor!Phases],
         \A u \in Threads : phase'[u] = "before" => phase[u] = "before",
         counting' \subseteq counting
  PROVE  TableInv'
<1> USE DEF TableInv
<1>1. Entries' = Entries
  BY DEF Entries
<1>2. at' \in [Threads -> Points] /\ \A u \in Threads : at'[u] \in Beginning \cup {"start"} => at'[u] = at[u]
  BY DEF TableType
<1>3. TableType'
  BY <1>2 DEF TableType
<1>4. LockInv'
  BY <1>2 DEF LockInv, Beginning, Critical
<1>5. OnceInv'
  BY <1>1, <1>2 DEF OnceInv, Entered, TableType
<1>6. CountInv'
  BY <1>1 DEF CountInv
<1> QED
  BY <1>3, <1>4, <1>5, <1>6

\* Of the first three steps of an entry none changes the table.
LEMMA BeginKeeps ==
  ASSUME TableInv, NEW t \in Threads, UNCHANGED <<setup, table, num, counting>>,
         \/ ProcessInit /\ t = Main
         \/ ThreadInit(t) \/ TakeLock(t) \/ Grow(t) \/ monitor_init_thread(t)
  PROVE  TableInv'
<1> USE DEF TableInv
<1>1. Entries' = Entries
  BY DEF Entries
<1>2. CountInv'
  BY <1>1 DEF CountInv
<1>3. CASE ProcessInit \/ ThreadInit(t)
  <2>1. /\ \/ UNCHANGED at
           \/ \E u \in Threads :
                at[u] \in Beginning /\ at' = [at EXCEPT ![u] = IF at[u] = "init" THEN "append" ELSE "init"]
        /\ UNCHANGED <<phase, size, papi_lock>>
    BY <1>3, ThreadsAssumption DEF ProcessInit, ThreadInit, At, Goto, Beginning, monitorVars, tableVars
  <2>2. PICK u \in Threads :
                   \/ UNCHANGED at
                   \/ at[u] \in Beginning /\ at' = [at EXCEPT ![u] = IF at[u] = "init" THEN "append" ELSE "init"]
    BY <2>1
  <2>3. TableType'
    BY <2>1, <2>2 DEF TableType, Points
  <2>4. LockInv'
    BY <2>1, <2>2 DEF LockInv, Critical, TableType
  <2>5. OnceInv'
    BY <1>1, <2>1, <2>2 DEF OnceInv, Entered, TableType, Beginning
  <2> QED
    BY <1>2, <2>3, <2>4, <2>5
<1>4. CASE TakeLock(t)
  <2>1. /\ at[t] = "append" /\ papi_lock = NoThread /\ papi_lock' = t /\ UNCHANGED <<phase, size>>
        /\ at' = [at EXCEPT ![t] = IF NeedsRoom THEN "grow" ELSE "store"]
    BY <1>4 DEF TakeLock, LockFree, At, Goto, monitorVars
  <2>2. TableType'
    BY <2>1 DEF TableType, Points
  <2>3. \A u \in Threads : at[u] \notin Critical
    BY <2>1, ThreadsAssumption DEF LockInv
  <2>4. LockInv'
    BY <2>1, <2>3 DEF LockInv, Critical, TableType, NeedsRoom
  <2>5. OnceInv'
    BY <1>1, <2>1 DEF OnceInv, Entered, TableType, Beginning
  <2> QED
    BY <1>2, <2>2, <2>4, <2>5
<1>5. CASE Grow(t)
  <2>1. /\ at[t] = "grow" /\ size' = 2 * size /\ UNCHANGED <<phase, papi_lock>>
        /\ at' = [at EXCEPT ![t] = "store"]
    BY <1>5 DEF Grow, At, Goto, monitorVars
  <2>2. TableType'
    <3>1. size' \in Nat
      BY <2>1 DEF TableType
    <3>2. at' \in [Threads -> Points]
      BY <2>1 DEF TableType, Points
    <3> QED
      BY <2>1, <3>1, <3>2 DEF TableType
  <2>3. num + 1 < size' /\ \A u \in Threads : num + 1 < size => num + 1 < size'
    BY <2>1 DEF LockInv, TableType
  <2>4. LockInv'
    BY <2>1, <2>3 DEF LockInv, Critical, TableType
  <2>5. OnceInv'
    BY <1>1, <2>1 DEF OnceInv, Entered, TableType, Beginning
  <2> QED
    BY <1>2, <2>2, <2>4, <2>5
<1>6. CASE monitor_init_thread(t)
  <2>1. /\ t # Main /\ phase[t] = "before" /\ phase' = [phase EXCEPT ![t] = "init"]
        /\ at' = [at EXCEPT ![t] = "init"] /\ UNCHANGED <<size, papi_lock>>
    BY <1>6 DEF monitor_init_thread, Monitor!BeginThread, Goto, clientVars, tableVars
  <2>2. TableType'
    BY <2>1 DEF TableType, Points, Monitor!Phases
  <2>3. LockInv'
    BY <2>1 DEF LockInv, Critical, TableType
  <2>4. OnceInv'
    BY <1>1, <2>1 DEF OnceInv, Entered, TableType, Beginning
  <2> QED
    BY <1>2, <2>2, <2>3, <2>4
<1> QED
  BY <1>3, <1>4, <1>5, <1>6

\* The entry is written beyond those that count.
LEMMA StoreKeeps ==
  ASSUME TableInv, NEW t \in Threads, StoreEntry(t)
  PROVE  TableInv'
<1> USE DEF TableInv
<1>1. /\ at[t] = "store" /\ at' = [at EXCEPT ![t] = "bump"]
      /\ table' = [table EXCEPT ![num + 1] = t]
      /\ UNCHANGED <<setup, phase, counting, num, size, papi_lock>>
  BY DEF StoreEntry, At, Goto, monitorVars, dataVars
<1>2. t \notin Entries /\ papi_lock = t
  BY <1>1 DEF OnceInv, LockInv, Beginning, Critical
<1>3. num + 1 \in Slots /\ num \in Nat /\ 1 .. num \subseteq Slots
  BY <1>2, RoomInSlots
<1>4. table'[num + 1] = t /\ \A i \in 1 .. num : table'[i] = table[i]
  BY <1>1, <1>3 DEF TableType
<1>5. Entries' = Entries
  BY <1>1, <1>4 DEF Entries
<1>6. TableType'
  BY <1>1 DEF TableType, Points
<1>7. LockInv'
  BY <1>1, <1>2, <1>4 DEF LockInv, Critical, TableType
<1>8. OnceInv'
  BY <1>1, <1>5 DEF OnceInv, Entered, TableType, Beginning
<1>9. CountInv'
  BY <1>1, <1>4, <1>5 DEF CountInv
<1> QED
  BY <1>6, <1>7, <1>8, <1>9

\* The entry counts: it is the only one of its thread.
LEMMA CountKeeps ==
  ASSUME TableInv, NEW t \in Threads, CountEntry(t)
  PROVE  TableInv'
<1> USE DEF TableInv
<1>1. /\ at[t] = "bump" /\ at' = [at EXCEPT ![t] = "start"] /\ papi_lock' = NoThread /\ num' = num + 1
      /\ UNCHANGED <<setup, phase, counting, table, size>>
  BY DEF CountEntry, At, Goto, monitorVars, dataVars
<1>2. t \notin Entries /\ papi_lock = t /\ table[num + 1] = t /\ num + 1 < size
  BY <1>1 DEF OnceInv, LockInv, Beginning, Critical
<1>3. num \in Nat /\ \A i \in 1 .. num + 1 : i \in 1 .. num \/ i = num + 1
  BY DEF TableType
<1>4. Entries' = Entries \cup {t}
  BY <1>1, <1>2, <1>3 DEF Entries
<1>5. IsFiniteSet(Entries) /\ Cardinality(Entries) \in Nat
  BY SlotFacts DEF Entries
<1>6. Cardinality(Entries') = Cardinality(Entries) + 1
  BY <1>2, <1>4, <1>5, FS_AddElement
<1>7. \A u \in Threads : u # t => at[u] \notin Critical
  BY <1>2 DEF LockInv
<1>8. TableType'
  <2>1. num' \in Nat
    BY <1>1 DEF TableType
  <2>2. at' \in [Threads -> Points]
    BY <1>1 DEF TableType, Points
  <2> QED
    BY <1>1, <2>1, <2>2 DEF TableType
<1>9. LockInv'
  BY <1>1, <1>2, <1>7 DEF LockInv, Critical, TableType
<1>10. OnceInv'
  BY <1>1, <1>4 DEF OnceInv, Entered, TableType, Beginning
<1>11. CountInv'
  <2>1. num' = setup'.inherited + Cardinality(Entries')
    <3>1. setup.inherited \in Nat
      BY SizeAssumption DEF TableType, Setup
    <3> QED
      BY <1>1, <1>5, <1>6, <3>1 DEF CountInv
  <2>2. \A i \in 1 .. num : table[i] # t
    BY <1>2 DEF Entries
  <2>3. \A i, j \in 1 .. num' : table'[i] = table'[j] /\ table'[i] \in Threads => i = j
    BY <1>1, <1>2, <1>3, <2>2 DEF CountInv
  <2>4. \A i \in 1 .. num' : table'[i] # NoThread
    BY <1>1, <1>2, <1>3, ThreadsAssumption DEF CountInv
  <2> QED
    BY <2>1, <2>3, <2>4 DEF CountInv
<1> QED
  BY <1>8, <1>9, <1>10, <1>11

\* papiex_start(0) in a thread that has its entry.
LEMMA StartKeeps ==
  ASSUME TableInv, NEW t \in Threads, StartCounting(t)
  PROVE  TableInv'
<1> USE DEF TableInv
<1>1. /\ at[t] = "start" /\ at' = [at EXCEPT ![t] = "app"] /\ counting' = counting \cup {t}
      /\ UNCHANGED <<setup, phase, table, num, size, papi_lock>>
  BY DEF StartCounting, At, Goto, monitorVars, tableVars
<1>2. Entries' = Entries
  BY <1>1 DEF Entries
<1>3. TableType'
  BY <1>1 DEF TableType, Points
<1>4. LockInv'
  BY <1>1 DEF LockInv, Critical, TableType
<1>5. OnceInv'
  BY <1>1, <1>2 DEF OnceInv, Entered, TableType, Beginning
<1>6. CountInv'
  BY <1>1, <1>2 DEF CountInv
<1> QED
  BY <1>3, <1>4, <1>5, <1>6

\* The other steps of papiex move one thread and stop counters at most.
LEMMA OtherSteps ==
  ASSUME TableInv, NEW t \in Threads,
         \/ StopCounting(t) \/ ThreadFinish(t) \/ CheckShutdown(t) \/ SetShutdown(t) \/ OutputPaths(t)
         \/ CountThreads(t) \/ WriteThread(t) \/ ReportComplete(t) \/ RunScript(t)
         \/ (t = Main /\ monitor_fini_mpi)
  PROVE  TableInv'
<1>1. /\ UNCHANGED <<setup, table, num, size, papi_lock, phase>> /\ counting' \subseteq counting
      /\ at' = at \/ \E to \in Points \ (Beginning \cup {"start"}) : at' = [at EXCEPT ![t] = to]
  BY DEF StopCounting, ThreadFinish, CheckShutdown, SetShutdown, OutputPaths, CountThreads, WriteThread,
         ReportComplete, RunScript, monitor_fini_mpi, Goto, Error, AfterGates, Points, Beginning,
         monitorVars, dataVars, tableVars
<1>2. phase' \in [Threads -> Monitor!Phases] /\ \A u \in Threads : phase'[u] = "before" => phase[u] = "before"
  BY <1>1 DEF TableInv, TableType
<1>3. CASE at' = at
  <2>1. "app" \in Points \ (Beginning \cup {"start"})
    BY DEF Points, Beginning
  <2> QED
    BY <1>1, <1>2, <1>3, <2>1, MoveKeeps
<1> QED
  BY <1>1, <1>2, <1>3, MoveKeeps

\* What libmonitor does beside the begin of a thread moves one thread to a callback or
\* out of one, and no thread is new again.
LEMMA MonitorSteps ==
  ASSUME TableInv,
         \/ MainBegins \/ monitor_fini_process \/ CallbacksReturned \/ ProcessGone
         \/ \E t \in Threads : monitor_fini_thread(t) \/ ThreadMoves(t) \/ Exit(t) \/ FatalSignal(t)
  PROVE  TableInv'
<1>1. UNCHANGED <<setup, table, num, size, papi_lock, counting>>
  BY DEF MainBegins, monitor_fini_process, CallbacksReturned, ProcessGone, monitor_fini_thread, ThreadMoves,
         Exit, FatalSignal, clientVars, tableVars, dataVars
<1>2. phase' \in [Threads -> Monitor!Phases] /\ \A u \in Threads : phase'[u] = "before" => phase[u] = "before"
  <2> USE DEF TableInv, TableType, Monitor!Phases
  <2>1. \/ UNCHANGED phase
        \/ \E u \in Threads, x \in Monitor!Phases \ {"before"} : phase' = [phase EXCEPT ![u] = x]
    BY ThreadsAssumption
       DEF MainBegins, monitor_fini_process, CallbacksReturned, ProcessGone, monitor_fini_thread, ThreadMoves,
           Exit, FatalSignal, Monitor!BeginMain, Monitor!FiniProcess, Monitor!Finished, Monitor!Gone,
           Monitor!FiniThread, Monitor!StartThread, Monitor!ThreadOver, Monitor!EndProcess, Monitor!Abandon
  <2> QED
    BY <2>1
<1>3. at' = at \/ \E u \in Threads, to \in Points \ (Beginning \cup {"start"}) : at' = [at EXCEPT ![u] = to]
  <2>1. CASE monitor_fini_process
    <3>1. at' = [at EXCEPT ![ender] = "check"]
      BY <2>1 DEF monitor_fini_process, Goto
    <3>2. ender \notin Threads => at' = at
      BY <3>1 DEF TableInv, TableType
    <3> QED
      BY <3>1, <3>2 DEF Points, Beginning
  <2>2. CASE \E t \in Threads : monitor_fini_thread(t)
    BY <2>2 DEF monitor_fini_thread, Goto, Points, Beginning
  <2>3. CASE \E t \in Threads : FatalSignal(t)
    BY <2>3 DEF FatalSignal, Goto, Points, Beginning
  <2>4. CASE MainBegins \/ CallbacksReturned \/ ProcessGone \/ \E t \in Threads : ThreadMoves(t) \/ Exit(t)
    BY <2>4 DEF MainBegins, CallbacksReturned, ProcessGone, ThreadMoves, Exit
  <2> QED
    BY <2>1, <2>2, <2>3, <2>4
<1>4. CASE at' = at
  <2>1. Main \in Threads /\ "app" \in Points \ (Beginning \cup {"start"})
    BY ThreadsAssumption DEF Points, Beginning
  <2> QED
    BY <1>1, <1>2, <1>4, <2>1, MoveKeeps
<1> QED
  BY <1>1, <1>2, <1>3, <1>4, MoveKeeps

\* The table is right in every state.
LEMMA TableInvariance == Spec => []TableInv
<1>1. TableInv /\ [Next]_vars => TableInv'
  <2> SUFFICES ASSUME TableInv, [Next]_vars PROVE TableInv'
    OBVIOUS
  <2>1. CASE ProcessInit
    BY <2>1, ThreadsAssumption, BeginKeeps DEF ProcessInit, tableVars, dataVars
  <2>2. ASSUME NEW t \in Threads, ThreadInit(t) \/ TakeLock(t) \/ Grow(t) \/ monitor_init_thread(t)
        PROVE  TableInv'
    <3>1. UNCHANGED <<setup, table, num, counting>>
      BY <2>2 DEF ThreadInit, TakeLock, Grow, monitor_init_thread, tableVars, dataVars, clientVars
    <3> QED
      BY <2>2, <3>1, BeginKeeps
  <2>3. CASE UNCHANGED vars
    <3>1. /\ UNCHANGED <<setup, table, num, size, papi_lock, at, phase, counting>>
          /\ Main \in Threads /\ "app" \in Points \ (Beginning \cup {"start"})
      BY <2>3, ThreadsAssumption DEF vars, monitorVars, dataVars, tableVars, Points, Beginning
    <3>2. phase' \in [Threads -> Monitor!Phases] /\ \A u \in Threads : phase'[u] = "before" => phase[u] = "before"
      BY <3>1 DEF TableInv, TableType
    <3> QED
      BY <3>1, <3>2, MoveKeeps
  <2> QED
    BY <2>1, <2>2, <2>3, StoreKeeps, CountKeeps, StartKeeps, OtherSteps, MonitorSteps, ThreadsAssumption
       DEF Next, PapiexStep
<1> QED
  BY TableInit, <1>1, PTL DEF Spec

\* papiex.c, the critical section of papiex_thread_init_routine: each thread that has
\* begun has exactly one entry, written inside the memory of the table, for any number
\* of threads, any first size of the table and any entries inherited by a fork child.
THEOREM EntriesOwned == Spec => []OwnEntries
<1>1. ASSUME TableInv PROVE OwnEntries
  <2> USE <1>1 DEF TableInv
  <2>1. ASSUME NEW t \in Threads, at[t] = "store" PROVE num < size
    BY DEF LockInv
  <2>2. ASSUME NEW t \in Threads, Entered(t) PROVE Cardinality({i \in 1 .. num : table[i] = t}) = 1
    <3>1. PICK k \in 1 .. num : table[k] = t
      BY <2>2 DEF OnceInv, Entries
    <3>2. {i \in 1 .. num : table[i] = t} = {k}
      BY <3>1 DEF CountInv
    <3> QED
      BY <3>2, FS_Singleton
  <2>3. \A i \in 1 .. num : table[i] # NoThread
    BY DEF CountInv
  <2> QED
    BY <2>1, <2>2, <2>3 DEF OwnEntries
<1> QED
  BY TableInvariance, <1>1, PTL
-----------------------------------------------------------------------------
(* The report is written before the end, where no fatal signal arrives. *)

\* The thread that ends the process is in its exit.
EnderInv == stage \in {"ending", "finishing"} => ender \in Threads \cap leaving

\* Before monitor_init_process has returned no other callback has begun.
StartInv ==
  at[Main] = "process init" =>
    in_shutdown = {} /\ stage = "running" /\ phase[Main] = "before" /\ \A t \in Threads : phase[t] \in {"before", "over"}

\* papiex_process_shutdown_routine runs in monitor_fini_mpi or in monitor_fini_process.
ShutdownInv ==
  \A t \in Threads :
    /\ t \in in_shutdown => at[t] \in {"set", "stop", "finish", "paths", "count", "write", "script"}
    /\ t \in in_shutdown \/ at[t] = "check" =>
         (t = Main /\ fini_mpi_called) \/ (t = ender /\ stage = "finishing")

\* The flag is set by a thread that goes on to its report and stays there until it
\* is complete, and monitor_fini_process does not return before some thread has set it.
FlagInv ==
  /\ \A t \in Threads : at[t] = "set" => t \in in_shutdown
  /\ \A t \in Threads : at[t] = "script" => reported
  /\ called_process_shutdown /\ at[Main] # "process init" => reported \/ in_shutdown # {}
  /\ stage = "finishing" => at[ender] \in {"check", "set"} \/ called_process_shutdown
  /\ stage = "finished" => called_process_shutdown

EndInv == in_shutdown \subseteq Threads /\ EnderInv /\ StartInv /\ ShutdownInv /\ FlagInv

ReportInv == ~setup.trouble => ReportBeforeEnd /\ (stage = "gone" \/ EndInv)

\* monitor_init_process and the making of an entry.
LEMMA BeginningReports ==
  ASSUME TableInv, EndInv, ~setup.trouble, NEW t \in Threads,
         \/ (t = Main /\ ProcessInit) \/ ThreadInit(t) \/ TakeLock(t) \/ Grow(t) \/ StoreEntry(t)
         \/ CountEntry(t) \/ StartCounting(t)
  PROVE  EndInv' /\ stage' # "gone"
<1>1. /\ UNCHANGED <<phase, stage, ender, leaving, in_shutdown, fini_mpi_called, reported>> /\ stage # "gone"
      /\ at[Main] = "process init" /\ t = Main => called_process_shutdown' = FALSE
      /\ \/ UNCHANGED called_process_shutdown
         \/ at[Main] = "process init" /\ called_process_shutdown' \in BOOLEAN /\ called_process_shutdown' = FALSE
      /\ at[t] \in Beginning \cup {"start"}
      /\ t = Main => at'[Main] # "process init"
      /\ t # Main => UNCHANGED called_process_shutdown
      /\ \E to \in {"init", "append", "grow", "store", "bump", "start", "app"} : at' = [at EXCEPT ![t] = to]
  BY ThreadsAssumption DEF ProcessInit, ThreadInit, TakeLock, Grow, StoreEntry, CountEntry, StartCounting, At, Active, Goto,
         FlagAfterInit, PapiFails, monitorVars, reportVars, stateVars, Beginning, TableInv, TableType
<1>2. at \in [Threads -> Points] /\ Main \in Threads
  BY ThreadsAssumption DEF TableInv, TableType
<1>3. \A u \in Threads : at'[u] \in {"process init", "set", "script", "check", "stop", "finish", "paths", "count", "write"} => at'[u] = at[u]
  BY <1>1, <1>2
<1>4. \A u \in Threads : at[u] \in {"set", "script", "check", "stop", "finish", "paths", "count", "write"} => at'[u] = at[u]
  <2>1. \A u \in Threads : u # t => at'[u] = at[u]
    BY <1>1, <1>2
  <2>2. at[t] \notin {"set", "script", "check", "stop", "finish", "paths", "count", "write"}
    BY <1>1 DEF Beginning
  <2> QED
    BY <2>1, <2>2
<1>5. EnderInv' /\ StartInv' /\ ShutdownInv'
  BY <1>1, <1>2, <1>3, <1>4 DEF EndInv, EnderInv, StartInv, ShutdownInv
<1>6. FlagInv'
  <2>1. CASE at[Main] = "process init" /\ called_process_shutdown' = FALSE
    <3>1. stage = "running"
      BY <2>1 DEF EndInv, StartInv
    <3> QED
      BY <1>1, <1>2, <1>3, <2>1, <3>1 DEF EndInv, FlagInv
  <2>2. CASE UNCHANGED called_process_shutdown
    <3>1. at[Main] = "process init" /\ t = Main => called_process_shutdown' = FALSE
      BY <1>1
    <3>2. at'[Main] # "process init" => at[Main] # "process init" \/ called_process_shutdown' = FALSE
      BY <1>1, <1>2, <3>1
    <3>3. stage \in {"finishing", "finished"} => ender \in Threads \/ stage = "finished"
      BY DEF EndInv, EnderInv
    <3>4. stage = "finishing" => at'[ender] \in {"check", "set"} \/ called_process_shutdown'
      BY <1>4, <2>2, <3>3 DEF EndInv, FlagInv
    <3> QED
      BY <1>1, <1>2, <1>3, <2>2, <3>2, <3>4 DEF EndInv, FlagInv
  <2> QED
    BY <1>1, <2>1, <2>2
<1> QED
  BY <1>1, <1>5, <1>6 DEF EndInv

\* The shutdown of a thread, and that of the process from its flag to its script.
LEMMA ShutdownReports ==
  ASSUME TableInv, EndInv, ~setup.trouble, NEW t \in Threads,
         \/ StopCounting(t) \/ ThreadFinish(t) \/ CheckShutdown(t) \/ SetShutdown(t) \/ OutputPaths(t)
         \/ CountThreads(t) \/ WriteThread(t) \/ ReportComplete(t) \/ RunScript(t)
         \/ (t = Main /\ monitor_fini_mpi)
  PROVE  EndInv' /\ stage' # "gone"
<1>0. at \in [Threads -> Points] /\ Main \in Threads
  BY ThreadsAssumption DEF TableInv, TableType
<1>1. UNCHANGED <<phase, stage, ender, leaving>> /\ stage # "gone"
  BY DEF StopCounting, ThreadFinish, CheckShutdown, SetShutdown, OutputPaths, CountThreads, WriteThread,
         ReportComplete, RunScript, monitor_fini_mpi, At, Active, monitorVars
<1>2. CASE StopCounting(t) \/ ThreadFinish(t) \/ OutputPaths(t) \/ CountThreads(t) \/ WriteThread(t)
           \/ ReportComplete(t)
  <2>1. /\ UNCHANGED <<in_shutdown, called_process_shutdown, fini_mpi_called>>
        /\ reported => reported'
        /\ \/ UNCHANGED at
           \/ /\ at[t] \in {"stop", "finish", "paths", "count", "write"}
              /\ \E to \in {"finish", "paths", "count", "write", "script", "app"} :
                   /\ at' = [at EXCEPT ![t] = to]
                   /\ to = "app" => t \notin in_shutdown
                   /\ to = "script" => reported'
    BY <1>2 DEF StopCounting, ThreadFinish, OutputPaths, CountThreads, WriteThread, ReportComplete, At, Goto,
         Error, PapiFails, reportVars, stateVars
  <2>2. \A u \in Threads : at'[u] # at[u] => u = t
    BY <2>1, <1>0
  <2>3. EnderInv' /\ StartInv' /\ ShutdownInv'
    BY <1>0, <1>1, <2>1, <2>2 DEF EndInv, EnderInv, StartInv, ShutdownInv
  <2>4. FlagInv'
    BY <1>0, <1>1, <2>1, <2>2 DEF EndInv, FlagInv, EnderInv
  <2> QED
    BY <1>1, <2>1, <2>3, <2>4 DEF EndInv
<1>3. CASE CheckShutdown(t)
  <2>1. /\ at[t] = "check" /\ UNCHANGED <<called_process_shutdown, fini_mpi_called, reported>>
        /\ \/ called_process_shutdown /\ at' = [at EXCEPT ![t] = "app"] /\ UNCHANGED in_shutdown
           \/ at' = [at EXCEPT ![t] = "set"] /\ in_shutdown' = in_shutdown \cup {t}
    BY <1>3 DEF CheckShutdown, ShutdownDone, At, Goto, reportVars, stateVars
  <2>2. t \notin in_shutdown /\ at[Main] # "process init"
    <3>1. t \notin in_shutdown
      BY <2>1 DEF EndInv, ShutdownInv
    <3>2. at[Main] # "process init"
      BY <2>1 DEF EndInv, ShutdownInv, StartInv
    <3> QED
      BY <3>1, <3>2
  <2>3. EnderInv' /\ StartInv' /\ ShutdownInv'
    BY <1>0, <1>1, <2>1, <2>2 DEF EndInv, EnderInv, StartInv, ShutdownInv
  <2>4. FlagInv'
    BY <1>0, <1>1, <2>1, <2>2 DEF EndInv, FlagInv, EnderInv
  <2> QED
    BY <1>1, <2>1, <2>3, <2>4 DEF EndInv
<1>4. CASE SetShutdown(t)
  <2>1. /\ at[t] = "set" /\ called_process_shutdown' = TRUE /\ UNCHANGED <<fini_mpi_called, reported, in_shutdown>>
        /\ at' = [at EXCEPT ![t] = "stop"]
    BY <1>4 DEF SetShutdown, AfterGates, At, Goto, reportVars
  <2>2. t \in in_shutdown
    BY <2>1 DEF EndInv, FlagInv
  <2>3. EnderInv' /\ StartInv' /\ ShutdownInv'
    BY <1>0, <1>1, <2>1, <2>2 DEF EndInv, EnderInv, StartInv, ShutdownInv
  <2>4. FlagInv'
    BY <1>0, <1>1, <2>1, <2>2 DEF EndInv, FlagInv, EnderInv
  <2> QED
    BY <1>1, <2>1, <2>3, <2>4 DEF EndInv
<1>5. CASE RunScript(t)
  <2>1. /\ at[t] = "script" /\ UNCHANGED <<called_process_shutdown, fini_mpi_called, reported>>
        /\ \/ UNCHANGED <<at, in_shutdown>>
           \/ at' = [at EXCEPT ![t] = "app"] /\ in_shutdown' = in_shutdown \ {t}
    BY <1>5 DEF RunScript, At, Goto, Error, reportVars, stateVars
  <2>2. reported
    BY <2>1 DEF EndInv, FlagInv
  <2>3. EnderInv' /\ StartInv' /\ ShutdownInv'
    BY <1>0, <1>1, <2>1, <2>2 DEF EndInv, EnderInv, StartInv, ShutdownInv
  <2>4. FlagInv'
    BY <1>0, <1>1, <2>1, <2>2 DEF EndInv, FlagInv, EnderInv
  <2> QED
    BY <1>1, <2>1, <2>3, <2>4 DEF EndInv
<1>6. CASE t = Main /\ monitor_fini_mpi
  <2>1. /\ at[Main] = "app" /\ Main \notin leaving /\ fini_mpi_called' = TRUE
        /\ at' = [at EXCEPT ![Main] = "check"] /\ UNCHANGED <<called_process_shutdown, reported, in_shutdown>>
    BY <1>6 DEF monitor_fini_mpi, At, Goto, reportVars
  <2>2. Main \notin in_shutdown
    BY <1>0, <2>1 DEF EndInv, ShutdownInv
  <2>3. EnderInv' /\ StartInv' /\ ShutdownInv'
    BY <1>0, <1>1, <2>1, <2>2 DEF EndInv, EnderInv, StartInv, ShutdownInv
  <2>4. FlagInv'
    BY <1>0, <1>1, <2>1, <2>2 DEF EndInv, FlagInv, EnderInv
  <2> QED
    BY <1>1, <2>1, <2>3, <2>4 DEF EndInv
<1> QED
  BY <1>2, <1>3, <1>4, <1>5, <1>6

\* The callbacks begin and end, and threads leave.
LEMMA CallbackReports ==
  ASSUME TableInv, EndInv, ~setup.trouble,
         \/ MainBegins \/ monitor_fini_process \/ CallbacksReturned
         \/ \E t \in Threads : monitor_init_thread(t) \/ monitor_fini_thread(t) \/ ThreadMoves(t) \/ Exit(t)
  PROVE  EndInv' /\ stage' # "gone"
<1>0. at \in [Threads -> Points] /\ phase \in [Threads -> Monitor!Phases] /\ Main \in Threads /\ NoThread \notin Threads
  BY ThreadsAssumption DEF TableInv, TableType
<1>1. UNCHANGED <<in_shutdown, called_process_shutdown, fini_mpi_called, reported>> /\ stage # "gone"
  BY DEF MainBegins, monitor_fini_process, CallbacksReturned, monitor_init_thread, monitor_fini_thread, ThreadMoves,
         Exit, clientVars, reportVars, stateVars, At, Active
<1>2. CASE MainBegins
  <2>1. /\ at[Main] = "app" /\ UNCHANGED <<at, leaving, stage, ender>>
    BY <1>2 DEF MainBegins, At, Monitor!BeginMain
  <2>2. EnderInv' /\ StartInv' /\ ShutdownInv' /\ FlagInv'
    BY <1>1, <2>1 DEF EndInv, EnderInv, StartInv, ShutdownInv, FlagInv
  <2> QED
    BY <1>1, <2>1, <2>2 DEF EndInv
<1>3. CASE monitor_fini_process
  <2>1. /\ at[ender] = "app" /\ stage = "ending" /\ stage' = "finishing" /\ UNCHANGED <<leaving, ender, phase>>
        /\ at' = [at EXCEPT ![ender] = "check"]
    BY <1>3 DEF monitor_fini_process, Monitor!FiniProcess, Goto
  <2>2. ender \in Threads /\ ender \in leaving /\ ender \notin in_shutdown
    BY <2>1 DEF EndInv, EnderInv, ShutdownInv
  <2>3. EnderInv' /\ StartInv' /\ ShutdownInv'
    BY <1>0, <1>1, <2>1, <2>2 DEF EndInv, EnderInv, StartInv, ShutdownInv
  <2>4. FlagInv'
    BY <1>0, <1>1, <2>1, <2>2 DEF EndInv, FlagInv, StartInv
  <2> QED
    BY <1>1, <2>1, <2>3, <2>4 DEF EndInv
<1>4. CASE CallbacksReturned
  <2>1. /\ stage = "finishing" \/ (stage = "ending" /\ ender = NoThread)
        /\ ender # NoThread => at[ender] = "app"
        /\ stage' = "finished" /\ ender' = NoThread /\ UNCHANGED <<at, leaving, phase>>
    BY <1>4 DEF CallbacksReturned, Monitor!Finished
  <2>2. stage = "finishing" /\ ender \in Threads /\ at[ender] = "app"
    BY <1>0, <2>1 DEF EndInv, EnderInv
  <2>3. called_process_shutdown /\ at[Main] # "process init" /\ ender \notin in_shutdown
    BY <2>2 DEF EndInv, FlagInv, StartInv, ShutdownInv
  <2>4. EnderInv' /\ StartInv' /\ ShutdownInv'
    BY <1>0, <1>1, <2>1, <2>2, <2>3 DEF EndInv, EnderInv, StartInv, ShutdownInv
  <2>5. FlagInv'
    BY <1>0, <1>1, <2>1, <2>2, <2>3 DEF EndInv, FlagInv
  <2> QED
    BY <1>1, <2>1, <2>4, <2>5 DEF EndInv
<1>5. ASSUME NEW t \in Threads, monitor_init_thread(t) PROVE EndInv' /\ stage' # "gone"
  <2>1. /\ at[t] = "app" /\ phase[Main] # "before" /\ t # Main /\ at' = [at EXCEPT ![t] = "init"]
        /\ phase' = [phase EXCEPT ![t] = "init"] /\ UNCHANGED <<leaving, stage, ender>>
    BY <1>5 DEF monitor_init_thread, Monitor!BeginThread, At, Goto
  <2>2. t \notin in_shutdown
    BY <2>1 DEF EndInv, ShutdownInv
  <2>3. at[Main] # "process init"
    BY <1>0, <2>1 DEF EndInv, StartInv
  <2>4. EnderInv' /\ StartInv' /\ ShutdownInv' /\ FlagInv'
    BY <1>0, <1>1, <2>1, <2>2, <2>3 DEF EndInv, EnderInv, StartInv, ShutdownInv, FlagInv
  <2> QED
    BY <1>1, <2>1, <2>4 DEF EndInv
<1>6. ASSUME NEW t \in Threads, monitor_fini_thread(t) PROVE EndInv' /\ stage' # "gone"
  <2>1. /\ at[t] = "app" /\ at' = [at EXCEPT ![t] = "stop"] /\ UNCHANGED <<leaving, stage, ender, phase>>
    BY <1>6 DEF monitor_fini_thread, Monitor!FiniThread, At, Goto
  <2>2. t \notin in_shutdown
    BY <2>1 DEF EndInv, ShutdownInv
  <2>3. EnderInv' /\ StartInv' /\ ShutdownInv'
    BY <1>0, <1>1, <2>1, <2>2 DEF EndInv, EnderInv, StartInv, ShutdownInv
  <2>4. FlagInv'
    BY <1>0, <1>1, <2>1, <2>2 DEF EndInv, FlagInv, EnderInv
  <2> QED
    BY <1>1, <2>1, <2>3, <2>4 DEF EndInv
<1>7. ASSUME NEW t \in Threads, ThreadMoves(t) PROVE EndInv' /\ stage' # "gone"
  <2>1. /\ t \notin leaving \/ stage = "finished"
        /\ at[t] = "app"
        /\ UNCHANGED <<at, leaving, stage>>
        /\ ender' = ender \/ (ender = t /\ ender' = NoThread)
        /\ \/ phase[t] = "init" /\ phase' = [phase EXCEPT ![t] = "live"]
           \/ phase' = [phase EXCEPT ![t] = "over"]
    BY <1>7 DEF ThreadMoves, Monitor!StartThread, Monitor!ThreadOver, At
  <2>2. ender' = ender \/ stage \notin {"ending", "finishing"}
    BY <2>1 DEF EndInv, EnderInv
  <2>3. StartInv'
    BY <1>0, <1>1, <2>1 DEF EndInv, StartInv
  <2>4. EnderInv' /\ ShutdownInv' /\ FlagInv'
    BY <1>0, <1>1, <2>1, <2>2 DEF EndInv, EnderInv, ShutdownInv, FlagInv
  <2> QED
    BY <1>1, <2>1, <2>3, <2>4 DEF EndInv
<1>8. ASSUME NEW t \in Threads, Exit(t) PROVE EndInv' /\ stage' # "gone"
  <2>1. /\ phase[t] = "live" /\ stage = "running" /\ stage' = "ending" /\ ender' = t /\ leaving' = leaving \cup {t}
        /\ UNCHANGED <<at, phase>>
    BY <1>8 DEF Exit, Monitor!EndProcess
  <2>2. at[Main] # "process init"
    BY <2>1 DEF EndInv, StartInv
  <2>3. EnderInv' /\ StartInv' /\ ShutdownInv' /\ FlagInv'
    BY <1>0, <1>1, <2>1, <2>2 DEF EndInv, EnderInv, StartInv, ShutdownInv, FlagInv
  <2> QED
    BY <1>1, <2>1, <2>3 DEF EndInv
<1> QED
  BY <1>2, <1>3, <1>4, <1>5, <1>6, <1>7, <1>8

\* At the real exit the report is there, or a report of monitor_fini_mpi is under way.
LEMMA GoneReports ==
  ASSUME EndInv, ProcessGone
  PROVE  ReportBeforeEnd'
<1>1. /\ \/ stage = "finished" \/ \A t \in Threads : phase[t] \in {"before", "over"}
      /\ UNCHANGED <<setup, phase, in_shutdown, reported, fini_mpi_called, called_process_shutdown, at>>
  BY DEF ProcessGone, Monitor!Gone, clientVars, reportVars, stateVars
<1>2. CASE stage = "finished"
  <2>1. reported \/ in_shutdown # {}
    BY <1>2 DEF EndInv, FlagInv, StartInv
  <2>2. \A t \in in_shutdown : t = Main /\ fini_mpi_called
    BY <1>2 DEF EndInv, ShutdownInv
  <2>3. reported \/ (in_shutdown = {Main} /\ fini_mpi_called)
    BY <2>1, <2>2
  <2> QED
    BY <1>1, <2>3 DEF ReportBeforeEnd
<1> QED
  BY <1>1, <1>2 DEF ReportBeforeEnd

\* papiex_process_shutdown_routine: a process that ends by itself, with any number of
\* threads leaving in any order, has written its report (see ReportBeforeEnd for the
\* cases in which it has not), since no callback finds the flag set before a report is
\* begun.
THEOREM ReportComesFirst == Spec => []ReportBeforeEnd
<1>1. Init => ReportInv
  <2> SUFFICES ASSUME Init PROVE ReportBeforeEnd /\ EndInv
    BY DEF ReportInv
  <2>1. /\ stage = "running" /\ in_shutdown = {} /\ phase = [t \in Threads |-> "before"]
        /\ at = [t \in Threads |-> IF t = Main THEN "process init" ELSE "app"] /\ Main \in Threads
    BY ThreadsAssumption DEF Init, Monitor!Init
  <2> QED
    BY <2>1 DEF ReportBeforeEnd, EndInv, EnderInv, StartInv, ShutdownInv, FlagInv
<1>2. TableInv /\ ReportInv /\ [Next]_vars => ReportInv'
  <2> SUFFICES ASSUME TableInv, ReportInv, [Next]_vars PROVE ReportInv'
    OBVIOUS
  <2>1. CASE UNCHANGED vars
    BY <2>1 DEF vars, monitorVars, reportVars, stateVars, endVars, ReportInv, ReportBeforeEnd, EndInv, EnderInv,
                StartInv, ShutdownInv, FlagInv
  <2>2. ASSUME Next, ~setup.trouble PROVE ReportBeforeEnd' /\ (stage' = "gone" \/ EndInv')
    <3>1. stage # "gone"
      BY <2>2 DEF Next, PapiexStep, ProcessInit, monitor_fini_mpi, ThreadInit, TakeLock, Grow, StoreEntry, CountEntry,
           StartCounting, StopCounting, ThreadFinish, CheckShutdown, SetShutdown, OutputPaths, CountThreads,
           WriteThread, ReportComplete, RunScript, MainBegins, monitor_fini_process, CallbacksReturned,
           ProcessGone, monitor_init_thread, monitor_fini_thread, ThreadMoves, Exit, FatalSignal, At, Active
    <3>2. EndInv
      BY <2>2, <3>1 DEF ReportInv
    <3>3. ProcessGone \/ (EndInv' /\ stage' # "gone")
      <4>1. \A t \in Threads : ~FatalSignal(t)
        BY <2>2 DEF FatalSignal
      <4>2. Main \in Threads
        BY ThreadsAssumption
      <4> QED
        BY <2>2, <3>2, <4>1, <4>2, BeginningReports, ShutdownReports, CallbackReports DEF Next, PapiexStep
    <3>4. CASE ProcessGone
      <4>1. stage' = "gone"
        BY <3>4 DEF ProcessGone, Monitor!Gone
      <4> QED
        BY <3>2, <3>4, <4>1, GoneReports
    <3> QED
      BY <3>3, <3>4 DEF ReportBeforeEnd
  <2>3. setup' = setup
    BY DEF Next, vars, PapiexStep, ProcessInit, monitor_fini_mpi, ThreadInit, TakeLock, Grow, StoreEntry, CountEntry,
           StartCounting, StopCounting, ThreadFinish, CheckShutdown, SetShutdown, OutputPaths, CountThreads,
           WriteThread, ReportComplete, RunScript, MainBegins, monitor_fini_process, CallbacksReturned,
           ProcessGone, monitor_init_thread, monitor_fini_thread, ThreadMoves, Exit, FatalSignal, clientVars
  <2> QED
    BY <2>1, <2>2, <2>3 DEF ReportInv
<1>3. ReportInv => ReportBeforeEnd
  BY DEF ReportInv, ReportBeforeEnd
<1> QED
  BY TableInvariance, <1>1, <1>2, <1>3, PTL DEF Spec
-----------------------------------------------------------------------------
(* What can end the process without a report, whatever signals arrive. *)

\* Where a thread is before its counters run, and where a shutdown has set the flag.
Starting == Beginning \cup {"start"}
Closed   == {"stop", "finish", "paths", "count", "write", "script"}

\* The callbacks are those of MonitorCallbacks: the thread that ends the process leaves it.
OrderInv ==
  /\ fini \in [Threads -> Nat] /\ leaving \subseteq Threads
  /\ ender \in leaving \/ ender = NoThread
  /\ \A t \in Threads : at[t] = "set" => t \in in_shutdown
  /\ \A t \in Threads : t \in counting => t \in known

\* While papiex begins in the main thread no other thread has data.
FirstInv ==
  at[Main] \in Starting =>
    /\ phase[Main] = "before"
    /\ \A t \in Threads \ {Main} :
         phase[t] \in {"before", "over"} /\ at[t] \in {"app", "check", "set", "stop"} /\ t \notin known

Counted(t) == t \in known /\ t \in counting

\* The main thread counts until the flag is set, and has no monitor_fini_thread.
MainCounts ==
  /\ at[Main] \in {"append", "grow", "store", "bump", "start"} => Main \in known
  /\ phase[Main] \in {"before", "live", "over"}
  /\ phase[Main] = "before" /\ Main \notin leaving => at[Main] \in Starting \/ (at[Main] = "app" /\ Counted(Main))
  /\ phase[Main] = "live" \/ (phase[Main] = "over" /\ at[Main] = "check") =>
       (at[Main] \in {"app", "check"} => Counted(Main) \/ called_process_shutdown)
  /\ phase[Main] = "over" /\ at[Main] = "app" =>
       Counted(Main) \/ called_process_shutdown \/ stage \in {"finished", "gone"}
  /\ phase[Main] # "before" /\ at[Main] \in {"set", "stop"} => Counted(Main)
  /\ at[Main] \in Closed => Main \in in_shutdown /\ called_process_shutdown

\* A thread that runs the application has its data; one that leaves without them has died.
TroubleInv ==
  \A t \in Threads :
    /\ phase[t] = "live" => t \in known
    /\ t \in leaving /\ (t \notin known \/ phase[t] \in {"before", "init"}) => setup.trouble
    /\ at[t] \in {"check", "set", "stop"} /\ (t \notin known \/ phase[t] \in {"before", "init"}) => setup.trouble

\* Another thread counts until its monitor_fini_thread; it shuts the process down only
\* as the one that ends it.
ThreadCounts(t) ==
  /\ at[t] \in {"append", "grow", "store", "bump", "start"} => t \in known
  /\ at[t] \in Starting => phase[t] = "init"
  /\ phase[t] # "ignored" /\ (phase[t] = "before" => t \notin known)
  /\ phase[t] = "live" /\ fini[t] = 0 => at[t] = "app" /\ Counted(t)
  /\ phase[t] = "init" /\ t \notin leaving => at[t] \in Starting \/ (at[t] = "app" /\ Counted(t))
  /\ phase[t] = "over" /\ stage \in {"running", "ending"} => fini[t] > 0 \/ Counted(t) \/ t \notin known
  /\ at[t] \in {"check", "set", "paths", "count", "write", "script"} \/ t \in in_shutdown =>
       stage \notin {"running", "ending"}
  /\ at[t] \in {"stop", "finish"} /\ t \notin in_shutdown => fini[t] > 0
  /\ at[t] = "stop" /\ t \notin in_shutdown =>
       \/ fini[t] = 2
       \/ phase[t] = "init"
       \/ Counted(t)
  /\ at[t] \in {"check", "set", "stop"} =>
       \/ fini[t] > 0
       \/ phase[t] \in {"before", "init"}
       \/ Counted(t) \/ t \notin known

KillInv == OrderInv /\ FirstInv /\ TroubleInv /\ MainCounts /\ \A t \in Threads \ {Main} : ThreadCounts(t)

EndingInv == KilledOnlyKnown /\ (outcome = "running" => KillInv)

\* monitor_init_process and the making of an entry.
LEMMA BeginningKills ==
  ASSUME TableInv, KillInv, outcome = "running", outcome' = "running", NEW t \in Threads,
         \/ (t = Main /\ ProcessInit) \/ ThreadInit(t) \/ TakeLock(t) \/ Grow(t) \/ StoreEntry(t)
         \/ CountEntry(t) \/ StartCounting(t)
  PROVE  KillInv'
<1>0. /\ at \in [Threads -> Points] /\ phase \in [Threads -> Monitor!Phases] /\ Main \in Threads
      /\ NoThread \notin Threads /\ fini \in [Threads -> Nat]
  BY ThreadsAssumption DEF TableInv, TableType, KillInv, OrderInv
<1>1. CASE t = Main /\ ProcessInit
  <2>1. /\ at[Main] = "process init" /\ at' = [at EXCEPT ![Main] = "init"]
        /\ called_process_shutdown' = FALSE
        /\ UNCHANGED <<setup, leaving, stage, ender, phase, fini, in_shutdown, known, counting>>
    BY <1>1 DEF ProcessInit, FlagAfterInit, PapiFails, Error, At, Goto, monitorVars, dataVars
  <2>2. OrderInv'
    BY <1>0, <2>1 DEF KillInv, OrderInv
  <2>9. TroubleInv'
    BY <1>0, <2>1 DEF KillInv, OrderInv, FirstInv, TroubleInv, MainCounts, ThreadCounts, Counted, Starting, Beginning, Closed
  <2>3. FirstInv'
    BY <1>0, <2>1 DEF KillInv, FirstInv, Starting, Beginning
  <2>4. MainCounts'
    BY <1>0, <2>1 DEF KillInv, OrderInv, FirstInv, MainCounts, Counted, Starting, Beginning, Closed
  <2>5. ASSUME NEW u \in Threads \ {Main} PROVE ThreadCounts(u)'
    BY <1>0, <2>1 DEF KillInv, OrderInv, FirstInv, MainCounts, ThreadCounts, Counted, Starting, Beginning, Closed
  <2> QED
    BY <2>2, <2>3, <2>4, <2>5, <2>9 DEF KillInv
<1>2. CASE ThreadInit(t)
  <2>1. /\ at[t] = "init" /\ at' = [at EXCEPT ![t] = "append"] /\ known' = known \cup {t}
        /\ UNCHANGED <<setup, leaving, stage, ender, phase, fini, in_shutdown, counting, called_process_shutdown>>
    BY <1>2 DEF ThreadInit, PapiFails, Error, At, Goto, monitorVars, stateVars
  <2>2. OrderInv'
    BY <1>0, <2>1 DEF KillInv, OrderInv
  <2>9. TroubleInv'
    BY <1>0, <2>1 DEF KillInv, OrderInv, FirstInv, TroubleInv, MainCounts, ThreadCounts, Counted, Starting, Beginning, Closed
  <2>3. FirstInv'
    BY <1>0, <2>1 DEF KillInv, FirstInv, Starting, Beginning
  <2>4. MainCounts'
    BY <1>0, <2>1 DEF KillInv, OrderInv, FirstInv, MainCounts, Counted, Starting, Beginning, Closed
  <2>5. ASSUME NEW u \in Threads \ {Main} PROVE ThreadCounts(u)'
    BY <1>0, <2>1 DEF KillInv, OrderInv, FirstInv, MainCounts, ThreadCounts, Counted, Starting, Beginning, Closed
  <2> QED
    BY <2>2, <2>3, <2>4, <2>5, <2>9 DEF KillInv
<1>3. CASE TakeLock(t) \/ Grow(t) \/ StoreEntry(t) \/ CountEntry(t)
  <2>1. /\ at[t] \in {"append", "grow", "store", "bump"}
        /\ \E to \in {"grow", "store", "bump", "start"} : at' = [at EXCEPT ![t] = to]
        /\ UNCHANGED <<setup, leaving, stage, ender, phase, fini, in_shutdown, known, counting, called_process_shutdown>>
    BY <1>3 DEF TakeLock, Grow, StoreEntry, CountEntry, At, Goto, monitorVars, stateVars, dataVars
  <2>2. OrderInv'
    BY <1>0, <2>1 DEF KillInv, OrderInv
  <2>9. TroubleInv'
    BY <1>0, <2>1 DEF KillInv, OrderInv, FirstInv, TroubleInv, MainCounts, ThreadCounts, Counted, Starting, Beginning, Closed
  <2>3. FirstInv'
    BY <1>0, <2>1 DEF KillInv, FirstInv, Starting, Beginning
  <2>4. MainCounts'
    BY <1>0, <2>1 DEF KillInv, OrderInv, FirstInv, MainCounts, Counted, Starting, Beginning, Closed
  <2>5. ASSUME NEW u \in Threads \ {Main} PROVE ThreadCounts(u)'
    BY <1>0, <2>1 DEF KillInv, OrderInv, FirstInv, MainCounts, ThreadCounts, Counted, Starting, Beginning, Closed
  <2> QED
    BY <2>2, <2>3, <2>4, <2>5, <2>9 DEF KillInv
<1>4. CASE StartCounting(t)
  <2>1. /\ at[t] = "start" /\ at' = [at EXCEPT ![t] = "app"] /\ counting' = counting \cup {t}
        /\ UNCHANGED <<setup, leaving, stage, ender, phase, fini, in_shutdown, known, called_process_shutdown>>
    BY <1>4 DEF StartCounting, At, Goto, monitorVars, stateVars
  <2>2. OrderInv'
    BY <1>0, <2>1 DEF KillInv, OrderInv, MainCounts, ThreadCounts
  <2>9. TroubleInv'
    BY <1>0, <2>1 DEF KillInv, OrderInv, FirstInv, TroubleInv, MainCounts, ThreadCounts, Counted, Starting, Beginning, Closed
  <2>3. FirstInv'
    BY <1>0, <2>1 DEF KillInv, FirstInv, Starting, Beginning
  <2>4. MainCounts'
    BY <1>0, <2>1 DEF KillInv, OrderInv, FirstInv, MainCounts, Counted, Starting, Beginning, Closed
  <2>5. ASSUME NEW u \in Threads \ {Main} PROVE ThreadCounts(u)'
    BY <1>0, <2>1 DEF KillInv, OrderInv, FirstInv, MainCounts, ThreadCounts, Counted, Starting, Beginning, Closed
  <2> QED
    BY <2>2, <2>3, <2>4, <2>5, <2>9 DEF KillInv
<1> QED
  BY <1>1, <1>2, <1>3, <1>4

\* The shutdown of a thread and of the process, unless they end it.
LEMMA ShutdownKills ==
  ASSUME TableInv, KillInv, outcome = "running", outcome' = "running", NEW t \in Threads,
         \/ StopCounting(t) \/ ThreadFinish(t) \/ CheckShutdown(t) \/ SetShutdown(t) \/ OutputPaths(t)
         \/ CountThreads(t) \/ WriteThread(t) \/ ReportComplete(t) \/ RunScript(t)
         \/ (t = Main /\ monitor_fini_mpi)
  PROVE  KillInv'
<1>0. /\ at \in [Threads -> Points] /\ phase \in [Threads -> Monitor!Phases] /\ Main \in Threads
      /\ NoThread \notin Threads /\ fini \in [Threads -> Nat]
  BY ThreadsAssumption DEF TableInv, TableType, KillInv, OrderInv
<1>1. CASE StopCounting(t)
  <2>1. /\ at[t] = "stop" /\ at' = [at EXCEPT ![t] = "finish"] /\ counting' \subseteq counting /\ t \notin counting'
        /\ t \in known \/ t = Main
        /\ \A u \in Threads \ {t} : u \in counting => u \in counting'
        /\ UNCHANGED <<setup, leaving, stage, ender, phase, fini, in_shutdown, known, called_process_shutdown>>
    BY <1>1, ThreadsAssumption DEF StopCounting, Data, At, Goto, Error, endVars, monitorVars, stateVars, KillInv, OrderInv
  <2>2. OrderInv'
    BY <1>0, <2>1 DEF KillInv, OrderInv
  <2>9. TroubleInv'
    BY <1>0, <2>1 DEF KillInv, OrderInv, FirstInv, TroubleInv, MainCounts, ThreadCounts, Counted, Starting, Beginning, Closed
  <2>3. FirstInv'
    BY <1>0, <2>1 DEF KillInv, FirstInv, Starting, Beginning
  <2>4. MainCounts'
    BY <1>0, <2>1 DEF KillInv, OrderInv, FirstInv, MainCounts, Counted, Starting, Beginning, Closed
  <2>5. ASSUME NEW u \in Threads \ {Main} PROVE ThreadCounts(u)'
    BY <1>0, <2>1 DEF KillInv, OrderInv, FirstInv, MainCounts, ThreadCounts, Counted, Starting, Beginning, Closed
  <2> QED
    BY <2>2, <2>3, <2>4, <2>5, <2>9 DEF KillInv
<1>2. CASE ThreadFinish(t)
  <2>1. /\ at[t] = "finish" /\ at' = [at EXCEPT ![t] = IF t \in in_shutdown THEN "paths" ELSE "app"]
        /\ UNCHANGED <<setup, leaving, stage, ender, phase, fini, in_shutdown, known, counting, called_process_shutdown>>
    BY <1>2 DEF ThreadFinish, PapiFails, Error, At, Goto, monitorVars, dataVars, stateVars
  <2>2. OrderInv'
    BY <1>0, <2>1 DEF KillInv, OrderInv
  <2>9. TroubleInv'
    BY <1>0, <2>1 DEF KillInv, OrderInv, FirstInv, TroubleInv, MainCounts, ThreadCounts, Counted, Starting, Beginning, Closed
  <2>3. FirstInv'
    BY <1>0, <2>1 DEF KillInv, FirstInv, Starting, Beginning
  <2>4. MainCounts'
    BY <1>0, <2>1 DEF KillInv, OrderInv, FirstInv, MainCounts, Counted, Starting, Beginning, Closed
  <2>5. ASSUME NEW u \in Threads \ {Main} PROVE ThreadCounts(u)'
    BY <1>0, <2>1 DEF KillInv, OrderInv, FirstInv, MainCounts, ThreadCounts, Counted, Starting, Beginning, Closed
  <2> QED
    BY <2>2, <2>3, <2>4, <2>5, <2>9 DEF KillInv
<1>3. CASE CheckShutdown(t)
  <2>1. /\ at[t] = "check"
        /\ \/ called_process_shutdown /\ at' = [at EXCEPT ![t] = "app"] /\ UNCHANGED in_shutdown
           \/ ~called_process_shutdown /\ at' = [at EXCEPT ![t] = "set"] /\ in_shutdown' = in_shutdown \cup {t}
        /\ UNCHANGED <<setup, leaving, stage, ender, phase, fini, known, counting, called_process_shutdown>>
    BY <1>3 DEF CheckShutdown, ShutdownDone, At, Goto, monitorVars, stateVars, dataVars
  <2>2. OrderInv'
    BY <1>0, <2>1 DEF KillInv, OrderInv
  <2>9. TroubleInv'
    BY <1>0, <2>1 DEF KillInv, OrderInv, FirstInv, TroubleInv, MainCounts, ThreadCounts, Counted, Starting, Beginning, Closed
  <2>3. FirstInv'
    BY <1>0, <2>1 DEF KillInv, FirstInv, Starting, Beginning
  <2>4. MainCounts'
    BY <1>0, <2>1 DEF KillInv, OrderInv, FirstInv, MainCounts, Counted, Starting, Beginning, Closed
  <2>5. ASSUME NEW u \in Threads \ {Main} PROVE ThreadCounts(u)'
    BY <1>0, <2>1 DEF KillInv, OrderInv, FirstInv, MainCounts, ThreadCounts, Counted, Starting, Beginning, Closed
  <2> QED
    BY <2>2, <2>3, <2>4, <2>5, <2>9 DEF KillInv
<1>4. CASE SetShutdown(t)
  <2>1. /\ at[t] = "set" /\ at' = [at EXCEPT ![t] = "stop"] /\ called_process_shutdown' = TRUE
        /\ UNCHANGED <<setup, leaving, stage, ender, phase, fini, in_shutdown, known, counting>>
    BY <1>4 DEF SetShutdown, AfterGates, At, Goto, monitorVars, dataVars
  <2>2. OrderInv'
    BY <1>0, <2>1 DEF KillInv, OrderInv
  <2>9. TroubleInv'
    BY <1>0, <2>1 DEF KillInv, OrderInv, FirstInv, TroubleInv, MainCounts, ThreadCounts, Counted, Starting, Beginning, Closed
  <2>3. FirstInv'
    BY <1>0, <2>1 DEF KillInv, FirstInv, Starting, Beginning
  <2>4. MainCounts'
    BY <1>0, <2>1 DEF KillInv, OrderInv, FirstInv, MainCounts, Counted, Starting, Beginning, Closed
  <2>5. ASSUME NEW u \in Threads \ {Main} PROVE ThreadCounts(u)'
    BY <1>0, <2>1 DEF KillInv, OrderInv, FirstInv, MainCounts, ThreadCounts, Counted, Starting, Beginning, Closed
  <2> QED
    BY <2>2, <2>3, <2>4, <2>5, <2>9 DEF KillInv
<1>5. CASE OutputPaths(t) \/ CountThreads(t) \/ WriteThread(t) \/ ReportComplete(t)
  <2>1. /\ at[t] \in {"paths", "count", "write"}
        /\ at' = at \/ \E to \in {"count", "write", "script"} : at' = [at EXCEPT ![t] = to]
        /\ UNCHANGED <<setup, leaving, stage, ender, phase, fini, in_shutdown, known, counting, called_process_shutdown>>
    BY <1>5 DEF OutputPaths, CountThreads, WriteThread, ReportComplete, At, Goto, Error, monitorVars, stateVars, dataVars
  <2>2. OrderInv'
    BY <1>0, <2>1 DEF KillInv, OrderInv
  <2>9. TroubleInv'
    BY <1>0, <2>1 DEF KillInv, OrderInv, FirstInv, TroubleInv, MainCounts, ThreadCounts, Counted, Starting, Beginning, Closed
  <2>3. FirstInv'
    BY <1>0, <2>1 DEF KillInv, FirstInv, Starting, Beginning
  <2>4. MainCounts'
    BY <1>0, <2>1 DEF KillInv, OrderInv, FirstInv, MainCounts, Counted, Starting, Beginning, Closed
  <2>5. ASSUME NEW u \in Threads \ {Main} PROVE ThreadCounts(u)'
    BY <1>0, <2>1 DEF KillInv, OrderInv, FirstInv, MainCounts, ThreadCounts, Counted, Starting, Beginning, Closed
  <2> QED
    BY <2>2, <2>3, <2>4, <2>5, <2>9 DEF KillInv
<1>6. CASE RunScript(t)
  <2>1. /\ at[t] = "script" /\ at' = [at EXCEPT ![t] = "app"] /\ in_shutdown' = in_shutdown \ {t}
        /\ UNCHANGED <<setup, leaving, stage, ender, phase, fini, known, counting, called_process_shutdown>>
    BY <1>6 DEF RunScript, At, Goto, Error, monitorVars, stateVars, dataVars
  <2>2. OrderInv'
    BY <1>0, <2>1 DEF KillInv, OrderInv
  <2>9. TroubleInv'
    BY <1>0, <2>1 DEF KillInv, OrderInv, FirstInv, TroubleInv, MainCounts, ThreadCounts, Counted, Starting, Beginning, Closed
  <2>3. FirstInv'
    BY <1>0, <2>1 DEF KillInv, FirstInv, Starting, Beginning
  <2>4. MainCounts'
    BY <1>0, <2>1 DEF KillInv, OrderInv, FirstInv, MainCounts, Counted, Starting, Beginning, Closed
  <2>5. ASSUME NEW u \in Threads \ {Main} PROVE ThreadCounts(u)'
    BY <1>0, <2>1 DEF KillInv, OrderInv, FirstInv, MainCounts, ThreadCounts, Counted, Starting, Beginning, Closed
  <2> QED
    BY <2>2, <2>3, <2>4, <2>5, <2>9 DEF KillInv
<1>7. CASE t = Main /\ monitor_fini_mpi
  <2>1. /\ at[Main] = "app" /\ phase[Main] = "live" /\ at' = [at EXCEPT ![Main] = "check"]
        /\ UNCHANGED <<setup, leaving, stage, ender, phase, fini, in_shutdown, known, counting, called_process_shutdown>>
    BY <1>7 DEF monitor_fini_mpi, At, Goto, monitorVars, dataVars
  <2>2. OrderInv'
    BY <1>0, <2>1 DEF KillInv, OrderInv
  <2>9. TroubleInv'
    BY <1>0, <2>1 DEF KillInv, OrderInv, FirstInv, TroubleInv, MainCounts, ThreadCounts, Counted, Starting, Beginning, Closed
  <2>3. FirstInv'
    BY <1>0, <2>1 DEF KillInv, FirstInv, Starting, Beginning
  <2>4. MainCounts'
    BY <1>0, <2>1 DEF KillInv, OrderInv, FirstInv, MainCounts, Counted, Starting, Beginning, Closed
  <2>5. ASSUME NEW u \in Threads \ {Main} PROVE ThreadCounts(u)'
    BY <1>0, <2>1 DEF KillInv, OrderInv, FirstInv, MainCounts, ThreadCounts, Counted, Starting, Beginning, Closed
  <2> QED
    BY <2>2, <2>3, <2>4, <2>5, <2>9 DEF KillInv
<1> QED
  BY <1>1, <1>2, <1>3, <1>4, <1>5, <1>6, <1>7

\* The callbacks begin and end, threads leave and signals arrive.
LEMMA CallbackKills ==
  ASSUME TableInv, KillInv,
         \/ MainBegins \/ monitor_fini_process \/ CallbacksReturned \/ ProcessGone
         \/ \E t \in Threads :
              monitor_init_thread(t) \/ monitor_fini_thread(t) \/ ThreadMoves(t) \/ Exit(t) \/ FatalSignal(t)
  PROVE  KillInv'
<1>0. /\ at \in [Threads -> Points] /\ phase \in [Threads -> Monitor!Phases] /\ Main \in Threads
      /\ NoThread \notin Threads /\ fini \in [Threads -> Nat]
  BY ThreadsAssumption DEF TableInv, TableType, KillInv, OrderInv
<1>1. CASE MainBegins
  <2>1. /\ at[Main] = "app" /\ Main \notin leaving /\ phase[Main] = "before" /\ phase' = [phase EXCEPT ![Main] = "live"]
        /\ UNCHANGED <<setup, at, leaving, stage, ender, fini, in_shutdown, known, counting, called_process_shutdown>>
    BY <1>1 DEF MainBegins, Monitor!BeginMain, At, clientVars, dataVars, stateVars
  <2>2. OrderInv'
    BY <1>0, <2>1 DEF KillInv, OrderInv
  <2>9. TroubleInv'
    BY <1>0, <2>1 DEF KillInv, OrderInv, FirstInv, TroubleInv, MainCounts, ThreadCounts, Counted, Starting, Beginning, Closed
  <2>3. FirstInv'
    BY <1>0, <2>1 DEF KillInv, FirstInv, Starting, Beginning
  <2>4. MainCounts'
    BY <1>0, <2>1 DEF KillInv, OrderInv, FirstInv, MainCounts, Counted, Starting, Beginning, Closed
  <2>5. ASSUME NEW u \in Threads \ {Main} PROVE ThreadCounts(u)'
    BY <1>0, <2>1 DEF KillInv, OrderInv, FirstInv, MainCounts, ThreadCounts, Counted, Starting, Beginning, Closed
  <2> QED
    BY <2>2, <2>3, <2>4, <2>5, <2>9 DEF KillInv
<1>2. ASSUME NEW t \in Threads, monitor_init_thread(t) PROVE KillInv'
  <2>1. /\ at[t] = "app" /\ t # Main /\ phase[t] = "before" /\ phase[Main] # "before"
        /\ at' = [at EXCEPT ![t] = "init"] /\ phase' = [phase EXCEPT ![t] = "init"]
        /\ UNCHANGED <<setup, leaving, stage, ender, fini, in_shutdown, known, counting, called_process_shutdown>>
    BY <1>2 DEF monitor_init_thread, Monitor!BeginThread, At, Goto, clientVars, dataVars, stateVars
  <2>2. OrderInv'
    BY <1>0, <2>1 DEF KillInv, OrderInv
  <2>9. TroubleInv'
    BY <1>0, <2>1 DEF KillInv, OrderInv, FirstInv, TroubleInv, MainCounts, ThreadCounts, Counted, Starting, Beginning, Closed
  <2>3. FirstInv'
    BY <1>0, <2>1 DEF KillInv, FirstInv, Starting, Beginning
  <2>4. MainCounts'
    BY <1>0, <2>1 DEF KillInv, OrderInv, FirstInv, MainCounts, Counted, Starting, Beginning, Closed
  <2>5. ASSUME NEW u \in Threads \ {Main} PROVE ThreadCounts(u)'
    BY <1>0, <2>1 DEF KillInv, OrderInv, FirstInv, MainCounts, ThreadCounts, Counted, Starting, Beginning, Closed
  <2> QED
    BY <2>2, <2>3, <2>4, <2>5, <2>9 DEF KillInv
<1>3. ASSUME NEW t \in Threads, monitor_fini_thread(t) PROVE KillInv'
  <2>1. /\ at[t] = "app" /\ t # Main
        /\ phase[t] = "live" \/ (phase[t] = "init" /\ ender = t)
        /\ fini[t] \in {0, 1} /\ fini' = [fini EXCEPT ![t] = @ + 1] /\ at' = [at EXCEPT ![t] = "stop"]
        /\ UNCHANGED <<setup, leaving, stage, ender, phase, in_shutdown, known, counting, called_process_shutdown>>
    BY <1>3 DEF monitor_fini_thread, Monitor!FiniThread, At, Goto, clientVars, dataVars, stateVars
  <2>2. fini' \in [Threads -> Nat] /\ fini'[t] > 0 /\ (fini[t] = 1 => fini'[t] = 2) /\ \A u \in Threads \ {t} : fini'[u] = fini[u]
    BY <1>0, <2>1
  <2>3. OrderInv'
    BY <1>0, <2>1, <2>2 DEF KillInv, OrderInv
  <2>9. TroubleInv'
    BY <1>0, <2>1, <2>2 DEF KillInv, OrderInv, FirstInv, TroubleInv, MainCounts, ThreadCounts, Counted, Starting, Beginning, Closed
  <2>4. FirstInv'
    BY <1>0, <2>1, <2>2 DEF KillInv, FirstInv, Starting, Beginning
  <2>5. MainCounts'
    BY <1>0, <2>1, <2>2 DEF KillInv, OrderInv, FirstInv, MainCounts, Counted, Starting, Beginning, Closed
  <2>6. ASSUME NEW u \in Threads \ {Main} PROVE ThreadCounts(u)'
    <3>1. CASE u = t
      <4>1. at'[u] = "stop" /\ fini'[u] > 0 /\ fini'[u] \in Nat
        BY <1>0, <2>1, <2>2, <3>1
      <4>2. phase'[u] = "init" => u \in leaving'
        BY <1>0, <2>1, <2>2, <3>1 DEF KillInv, OrderInv
      <4>4. /\ phase'[u] \in {"live", "init"}
            /\ u \in in_shutdown' => stage' \notin {"running", "ending"}
        BY <2>1, <3>1 DEF KillInv, ThreadCounts
      <4>3. fini'[u] = 2 \/ phase'[u] = "init" \/ Counted(u)'
        <5>1. ThreadCounts(u)
          BY DEF KillInv
        <5> QED
          BY <1>0, <2>1, <2>2, <3>1, <5>1 DEF ThreadCounts, Counted
      <4> QED
        BY <4>1, <4>2, <4>3, <4>4 DEF ThreadCounts, Starting, Beginning
    <3>2. CASE u # t
      BY <1>0, <2>1, <2>2, <3>2 DEF KillInv, ThreadCounts, Counted
    <3> QED
      BY <3>1, <3>2
  <2> QED
    BY <2>3, <2>4, <2>5, <2>6, <2>9 DEF KillInv
<1>4. CASE monitor_fini_process
  <2>1. /\ at[ender] = "app" /\ stage = "ending" /\ ender # NoThread /\ stage' = "finishing"
        /\ (phase[ender] = "live" /\ ender # Main) => fini[ender] > 0
        /\ at' = [at EXCEPT ![ender] = "check"]
        /\ UNCHANGED <<setup, leaving, ender, phase, fini, in_shutdown, known, counting, called_process_shutdown>>
    BY <1>4 DEF monitor_fini_process, Monitor!FiniProcess, Goto, clientVars, dataVars, stateVars
  <2>2. ender \in Threads /\ ender \in leaving
    BY <1>0, <2>1 DEF KillInv, OrderInv
  <2>3. OrderInv'
    BY <1>0, <2>1, <2>2 DEF KillInv, OrderInv
  <2>9. TroubleInv'
    BY <1>0, <2>1, <2>2 DEF KillInv, OrderInv, FirstInv, TroubleInv, MainCounts, ThreadCounts, Counted, Starting, Beginning, Closed
  <2>4. FirstInv'
    BY <1>0, <2>1, <2>2 DEF KillInv, FirstInv, Starting, Beginning
  <2>5. MainCounts'
    BY <1>0, <2>1, <2>2 DEF KillInv, OrderInv, FirstInv, MainCounts, Counted, Starting, Beginning, Closed
  <2>6. ASSUME NEW u \in Threads \ {Main} PROVE ThreadCounts(u)'
    <3>1. CASE u = ender
      <4>1. at'[u] = "check" /\ u \in leaving'
        BY <1>0, <2>1, <2>2, <3>1
      <4>2. phase'[u] # "live" \/ fini'[u] # 0
        BY <1>0, <2>1, <2>2, <3>1
      <4>3. /\ phase'[u] # "ignored" /\ (phase'[u] = "before" => u \notin known') /\ stage' = "finishing"
            /\ fini'[u] > 0 \/ phase'[u] \in {"before", "init"} \/ Counted(u)' \/ u \notin known'
        <5>1. ThreadCounts(u) /\ u # Main
          BY DEF KillInv
        <5>2. phase[u] \in {"before", "init", "live", "over"} /\ fini[u] \in Nat
          BY <1>0, <5>1 DEF ThreadCounts, Monitor!Phases
        <5> QED
          BY <2>1, <3>1, <5>1, <5>2 DEF ThreadCounts, Counted
      <4> QED
        BY <4>1, <4>2, <4>3 DEF ThreadCounts, Starting, Beginning
    <3>2. CASE u # ender
      BY <1>0, <2>1, <2>2, <3>2 DEF KillInv, ThreadCounts, Counted
    <3> QED
      BY <3>1, <3>2
  <2> QED
    BY <2>3, <2>4, <2>5, <2>6, <2>9 DEF KillInv
<1>5. CASE CallbacksReturned \/ ProcessGone
  <2>1. /\ stage' \in {"finished", "gone"} /\ ender' = NoThread /\ UNCHANGED <<setup, at, leaving, phase, fini, in_shutdown, known, counting, called_process_shutdown>>
    BY <1>5 DEF CallbacksReturned, Monitor!Finished, ProcessGone, Monitor!Gone, clientVars, dataVars, stateVars
  <2>2. OrderInv'
    BY <1>0, <2>1 DEF KillInv, OrderInv
  <2>9. TroubleInv'
    BY <1>0, <2>1 DEF KillInv, OrderInv, FirstInv, TroubleInv, MainCounts, ThreadCounts, Counted, Starting, Beginning, Closed
  <2>3. FirstInv'
    BY <1>0, <2>1 DEF KillInv, FirstInv, Starting, Beginning
  <2>4. MainCounts'
    BY <1>0, <2>1 DEF KillInv, OrderInv, FirstInv, MainCounts, Counted, Starting, Beginning, Closed
  <2>5. ASSUME NEW u \in Threads \ {Main} PROVE ThreadCounts(u)'
    BY <1>0, <2>1 DEF KillInv, OrderInv, FirstInv, MainCounts, ThreadCounts, Counted, Starting, Beginning, Closed
  <2> QED
    BY <2>2, <2>3, <2>4, <2>5, <2>9 DEF KillInv
<1>6. ASSUME NEW t \in Threads, ThreadMoves(t) PROVE KillInv'
  <2>1. /\ at[t] = "app"
        /\ t \notin leaving \/ stage = "finished"
        /\ \/ phase[t] = "init" /\ t \notin leaving /\ phase' = [phase EXCEPT ![t] = "live"]
           \/ phase[t] # "over" /\ phase' = [phase EXCEPT ![t] = "over"]
        /\ ender' \in {ender, NoThread}
        /\ UNCHANGED <<setup, at, leaving, stage, fini, in_shutdown, known, counting, called_process_shutdown>>
    BY <1>6 DEF ThreadMoves, Monitor!StartThread, Monitor!ThreadOver, At, clientVars, dataVars, stateVars
  <2>2. OrderInv'
    BY <1>0, <2>1 DEF KillInv, OrderInv
  <2>9. TroubleInv'
    BY <1>0, <2>1 DEF KillInv, OrderInv, FirstInv, TroubleInv, MainCounts, ThreadCounts, Counted, Starting, Beginning, Closed
  <2>3. FirstInv'
    BY <1>0, <2>1 DEF KillInv, FirstInv, Starting, Beginning
  <2>4. MainCounts'
    BY <1>0, <2>1 DEF KillInv, OrderInv, FirstInv, MainCounts, Counted, Starting, Beginning, Closed
  <2>5. ASSUME NEW u \in Threads \ {Main} PROVE ThreadCounts(u)'
    <3>1. phase[t] \in {"before", "init", "live", "over"} \/ u # t
      BY <1>0 DEF KillInv, ThreadCounts, Monitor!Phases
    <3>2. CASE u = t
      <4>1. ThreadCounts(t) /\ fini[t] \in Nat
        BY <1>0, <3>2 DEF KillInv
      <4>2. CASE phase[t] = "init" /\ t \notin leaving /\ phase' = [phase EXCEPT ![t] = "live"]
        BY <1>0, <2>1, <3>2, <4>1, <4>2 DEF ThreadCounts, Counted, Starting, Beginning
      <4>3. CASE phase' = [phase EXCEPT ![t] = "over"]
        <5>1. phase'[t] = "over" /\ at'[t] = "app" /\ stage' = stage
          BY <1>0, <2>1, <4>3
        <5>2. stage \in {"running", "ending"} => fini[t] > 0 \/ Counted(t) \/ t \notin known
          BY <1>0, <2>1, <3>1, <3>2, <4>1 DEF ThreadCounts, Starting, Beginning
        <5> QED
          BY <2>1, <3>2, <4>1, <5>1, <5>2 DEF ThreadCounts, Counted, Starting, Beginning
      <4> QED
        BY <2>1, <4>2, <4>3
    <3>3. CASE u # t
      BY <1>0, <2>1, <3>3 DEF KillInv, ThreadCounts, Counted
    <3> QED
      BY <3>2, <3>3
  <2> QED
    BY <2>2, <2>3, <2>4, <2>5, <2>9 DEF KillInv
<1>7. ASSUME NEW t \in Threads, Exit(t) PROVE KillInv'
  <2>1. /\ phase[t] = "live" /\ stage = "running" /\ stage' = "ending" /\ ender' = t /\ leaving' = leaving \cup {t}
        /\ UNCHANGED <<setup, at, phase, fini, in_shutdown, known, counting, called_process_shutdown>>
    BY <1>7 DEF Exit, Monitor!EndProcess, clientVars, dataVars, stateVars
  <2>2. OrderInv'
    BY <1>0, <2>1 DEF KillInv, OrderInv
  <2>9. TroubleInv'
    BY <1>0, <2>1 DEF KillInv, OrderInv, FirstInv, TroubleInv, MainCounts, ThreadCounts, Counted, Starting, Beginning, Closed
  <2>3. FirstInv'
    BY <1>0, <2>1 DEF KillInv, FirstInv, Starting, Beginning
  <2>4. MainCounts'
    BY <1>0, <2>1 DEF KillInv, OrderInv, FirstInv, MainCounts, Counted, Starting, Beginning, Closed
  <2>5. ASSUME NEW u \in Threads \ {Main} PROVE ThreadCounts(u)'
    BY <1>0, <2>1 DEF KillInv, OrderInv, FirstInv, MainCounts, ThreadCounts, Counted, Starting, Beginning, Closed
  <2> QED
    BY <2>2, <2>3, <2>4, <2>5, <2>9 DEF KillInv
<1>8. ASSUME NEW t \in Threads, FatalSignal(t) PROVE KillInv'
  <2>1. /\ at' = [at EXCEPT ![t] = "app"] /\ leaving' = leaving \cup {t} /\ in_shutdown' = in_shutdown \ {t}
        /\ setup.trouble
        /\ \/ stage = "running" /\ stage' = "ending" /\ ender' = t
           \/ stage \in {"ending", "finishing"} /\ stage' = stage /\ ender = t /\ ender' = NoThread
        /\ UNCHANGED <<setup, phase, fini, known, counting, called_process_shutdown>>
    BY <1>8 DEF FatalSignal, Monitor!EndProcess, Monitor!Abandon, Goto, clientVars, dataVars, stateVars
  <2>2. at[Main] \in Starting \cup Closed \cup {"app", "check", "set"}
    BY <1>0, <2>1 DEF Points, Starting, Beginning, Closed
  <2>3. OrderInv'
    BY <1>0, <2>1, <2>2 DEF KillInv, OrderInv
  <2>9. TroubleInv'
    BY <1>0, <2>1, <2>2 DEF KillInv, OrderInv, FirstInv, TroubleInv, MainCounts, ThreadCounts, Counted, Starting, Beginning, Closed
  <2>4. FirstInv'
    BY <1>0, <2>1, <2>2 DEF KillInv, FirstInv, Starting, Beginning
  <2>5. MainCounts'
    BY <1>0, <2>1, <2>2 DEF KillInv, OrderInv, FirstInv, MainCounts, Counted, Starting, Beginning, Closed
  <2>6. ASSUME NEW u \in Threads \ {Main} PROVE ThreadCounts(u)'
    BY <1>0, <2>1, <2>2 DEF KillInv, OrderInv, FirstInv, MainCounts, ThreadCounts, Counted, Starting, Beginning, Closed
  <2> QED
    BY <2>3, <2>4, <2>5, <2>6, <2>9 DEF KillInv
<1> QED
  BY <1>1, <1>2, <1>3, <1>4, <1>5, <1>6, <1>7, <1>8

\* A step in which papiex ends the process is one of those named.
LEMMA ErrorsKnown ==
  ASSUME TableInv, KillInv, outcome = "running", outcome' # "running", NEW t \in Threads,
         PapiexStep(t) \/ (t = Main /\ ProcessInit)
  PROVE  KilledOnlyKnown'
<1>0. /\ at \in [Threads -> Points] /\ phase \in [Threads -> Monitor!Phases] /\ Main \in Threads
      /\ fini \in [Threads -> Nat] /\ t \in Threads
  BY ThreadsAssumption DEF TableInv, TableType, KillInv, OrderInv
<1>1. ProcessInit \/ ThreadInit(t) \/ StopCounting(t) \/ ThreadFinish(t) \/ OutputPaths(t) \/ WriteThread(t) \/ RunScript(t)
  BY DEF PapiexStep, TakeLock, Grow, StoreEntry, CountEntry, StartCounting, CheckShutdown, SetShutdown, CountThreads,
         ReportComplete, endVars
<1>3. CASE StopCounting(t)
  <2>1. /\ at[t] = "stop" /\ killer' = t /\ UNCHANGED <<setup, phase, fini, in_shutdown>>
        /\ \/ outcome' = "noData" /\ t \notin known
           \/ outcome' = "notInUse" /\ ~Counted(t) /\ (t \in known \/ t = Main)
    BY <1>3 DEF StopCounting, Data, At, Error, Counted, endVars, monitorVars
  <2>2. CASE outcome' = "noData" /\ t \notin known
    <3>1. setup.trouble
      BY <2>1, <2>2 DEF KillInv, TroubleInv
    <3>2. phase[t] # "live"
      BY <2>2 DEF KillInv, TroubleInv
    <3> QED
      BY <2>1, <2>2, <3>1, <3>2 DEF KilledOnlyKnown
  <2>3. CASE outcome' = "notInUse" /\ ~Counted(t) /\ (t \in known \/ t = Main)
    <3>1. /\ phase[t] \in {"before", "init"} => setup.trouble
          /\ fini[t] \in Nat
      BY <1>0, <2>1 DEF KillInv, TroubleInv
    <3>2. CASE t = Main
      <4>1. phase[Main] = "before"
        BY <2>1, <2>3, <3>2 DEF KillInv, MainCounts
      <4> QED
        BY <2>1, <2>3, <3>1, <3>2, <4>1 DEF KilledOnlyKnown
    <3>3. CASE t # Main /\ t \in in_shutdown
      <4>1. fini[t] > 0 \/ phase[t] \in {"before", "init"}
        BY <2>1, <2>3, <3>3 DEF KillInv, ThreadCounts
      <4> QED
        BY <2>1, <2>3, <3>1, <3>3, <4>1 DEF KilledOnlyKnown
    <3>4. CASE t # Main /\ t \notin in_shutdown
      <4>1. fini[t] = 2 \/ phase[t] = "init"
        BY <2>1, <2>3, <3>4 DEF KillInv, ThreadCounts
      <4> QED
        BY <2>1, <2>3, <3>1, <3>4, <4>1 DEF KilledOnlyKnown
    <3> QED
      BY <3>2, <3>3, <3>4
  <2> QED
    BY <2>1, <2>2, <2>3
<1>4. CASE WriteThread(t)
  <2>1. /\ at[t] = "write" /\ killer' = t /\ UNCHANGED <<setup, phase>>
        /\ \/ outcome' = "freed" /\ \E u \in Threads : at[u] = "grow"
           \/ outcome' = "disk" /\ setup.trouble
    BY <1>4 DEF WriteThread, At, Error, endVars, monitorVars
  <2>2. CASE outcome' = "freed" /\ \E u \in Threads : at[u] = "grow"
    <3>1. PICK u \in Threads : at[u] = "grow"
      BY <2>2
    <3>2. u # t /\ u # Main
      BY <2>1, <3>1, <1>0 DEF KillInv, FirstInv, Starting, Beginning
    <3>3. phase[u] = "init"
      BY <3>1, <3>2 DEF KillInv, ThreadCounts, Starting, Beginning
    <3> QED
      BY <2>1, <2>2, <3>2, <3>3 DEF KilledOnlyKnown
  <2>3. CASE outcome' = "disk" /\ setup.trouble
    BY <2>1, <2>3 DEF KilledOnlyKnown
  <2> QED
    BY <2>1, <2>2, <2>3
<1>5. CASE RunScript(t)
  BY <1>5 DEF RunScript, Error, endVars, KilledOnlyKnown
<1>6. CASE OutputPaths(t)
  BY <1>6 DEF OutputPaths, Error, endVars, KilledOnlyKnown
<1>7. CASE ProcessInit \/ ThreadInit(t) \/ ThreadFinish(t)
  BY <1>7 DEF ProcessInit, ThreadInit, ThreadFinish, PapiFails, Error, endVars, KilledOnlyKnown
<1> QED
  BY <1>1, <1>3, <1>4, <1>5, <1>6, <1>7

\* No step is left once papiex has ended the process or the process is gone.
LEMMA NextRuns == Next => outcome = "running" /\ stage # "gone"
  BY DEF Next, PapiexStep, ProcessInit, monitor_fini_mpi, ThreadInit, TakeLock, Grow, StoreEntry, CountEntry,
         StartCounting, StopCounting, ThreadFinish, CheckShutdown, SetShutdown, OutputPaths, CountThreads,
         WriteThread, ReportComplete, RunScript, MainBegins, monitor_fini_process, CallbacksReturned,
         ProcessGone, monitor_init_thread, monitor_fini_thread, ThreadMoves, Exit, FatalSignal, At, Active

\* In every state before such an end KillInv holds.
LEMMA EndingInvariance == Spec => []EndingInv
<1>1. Init => EndingInv
  <2> SUFFICES ASSUME Init PROVE KilledOnlyKnown /\ KillInv
    BY DEF EndingInv
  <2>1. /\ stage = "running" /\ in_shutdown = {} /\ phase = [t \in Threads |-> "before"] /\ ender = NoThread
        /\ fini = [t \in Threads |-> 0] /\ at = [t \in Threads |-> IF t = Main THEN "process init" ELSE "app"]
        /\ Main \in Threads /\ NoThread \notin Threads /\ known = {} /\ leaving = {} /\ outcome = "running"
        /\ \A t \in Threads : t \notin counting
    BY ThreadsAssumption DEF Init, Monitor!Init
  <2>2. OrderInv
    BY <2>1 DEF OrderInv
  <2>3. FirstInv /\ MainCounts
    BY <2>1 DEF FirstInv, MainCounts, Starting, Beginning, Closed
  <2>4. \A t \in Threads \ {Main} : ThreadCounts(t)
    BY <2>1 DEF ThreadCounts, Counted, Starting, Beginning
  <2>6. TroubleInv
    BY <2>1 DEF TroubleInv
  <2>5. KilledOnlyKnown
    BY <2>1 DEF KilledOnlyKnown
  <2> QED
    BY <2>2, <2>3, <2>4, <2>5, <2>6 DEF KillInv
<1>2. TableInv /\ EndingInv /\ [Next]_vars => EndingInv'
  <2> SUFFICES ASSUME TableInv, EndingInv, [Next]_vars PROVE EndingInv'
    OBVIOUS
  <2>1. CASE UNCHANGED vars
    BY <2>1 DEF vars, monitorVars, dataVars, stateVars, endVars, EndingInv, KilledOnlyKnown, KillInv, OrderInv, FirstInv,
                TroubleInv, MainCounts, ThreadCounts, Counted
  <2>2. CASE Next
    <3>1. outcome = "running" /\ KillInv
      BY <2>2, NextRuns DEF EndingInv
    <3>2. CASE outcome' = "running"
      <4>1. Main \in Threads
        BY ThreadsAssumption
      <4>2. KillInv'
        BY <2>2, <3>1, <3>2, <4>1, BeginningKills, ShutdownKills, CallbackKills DEF Next, PapiexStep
      <4> QED
        BY <3>2, <4>2 DEF EndingInv, KilledOnlyKnown
    <3>3. CASE outcome' # "running"
      <4>1. \E t \in Threads : PapiexStep(t) \/ (t = Main /\ ProcessInit)
        BY <2>2, <3>1, <3>3, ThreadsAssumption DEF Next, monitor_fini_mpi, MainBegins, monitor_fini_process, CallbacksReturned,
             ProcessGone, monitor_init_thread, monitor_fini_thread, ThreadMoves, Exit, FatalSignal, clientVars, endVars
      <4> QED
        BY <3>1, <3>3, <4>1, ErrorsKnown DEF EndingInv
    <3> QED
      BY <3>2, <3>3
  <2> QED
    BY <2>1, <2>2
<1> QED
  BY TableInvariance, <1>1, <1>2, PTL DEF Spec

\* papiex_stop, the hooks of the calipers and print_process_stats: papiex ends the
\* process without a report in no case but those of KilledOnlyKnown, for any threads
\* that begin, end, exit and get fatal signals in any order.
THEOREM OnlyKnownErrors == Spec => []KilledOnlyKnown
<1>1. EndingInv => KilledOnlyKnown
  BY DEF EndingInv
<1> QED
  BY EndingInvariance, <1>1, PTL
-----------------------------------------------------------------------------
(* When the counters of a thread stop, relative to the files of the report. *)

\* A thread's counters run from its start to its first stop.
DataInv(t) ==
  /\ t \in counting => t \in known
  /\ at[t] \in Closed \ {"stop"} => t \notin counting
  /\ at[t] \in {"paths", "count", "write", "script"} => t \in in_shutdown
  /\ at[t] \in Starting \/ phase[t] = "before" => fini[t] = 0

\* They run after its monitor_fini_thread only if a fatal signal has cut that off.
CutOffInv(t) ==
  fini[t] > 0 /\ t \in counting /\ at[t] # "stop" =>
    setup.trouble /\ stage # "running" /\ ender \in {t, NoThread}

\* Without fatal signals the data of a thread that ends the process, but the main one,
\* are gone before its monitor_fini_process.
NoSignalInv ==
  ~setup.trouble =>
    /\ stage \in {"ending", "finishing"} => ender \in Threads /\ phase[ender] = "live"
    /\ \A t \in Threads \ {Main} :
         /\ fini[t] > 0 /\ t \in counting => at[t] = "stop" /\ t \notin in_shutdown
         /\ stage # "gone" /\ (at[t] = "check" \/ t \in in_shutdown) => fini[t] > 0
         /\ stage # "gone" /\ t \in in_shutdown => at[t] \in {"set", "stop"}

FileInv ==
  /\ stage = "gone" \/ ShutdownInv
  /\ \A t \in Threads : DataInv(t) /\ CutOffInv(t)
  /\ NoSignalInv

\* monitor_init_process and the making of an entry.
LEMMA BeginningFiles ==
  ASSUME TableInv, KillInv, FileInv, stage # "gone", outcome = "running", outcome' = "running", NEW t \in Threads,
         \/ (t = Main /\ ProcessInit) \/ ThreadInit(t) \/ TakeLock(t) \/ Grow(t) \/ StoreEntry(t)
         \/ CountEntry(t) \/ StartCounting(t)
  PROVE  FileInv'
<1>0. /\ at \in [Threads -> Points] /\ phase \in [Threads -> Monitor!Phases] /\ Main \in Threads
      /\ NoThread \notin Threads /\ fini \in [Threads -> Nat] /\ stage # "gone" /\ ShutdownInv
      /\ ender \in leaving \/ ender = NoThread
      /\ \A u \in Threads : DataInv(u) /\ CutOffInv(u)
      /\ NoSignalInv
  BY ThreadsAssumption DEF TableInv, TableType, KillInv, OrderInv, FileInv
<1>1. CASE t = Main /\ ProcessInit
  <2>1. /\ at[Main] = "process init" /\ at' = [at EXCEPT ![Main] = "init"]
        /\ called_process_shutdown' = FALSE
        /\ UNCHANGED <<setup, fini_mpi_called, leaving, stage, ender, phase, fini, in_shutdown, known, counting>>
    BY <1>1 DEF ProcessInit, FlagAfterInit, PapiFails, Error, At, Goto, monitorVars, dataVars
  <2>2. stage' = "gone" \/ ShutdownInv'
    BY <1>0, <2>1 DEF ShutdownInv
  <2>3. ASSUME NEW u \in Threads PROVE DataInv(u)'
    BY <1>0, <2>1 DEF DataInv, Starting, Beginning, Closed, ShutdownInv
  <2>4. ASSUME NEW u \in Threads PROVE CutOffInv(u)'
    BY <1>0, <2>1 DEF CutOffInv, DataInv, Starting
  <2>5. NoSignalInv'
    BY <1>0, <2>1 DEF NoSignalInv, DataInv, Starting, Beginning, ShutdownInv
  <2> QED
    BY <2>2, <2>3, <2>4, <2>5 DEF FileInv
<1>2. CASE ThreadInit(t)
  <2>1. /\ at[t] = "init" /\ at' = [at EXCEPT ![t] = "append"] /\ known' = known \cup {t}
        /\ UNCHANGED <<setup, fini_mpi_called, leaving, stage, ender, phase, fini, in_shutdown, counting, called_process_shutdown>>
    BY <1>2 DEF ThreadInit, PapiFails, Error, At, Goto, monitorVars, stateVars
  <2>2. fini[t] = 0 /\ t \notin in_shutdown
    BY <1>0, <2>1 DEF DataInv, Starting, Beginning, ShutdownInv
  <2>3. stage' = "gone" \/ ShutdownInv'
    BY <1>0, <2>1, <2>2 DEF ShutdownInv
  <2>4. ASSUME NEW u \in Threads PROVE DataInv(u)'
    BY <1>0, <2>1, <2>2 DEF DataInv, Starting, Beginning, Closed, ShutdownInv
  <2>5. ASSUME NEW u \in Threads PROVE CutOffInv(u)'
    BY <1>0, <2>1, <2>2 DEF CutOffInv, DataInv, Starting
  <2>6. NoSignalInv'
    <3>1. ASSUME ~setup.trouble, NEW u \in Threads \ {Main}, fini'[u] > 0, u \in counting'
          PROVE  at'[u] = "stop" /\ u \notin in_shutdown'
      <4>1. u # t
        BY <2>1, <2>2, <3>1
      <4> QED
        BY <1>0, <2>1, <2>2, <3>1, <4>1 DEF NoSignalInv
    <3>2. ASSUME ~setup.trouble, NEW u \in Threads \ {Main}, at'[u] = "check" \/ u \in in_shutdown'
          PROVE  fini'[u] > 0 /\ (u \in in_shutdown' => at'[u] \in {"set", "stop"})
      <4>1. u # t
        BY <1>0, <2>1, <2>2, <3>2
      <4> QED
        BY <1>0, <2>1, <2>2, <3>2, <4>1 DEF NoSignalInv
    <3> QED
      BY <1>0, <2>1, <2>2, <3>1, <3>2 DEF NoSignalInv
  <2> QED
    BY <2>3, <2>4, <2>5, <2>6 DEF FileInv
<1>3. CASE TakeLock(t) \/ Grow(t) \/ StoreEntry(t) \/ CountEntry(t)
  <2>1. /\ at[t] \in {"append", "grow", "store", "bump"}
        /\ \E to \in {"grow", "store", "bump", "start"} : at' = [at EXCEPT ![t] = to]
        /\ UNCHANGED <<setup, fini_mpi_called, leaving, stage, ender, phase, fini, in_shutdown, known, counting, called_process_shutdown>>
    BY <1>3 DEF TakeLock, Grow, StoreEntry, CountEntry, At, Goto, monitorVars, stateVars, dataVars
  <2>2. stage' = "gone" \/ ShutdownInv'
    BY <1>0, <2>1 DEF ShutdownInv
  <2>3. ASSUME NEW u \in Threads PROVE DataInv(u)'
    BY <1>0, <2>1 DEF DataInv, Starting, Beginning, Closed, ShutdownInv
  <2>4. ASSUME NEW u \in Threads PROVE CutOffInv(u)'
    BY <1>0, <2>1 DEF CutOffInv, DataInv, Starting
  <2>5. NoSignalInv'
    BY <1>0, <2>1 DEF NoSignalInv, DataInv, Starting, Beginning, ShutdownInv
  <2> QED
    BY <2>2, <2>3, <2>4, <2>5 DEF FileInv
<1>4. CASE StartCounting(t)
  <2>1. /\ at[t] = "start" /\ at' = [at EXCEPT ![t] = "app"] /\ counting' = counting \cup {t}
        /\ UNCHANGED <<setup, fini_mpi_called, leaving, stage, ender, phase, fini, in_shutdown, known, called_process_shutdown>>
    BY <1>4 DEF StartCounting, At, Goto, monitorVars, stateVars
  <2>2. t \in known /\ fini[t] = 0
    BY <1>0, <2>1 DEF KillInv, MainCounts, ThreadCounts, DataInv, Starting, Beginning
  <2>3. stage' = "gone" \/ ShutdownInv'
    BY <1>0, <2>1, <2>2 DEF ShutdownInv
  <2>4. ASSUME NEW u \in Threads PROVE DataInv(u)'
    BY <1>0, <2>1, <2>2 DEF DataInv, Starting, Beginning, Closed, ShutdownInv
  <2>5. ASSUME NEW u \in Threads PROVE CutOffInv(u)'
    BY <1>0, <2>1, <2>2 DEF CutOffInv, DataInv, Starting
  <2>6. NoSignalInv'
    <3>1. ASSUME ~setup.trouble, NEW u \in Threads \ {Main}, fini'[u] > 0, u \in counting'
          PROVE  at'[u] = "stop" /\ u \notin in_shutdown'
      <4>1. u # t
        BY <2>1, <2>2, <3>1
      <4> QED
        BY <1>0, <2>1, <3>1, <4>1 DEF NoSignalInv
    <3>2. ASSUME ~setup.trouble, NEW u \in Threads \ {Main}, at'[u] = "check" \/ u \in in_shutdown'
          PROVE  fini'[u] > 0 /\ (u \in in_shutdown' => at'[u] \in {"set", "stop"})
      <4>1. u # t
        BY <1>0, <2>1, <3>2 DEF ShutdownInv
      <4> QED
        BY <1>0, <2>1, <3>2, <4>1 DEF NoSignalInv
    <3> QED
      BY <1>0, <2>1, <3>1, <3>2 DEF NoSignalInv
  <2> QED
    BY <2>3, <2>4, <2>5, <2>6 DEF FileInv
<1> QED
  BY <1>1, <1>2, <1>3, <1>4

\* The shutdown of a thread and of the process, unless they end it.
LEMMA ShutdownFiles ==
  ASSUME TableInv, KillInv, FileInv, stage # "gone", outcome = "running", outcome' = "running", NEW t \in Threads,
         \/ StopCounting(t) \/ ThreadFinish(t) \/ CheckShutdown(t) \/ SetShutdown(t) \/ OutputPaths(t)
         \/ CountThreads(t) \/ WriteThread(t) \/ ReportComplete(t) \/ RunScript(t)
         \/ (t = Main /\ monitor_fini_mpi)
  PROVE  FileInv'
<1>0. /\ at \in [Threads -> Points] /\ phase \in [Threads -> Monitor!Phases] /\ Main \in Threads
      /\ NoThread \notin Threads /\ fini \in [Threads -> Nat] /\ stage # "gone" /\ ShutdownInv
      /\ ender \in leaving \/ ender = NoThread
      /\ \A u \in Threads : DataInv(u) /\ CutOffInv(u)
      /\ NoSignalInv
  BY ThreadsAssumption DEF TableInv, TableType, KillInv, OrderInv, FileInv
<1>1. CASE StopCounting(t)
  <2>1. /\ at[t] = "stop" /\ at' = [at EXCEPT ![t] = "finish"] /\ counting' \subseteq counting /\ t \notin counting'
        /\ t \in known \/ t = Main
        /\ t # Main => t \in counting
        /\ \A u \in Threads \ {t} : u \in counting => u \in counting'
        /\ UNCHANGED <<setup, fini_mpi_called, leaving, stage, ender, phase, fini, in_shutdown, known, called_process_shutdown>>
    BY <1>1, ThreadsAssumption DEF StopCounting, Data, At, Goto, Error, endVars, monitorVars, stateVars, KillInv, OrderInv
  <2>2. stage' = "gone" \/ ShutdownInv'
    BY <1>0, <2>1 DEF ShutdownInv
  <2>3. ASSUME NEW u \in Threads PROVE DataInv(u)'
    BY <1>0, <2>1 DEF DataInv, Starting, Beginning, Closed, ShutdownInv
  <2>4. ASSUME NEW u \in Threads PROVE CutOffInv(u)'
    BY <1>0, <2>1 DEF CutOffInv, DataInv, Starting
  <2>5. NoSignalInv'
    BY <1>0, <2>1 DEF NoSignalInv, DataInv, Starting, Beginning, ShutdownInv
  <2> QED
    BY <2>2, <2>3, <2>4, <2>5 DEF FileInv
<1>2. CASE ThreadFinish(t)
  <2>1. /\ at[t] = "finish" /\ at' = [at EXCEPT ![t] = IF t \in in_shutdown THEN "paths" ELSE "app"]
        /\ UNCHANGED <<setup, fini_mpi_called, leaving, stage, ender, phase, fini, in_shutdown, known, counting, called_process_shutdown>>
    BY <1>2 DEF ThreadFinish, PapiFails, Error, At, Goto, monitorVars, dataVars, stateVars
  <2>2. stage' = "gone" \/ ShutdownInv'
    BY <1>0, <2>1 DEF ShutdownInv
  <2>3. ASSUME NEW u \in Threads PROVE DataInv(u)'
    BY <1>0, <2>1 DEF DataInv, Starting, Beginning, Closed, ShutdownInv
  <2>4. ASSUME NEW u \in Threads PROVE CutOffInv(u)'
    BY <1>0, <2>1 DEF CutOffInv, DataInv, Starting
  <2>5. NoSignalInv'
    BY <1>0, <2>1 DEF NoSignalInv, DataInv, Starting, Beginning, ShutdownInv
  <2> QED
    BY <2>2, <2>3, <2>4, <2>5 DEF FileInv
<1>3. CASE CheckShutdown(t)
  <2>1. /\ at[t] = "check"
        /\ \/ called_process_shutdown /\ at' = [at EXCEPT ![t] = "app"] /\ UNCHANGED in_shutdown
           \/ ~called_process_shutdown /\ at' = [at EXCEPT ![t] = "set"] /\ in_shutdown' = in_shutdown \cup {t}
        /\ UNCHANGED <<setup, fini_mpi_called, leaving, stage, ender, phase, fini, known, counting, called_process_shutdown>>
    BY <1>3 DEF CheckShutdown, ShutdownDone, At, Goto, monitorVars, stateVars, dataVars
  <2>2. stage' = "gone" \/ ShutdownInv'
    BY <1>0, <2>1 DEF ShutdownInv
  <2>3. ASSUME NEW u \in Threads PROVE DataInv(u)'
    BY <1>0, <2>1 DEF DataInv, Starting, Beginning, Closed, ShutdownInv
  <2>4. ASSUME NEW u \in Threads PROVE CutOffInv(u)'
    BY <1>0, <2>1 DEF CutOffInv, DataInv, Starting
  <2>5. NoSignalInv'
    BY <1>0, <2>1 DEF NoSignalInv, DataInv, Starting, Beginning, ShutdownInv
  <2> QED
    BY <2>2, <2>3, <2>4, <2>5 DEF FileInv
<1>4. CASE SetShutdown(t)
  <2>1. /\ at[t] = "set" /\ at' = [at EXCEPT ![t] = "stop"] /\ called_process_shutdown' = TRUE
        /\ UNCHANGED <<setup, fini_mpi_called, leaving, stage, ender, phase, fini, in_shutdown, known, counting>>
    BY <1>4 DEF SetShutdown, AfterGates, At, Goto, monitorVars, dataVars
  <2>2. stage' = "gone" \/ ShutdownInv'
    BY <1>0, <2>1 DEF ShutdownInv
  <2>3. ASSUME NEW u \in Threads PROVE DataInv(u)'
    BY <1>0, <2>1 DEF DataInv, Starting, Beginning, Closed, ShutdownInv
  <2>4. ASSUME NEW u \in Threads PROVE CutOffInv(u)'
    BY <1>0, <2>1 DEF CutOffInv, DataInv, Starting
  <2>5. NoSignalInv'
    BY <1>0, <2>1 DEF NoSignalInv, DataInv, Starting, Beginning, ShutdownInv
  <2> QED
    BY <2>2, <2>3, <2>4, <2>5 DEF FileInv
<1>5. CASE OutputPaths(t) \/ CountThreads(t) \/ WriteThread(t) \/ ReportComplete(t)
  <2>1. /\ at[t] \in {"paths", "count", "write"}
        /\ at' = at \/ \E to \in {"count", "write", "script"} : at' = [at EXCEPT ![t] = to]
        /\ UNCHANGED <<setup, fini_mpi_called, leaving, stage, ender, phase, fini, in_shutdown, known, counting, called_process_shutdown>>
    BY <1>5 DEF OutputPaths, CountThreads, WriteThread, ReportComplete, At, Goto, Error, monitorVars, stateVars, dataVars
  <2>2. stage' = "gone" \/ ShutdownInv'
    BY <1>0, <2>1 DEF ShutdownInv
  <2>3. ASSUME NEW u \in Threads PROVE DataInv(u)'
    BY <1>0, <2>1 DEF DataInv, Starting, Beginning, Closed, ShutdownInv
  <2>4. ASSUME NEW u \in Threads PROVE CutOffInv(u)'
    BY <1>0, <2>1 DEF CutOffInv, DataInv, Starting
  <2>5. NoSignalInv'
    BY <1>0, <2>1 DEF NoSignalInv, DataInv, Starting, Beginning, ShutdownInv
  <2> QED
    BY <2>2, <2>3, <2>4, <2>5 DEF FileInv
<1>6. CASE RunScript(t)
  <2>1. /\ at[t] = "script" /\ at' = [at EXCEPT ![t] = "app"] /\ in_shutdown' = in_shutdown \ {t}
        /\ UNCHANGED <<setup, fini_mpi_called, leaving, stage, ender, phase, fini, known, counting, called_process_shutdown>>
    BY <1>6 DEF RunScript, At, Goto, Error, monitorVars, stateVars, dataVars
  <2>2. stage' = "gone" \/ ShutdownInv'
    BY <1>0, <2>1 DEF ShutdownInv
  <2>3. ASSUME NEW u \in Threads PROVE DataInv(u)'
    BY <1>0, <2>1 DEF DataInv, Starting, Beginning, Closed, ShutdownInv
  <2>4. ASSUME NEW u \in Threads PROVE CutOffInv(u)'
    BY <1>0, <2>1 DEF CutOffInv, DataInv, Starting
  <2>5. NoSignalInv'
    BY <1>0, <2>1 DEF NoSignalInv, DataInv, Starting, Beginning, ShutdownInv
  <2> QED
    BY <2>2, <2>3, <2>4, <2>5 DEF FileInv
<1>7. CASE t = Main /\ monitor_fini_mpi
  <2>1. /\ at[Main] = "app" /\ phase[Main] = "live" /\ at' = [at EXCEPT ![Main] = "check"]
        /\ fini_mpi_called' = TRUE
        /\ UNCHANGED <<setup, leaving, stage, ender, phase, fini, in_shutdown, known, counting, called_process_shutdown>>
    BY <1>7 DEF monitor_fini_mpi, At, Goto, monitorVars, dataVars
  <2>2. stage' = "gone" \/ ShutdownInv'
    BY <1>0, <2>1 DEF ShutdownInv
  <2>3. ASSUME NEW u \in Threads PROVE DataInv(u)'
    BY <1>0, <2>1 DEF DataInv, Starting, Beginning, Closed, ShutdownInv
  <2>4. ASSUME NEW u \in Threads PROVE CutOffInv(u)'
    BY <1>0, <2>1 DEF CutOffInv, DataInv, Starting
  <2>5. NoSignalInv'
    BY <1>0, <2>1 DEF NoSignalInv, DataInv, Starting, Beginning, ShutdownInv
  <2> QED
    BY <2>2, <2>3, <2>4, <2>5 DEF FileInv
<1> QED
  BY <1>1, <1>2, <1>3, <1>4, <1>5, <1>6, <1>7

\* The callbacks begin and end, threads leave and signals arrive.
LEMMA CallbackFiles ==
  ASSUME TableInv, KillInv, FileInv, stage # "gone",
         \/ MainBegins \/ monitor_fini_process \/ CallbacksReturned \/ ProcessGone
         \/ \E t \in Threads :
              monitor_init_thread(t) \/ monitor_fini_thread(t) \/ ThreadMoves(t) \/ Exit(t) \/ FatalSignal(t)
  PROVE  FileInv'
<1>0. /\ at \in [Threads -> Points] /\ phase \in [Threads -> Monitor!Phases] /\ Main \in Threads
      /\ NoThread \notin Threads /\ fini \in [Threads -> Nat] /\ stage # "gone" /\ ShutdownInv
      /\ ender \in leaving \/ ender = NoThread
      /\ \A u \in Threads : DataInv(u) /\ CutOffInv(u)
      /\ NoSignalInv
  BY ThreadsAssumption DEF TableInv, TableType, KillInv, OrderInv, FileInv
<1>1. CASE MainBegins
  <2>1. /\ at[Main] = "app" /\ Main \notin leaving /\ phase[Main] = "before" /\ phase' = [phase EXCEPT ![Main] = "live"]
        /\ UNCHANGED <<at, leaving, stage, ender, fini, setup, fini_mpi_called, in_shutdown, known, counting, called_process_shutdown>>
    BY <1>1 DEF MainBegins, Monitor!BeginMain, At, clientVars, dataVars, stateVars
  <2>2. stage' = "gone" \/ ShutdownInv'
    BY <1>0, <2>1 DEF ShutdownInv
  <2>3. ASSUME NEW u \in Threads PROVE DataInv(u)'
    BY <1>0, <2>1 DEF DataInv, Starting, Beginning, Closed, ShutdownInv
  <2>4. ASSUME NEW u \in Threads PROVE CutOffInv(u)'
    BY <1>0, <2>1 DEF CutOffInv, DataInv, Starting
  <2>5. NoSignalInv'
    BY <1>0, <2>1 DEF NoSignalInv, DataInv, Starting, Beginning, ShutdownInv
  <2> QED
    BY <2>2, <2>3, <2>4, <2>5 DEF FileInv
<1>2. ASSUME NEW t \in Threads, monitor_init_thread(t) PROVE FileInv'
  <2>1. /\ at[t] = "app" /\ t # Main /\ phase[t] = "before" /\ phase[Main] # "before"
        /\ at' = [at EXCEPT ![t] = "init"] /\ phase' = [phase EXCEPT ![t] = "init"]
        /\ UNCHANGED <<leaving, stage, ender, fini, setup, fini_mpi_called, in_shutdown, known, counting, called_process_shutdown>>
    BY <1>2 DEF monitor_init_thread, Monitor!BeginThread, At, Goto, clientVars, dataVars, stateVars
  <2>2. stage' = "gone" \/ ShutdownInv'
    BY <1>0, <2>1 DEF ShutdownInv
  <2>3. ASSUME NEW u \in Threads PROVE DataInv(u)'
    BY <1>0, <2>1 DEF DataInv, Starting, Beginning, Closed, ShutdownInv
  <2>4. ASSUME NEW u \in Threads PROVE CutOffInv(u)'
    BY <1>0, <2>1 DEF CutOffInv, DataInv, Starting
  <2>5. NoSignalInv'
    BY <1>0, <2>1 DEF NoSignalInv, DataInv, Starting, Beginning, ShutdownInv
  <2> QED
    BY <2>2, <2>3, <2>4, <2>5 DEF FileInv
<1>3. ASSUME NEW t \in Threads, monitor_fini_thread(t) PROVE FileInv'
  <2>1. /\ at[t] = "app" /\ t # Main
        /\ phase[t] = "live" \/ (phase[t] = "init" /\ ender = t)
        /\ fini[t] \in {0, 1} /\ fini' = [fini EXCEPT ![t] = @ + 1] /\ at' = [at EXCEPT ![t] = "stop"]
        /\ UNCHANGED <<leaving, stage, ender, phase, setup, fini_mpi_called, in_shutdown, known, counting, called_process_shutdown>>
    BY <1>3 DEF monitor_fini_thread, Monitor!FiniThread, At, Goto, clientVars, dataVars, stateVars
  <2>2. fini' \in [Threads -> Nat] /\ fini'[t] > 0 /\ (fini[t] = 1 => fini'[t] = 2) /\ \A u \in Threads \ {t} : fini'[u] = fini[u]
    BY <1>0, <2>1
  <2>3. stage' = "gone" \/ ShutdownInv'
    BY <1>0, <2>1, <2>2 DEF ShutdownInv
  <2>4. ASSUME NEW u \in Threads PROVE DataInv(u)'
    BY <1>0, <2>1, <2>2 DEF DataInv, Starting, Beginning, Closed, ShutdownInv
  <2>5. ASSUME NEW u \in Threads PROVE CutOffInv(u)'
    BY <1>0, <2>1, <2>2 DEF CutOffInv, DataInv, Starting
  <2>6. NoSignalInv'
    BY <1>0, <2>1, <2>2 DEF NoSignalInv, DataInv, Starting, Beginning, ShutdownInv
  <2> QED
    BY <2>3, <2>4, <2>5, <2>6 DEF FileInv
<1>4. CASE monitor_fini_process
  <2>1. /\ at[ender] = "app" /\ stage = "ending" /\ ender # NoThread /\ stage' = "finishing"
        /\ (phase[ender] = "live" /\ ender # Main) => fini[ender] > 0
        /\ at' = [at EXCEPT ![ender] = "check"]
        /\ UNCHANGED <<leaving, ender, phase, fini, setup, fini_mpi_called, in_shutdown, known, counting, called_process_shutdown>>
    BY <1>4 DEF monitor_fini_process, Monitor!FiniProcess, Goto, clientVars, dataVars, stateVars
  <2>2. ender \in Threads /\ ender \in leaving
    BY <1>0, <2>1 DEF KillInv, OrderInv
  <2>3. stage' = "gone" \/ ShutdownInv'
    BY <1>0, <2>1, <2>2 DEF ShutdownInv
  <2>4. ASSUME NEW u \in Threads PROVE DataInv(u)'
    BY <1>0, <2>1, <2>2 DEF DataInv, Starting, Beginning, Closed, ShutdownInv
  <2>5. ASSUME NEW u \in Threads PROVE CutOffInv(u)'
    BY <1>0, <2>1, <2>2 DEF CutOffInv, DataInv, Starting
  <2>6. NoSignalInv'
    BY <1>0, <2>1, <2>2 DEF NoSignalInv, DataInv, Starting, Beginning, ShutdownInv
  <2> QED
    BY <2>3, <2>4, <2>5, <2>6 DEF FileInv
<1>5. CASE CallbacksReturned \/ ProcessGone
  <2>1. /\ \/ /\ stage = "finishing" \/ (stage = "ending" /\ ender = NoThread)
              /\ stage' = "finished"
              /\ ender # NoThread => at[ender] = "app"
           \/ stage' = "gone"
        /\ ender' = NoThread /\ UNCHANGED <<at, leaving, phase, fini, setup, fini_mpi_called, in_shutdown, known, counting, called_process_shutdown>>
    BY <1>5 DEF CallbacksReturned, Monitor!Finished, ProcessGone, Monitor!Gone, clientVars, dataVars, stateVars
  <2>2. stage' = "gone" \/ ShutdownInv'
    BY <1>0, <2>1 DEF ShutdownInv
  <2>3. ASSUME NEW u \in Threads PROVE DataInv(u)'
    BY <1>0, <2>1 DEF DataInv, Starting, Beginning, Closed, ShutdownInv
  <2>4. ASSUME NEW u \in Threads PROVE CutOffInv(u)'
    BY <1>0, <2>1 DEF CutOffInv, DataInv, Starting
  <2>5. NoSignalInv'
    BY <1>0, <2>1 DEF NoSignalInv, DataInv, Starting, Beginning, ShutdownInv
  <2> QED
    BY <2>2, <2>3, <2>4, <2>5 DEF FileInv
<1>6. ASSUME NEW t \in Threads, ThreadMoves(t) PROVE FileInv'
  <2>1. /\ at[t] = "app"
        /\ t \notin leaving \/ stage = "finished"
        /\ \/ phase[t] = "init" /\ t \notin leaving /\ phase' = [phase EXCEPT ![t] = "live"]
           \/ phase[t] # "over" /\ phase' = [phase EXCEPT ![t] = "over"]
        /\ ender' = ender \/ (ender = t /\ ender' = NoThread)
        /\ UNCHANGED <<at, leaving, stage, fini, setup, fini_mpi_called, in_shutdown, known, counting, called_process_shutdown>>
    BY <1>6 DEF ThreadMoves, Monitor!StartThread, Monitor!ThreadOver, At, clientVars, dataVars, stateVars
  <2>2. stage' = "gone" \/ ShutdownInv'
    BY <1>0, <2>1 DEF ShutdownInv
  <2>3. ASSUME NEW u \in Threads PROVE DataInv(u)'
    BY <1>0, <2>1 DEF DataInv, Starting, Beginning, Closed, ShutdownInv
  <2>4. ASSUME NEW u \in Threads PROVE CutOffInv(u)'
    BY <1>0, <2>1 DEF CutOffInv, DataInv, Starting
  <2>5. NoSignalInv'
    BY <1>0, <2>1 DEF NoSignalInv, DataInv, Starting, Beginning, ShutdownInv
  <2> QED
    BY <2>2, <2>3, <2>4, <2>5 DEF FileInv
<1>7. ASSUME NEW t \in Threads, Exit(t) PROVE FileInv'
  <2>1. /\ phase[t] = "live" /\ stage = "running" /\ stage' = "ending" /\ ender' = t /\ leaving' = leaving \cup {t}
        /\ UNCHANGED <<at, phase, fini, setup, fini_mpi_called, in_shutdown, known, counting, called_process_shutdown>>
    BY <1>7 DEF Exit, Monitor!EndProcess, clientVars, dataVars, stateVars
  <2>2. stage' = "gone" \/ ShutdownInv'
    BY <1>0, <2>1 DEF ShutdownInv
  <2>3. ASSUME NEW u \in Threads PROVE DataInv(u)'
    BY <1>0, <2>1 DEF DataInv, Starting, Beginning, Closed, ShutdownInv
  <2>4. ASSUME NEW u \in Threads PROVE CutOffInv(u)'
    BY <1>0, <2>1 DEF CutOffInv, DataInv, Starting
  <2>5. NoSignalInv'
    BY <1>0, <2>1 DEF NoSignalInv, DataInv, Starting, Beginning, ShutdownInv
  <2> QED
    BY <2>2, <2>3, <2>4, <2>5 DEF FileInv
<1>8. ASSUME NEW t \in Threads, FatalSignal(t) PROVE FileInv'
  <2>1. /\ at' = [at EXCEPT ![t] = "app"] /\ leaving' = leaving \cup {t} /\ in_shutdown' = in_shutdown \ {t}
        /\ setup.trouble
        /\ \/ stage = "running" /\ stage' = "ending" /\ ender' = t
           \/ stage \in {"ending", "finishing"} /\ stage' = stage /\ ender = t /\ ender' = NoThread
        /\ UNCHANGED <<setup, fini_mpi_called, phase, fini, known, counting>>
    BY <1>8 DEF FatalSignal, Monitor!EndProcess, Monitor!Abandon, Goto, clientVars, dataVars, stateVars
  <2>2. stage' = "gone" \/ ShutdownInv'
    BY <1>0, <2>1 DEF ShutdownInv
  <2>3. ASSUME NEW u \in Threads PROVE DataInv(u)'
    BY <1>0, <2>1 DEF DataInv, Starting, Beginning, Closed, ShutdownInv
  <2>4. ASSUME NEW u \in Threads PROVE CutOffInv(u)'
    BY <1>0, <2>1 DEF CutOffInv, DataInv, Starting
  <2>5. NoSignalInv'
    BY <1>0, <2>1 DEF NoSignalInv, DataInv, Starting, Beginning, ShutdownInv
  <2> QED
    BY <2>2, <2>3, <2>4, <2>5 DEF FileInv
<1> QED
  BY <1>1, <1>2, <1>3, <1>4, <1>5, <1>6, <1>7, <1>8

\* The file of a thread is written when its counters have stopped.
LEMMA WrittenFinal ==
  ASSUME TableInv, KillInv, FileInv, stage # "gone", NEW w \in Threads, at[w] = "write",
         NEW t \in Threads, t \in counting
  PROVE  \/ t \notin in_shutdown /\ (fini[t] = 0 \/ at[t] = "stop")
         \/ setup.trouble /\ fini_mpi_called /\ stage # "running"
<1>1. w # t /\ w \in in_shutdown
  BY DEF FileInv, DataInv, Closed
<1>2. (w = Main /\ fini_mpi_called) \/ (w = ender /\ stage = "finishing")
  BY <1>1 DEF FileInv, ShutdownInv
<1>3. fini[t] \in Nat /\ Main \in Threads
  BY ThreadsAssumption DEF KillInv, OrderInv
<1>4. CASE t \in in_shutdown
  <2>1. (t = Main /\ fini_mpi_called) \/ (t = ender /\ stage = "finishing")
    BY <1>4 DEF FileInv, ShutdownInv
  <2>2. fini_mpi_called /\ stage = "finishing"
    BY <1>1, <1>2, <2>1
  <2>3. PICK o \in {w, t} : o # Main
    BY <1>1
  <2>4. CASE ~setup.trouble
    <3>1. fini[o] > 0
      BY <1>1, <1>4, <2>3, <2>4 DEF FileInv, NoSignalInv
    <3>2. o \notin counting
      BY <1>1, <1>4, <2>3, <2>4, <3>1 DEF FileInv, NoSignalInv
    <3>3. o = w
      BY <2>3, <3>2
    <3> QED
      BY <1>1, <2>3, <2>4, <3>3 DEF FileInv, NoSignalInv
  <2> QED
    BY <2>2, <2>4
<1>5. CASE t \notin in_shutdown /\ fini[t] > 0 /\ at[t] # "stop"
  <2>1. setup.trouble /\ stage # "running" /\ ender \in {t, NoThread}
    BY <1>5 DEF FileInv, CutOffInv
  <2>2. w # ender
    BY <1>1, <2>1, ThreadsAssumption
  <2> QED
    BY <1>2, <2>1, <2>2
<1> QED
  BY <1>3, <1>4, <1>5

\* print_process_stats: the file of a thread is written when its counters have stopped,
\* or while they have not been stopped by anyone, for any threads that leave in any order
\* (see FilesAreFinal for the one exception).
THEOREM WrittenWhenFinal == Spec => FilesAreFinal
<1> DEFINE Final ==
             \A i \in Slots : \A t \in Threads :
               files'[i] = t /\ files[i] # t =>
                 t \notin counting \/ (t \notin in_shutdown /\ (fini[t] = 0 \/ at[t] = "stop"))
                 \/ (setup.trouble /\ fini_mpi_called /\ stage # "running")
           Inv == outcome = "running" => FileInv
<1>1. Init => Inv
  <2> SUFFICES ASSUME Init PROVE FileInv
    OBVIOUS
  <2>1. /\ stage = "running" /\ in_shutdown = {} /\ fini = [t \in Threads |-> 0] /\ counting \subseteq {Parent}
        /\ known = {} /\ at = [t \in Threads |-> IF t = Main THEN "process init" ELSE "app"]
        /\ Parent \notin Threads
    BY ThreadsAssumption DEF Init, Monitor!Init
  <2> QED
    BY <2>1 DEF FileInv, ShutdownInv, DataInv, CutOffInv, NoSignalInv, Closed
<1>2. TableInv /\ EndingInv /\ Inv /\ [Next]_vars => Inv'
  <2> SUFFICES ASSUME TableInv, EndingInv, Inv, [Next]_vars, outcome' = "running" PROVE FileInv'
    OBVIOUS
  <2>1. CASE UNCHANGED vars
    BY <2>1 DEF vars, monitorVars, dataVars, stateVars, endVars, FileInv, ShutdownInv, DataInv, CutOffInv, NoSignalInv
  <2>2. CASE Next
    <3>1. outcome = "running" /\ stage # "gone"
      BY <2>2, NextRuns
    <3>2. KillInv /\ FileInv /\ Main \in Threads
      BY <3>1, ThreadsAssumption DEF EndingInv
    <3> QED
      BY <2>2, <3>1, <3>2, BeginningFiles, ShutdownFiles, CallbackFiles DEF Next, PapiexStep
  <2> QED
    BY <2>1, <2>2
<1>3. TableInv /\ EndingInv /\ Inv /\ [Next]_vars => [Final]_vars
  <2> SUFFICES ASSUME TableInv, EndingInv, Inv, Next PROVE Final
    OBVIOUS
  <2>1. outcome = "running" /\ stage # "gone" /\ KillInv /\ FileInv
    BY NextRuns DEF EndingInv
  <2> SUFFICES ASSUME NEW i \in Slots, NEW t \in Threads, files'[i] = t, files[i] # t, t \in counting
               PROVE  \/ t \notin in_shutdown /\ (fini[t] = 0 \/ at[t] = "stop")
                      \/ setup.trouble /\ fini_mpi_called /\ stage # "running"
    OBVIOUS
  <2>2. \E w \in Threads : at[w] = "write"
    <3>1. files' # files
      OBVIOUS
    <3>2. \E w \in Threads : WriteThread(w)
      BY <3>1 DEF Next, PapiexStep, ProcessInit, monitor_fini_mpi, ThreadInit, TakeLock, Grow, StoreEntry, CountEntry,
           StartCounting, StopCounting, ThreadFinish, CheckShutdown, SetShutdown, OutputPaths, CountThreads,
           ReportComplete, RunScript, MainBegins, monitor_fini_process, CallbacksReturned,
           ProcessGone, monitor_init_thread, monitor_fini_thread, ThreadMoves, Exit, FatalSignal, clientVars, reportVars
    <3> QED
      BY <3>2 DEF WriteThread, At
  <2> QED
    BY <2>1, <2>2, WrittenFinal
<1>4. Spec => []EndingInv
  BY EndingInvariance
<1> QED
  BY TableInvariance, <1>1, <1>2, <1>3, <1>4, PTL DEF Spec, FilesAreFinal
=============================================================================
