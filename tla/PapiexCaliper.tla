--------------------------- MODULE PapiexCaliper ---------------------------
(***************************************************************************)
(* The calipers of papiex: papiex_start, papiex_stop and papiex_accum of   *)
(* papiex.c, called by the program or by compiler instrumentation (gcc.c,  *)
(* pathscale.c), and the time the generated I/O wrappers add up.           *)
(*                                                                         *)
(* A caliper adds up cycles; the other counters of a point follow the same *)
(* assignments. LIBPAPIEX_ERROR ends the process (papiex_internal.h:44).   *)
(***************************************************************************)
EXTENDS Integers, Sequences, FiniteSets

CONSTANTS
  Threads,
  Functions,     \* functions compiled with -finstrument-functions
  Units,         \* program units compiled with Pathscale instrumentation, one loop or call each
  MaxCalipers,   \* PAPIEX_MAX_CALIPERS
  MaxStack,      \* bound: nesting of instrumented and of wrapped calls
  Second,        \* reads are skipped until then if the counters have the zero-counts bug
  Programs       \* what a program does: [mode, keys, mpx, threads, strangers, ends, time].
                 \* mode is "user" for calls of the three operations, "io" for I/O calls, and
                 \* "gnu", "loop" or "func" for instrumentation; strangers are threads that
                 \* monitor does not announce to papiex; ends says if threads shut down and
                 \* if they fork; time bounds the cycles of a thread

ASSUME NatAssumption ==
  MaxCalipers \in Nat \ {0} /\ MaxStack \in Nat /\ Second \in Nat
ASSUME FunctionsAssumption == "junk" \notin Functions

Program == [mode : {"user", "io", "gnu", "loop", "func"}, keys : {"own", "any"}, mpx : BOOLEAN,
            threads : SUBSET Threads, strangers : SUBSET Threads,
            ends : SUBSET {"shut", "fork"}, time : Nat]

ASSUME ProgramsAssumption == Programs \subseteq Program

VARIABLES
  program,   \* the member of Programs that runs
  outcome,   \* "running", or the error papiex ended the process with
  stage,     \* of each thread: thread_data is NULL ("stranger"), it counts, its shutdown routine
             \* is over ("shut"), or it is a thread of the parent ("gone")
  gate,      \* papiex_gcc_enable, papiex_pathscale_enable, papiex_ioprof_gate
  clock,     \* each thread's cycles
  cal,       \* thread->data[]
  max_used,  \* thread->max_caliper_used
  htab,      \* thread->htab: the key of a function to its point, 0 when it is not found
  table,     \* thread->htab: not created yet ("none"), "made" or "destroyed"
  calls,     \* the instrumented calls each thread is inside of
  inherited, \* how many of them the parent made before it forked
  pu,        \* loops[0] or calls[0] of each unit: 0 without a point, negative before its first
             \* entry; and the thread that called the init hook
  total_points,
  seen,      \* inside a first entry: the unit whose sign a thread has tested
  entered,   \* the units each thread has started
  io,        \* the wrapped calls each thread is inside of
  mutex,     \* papiex_ioprof_perthread_mutex
  ioprof,    \* thread->papiex_ioprof, papiex_mpiprof and papiex_mpisyncprof
  mpiprof,
  mpisyncprof,
  spent,     \* cycles between start and stop of each point
  exact,     \* no read of this point was skipped; otherwise its cyc means nothing
  io_spent   \* cycles inside I/O calls

caliper == <<outcome, cal, max_used, exact>>
hooks == <<htab, table, calls, inherited, pu, total_points, seen, entered>>
wrapper == <<io, mutex, ioprof, mpiprof, mpisyncprof, io_spent>>
vars == <<program, stage, gate, clock, caliper, hooks, wrapper, spent>>

Point == 0 .. MaxCalipers - 1
Unused == [depth |-> 0, cyc |-> 0, tmp |-> 0]
Key == Functions \cup {"junk"}
Mode(m) == outcome = "running" /\ program.mode = m
Live == {t \in program.threads : stage[t] # "gone"}
HasData(t) == stage[t] # "stranger"

\* What papiex_thread_init_routine leaves: zeroed data with point 0 started.
Started == [t \in Threads |-> [p \in Point |-> IF p = 0 THEN [Unused EXCEPT !.depth = 1] ELSE Unused]]
Zero == [t \in Threads |-> 0]
NoPoint == [t \in Threads |-> [p \in Point |-> 0]]
NoKey == [t \in Threads |-> [k \in Key |-> 0]]
Readable == [t \in Threads |-> [p \in Point |-> p # 0 \/ ~program.mpx]]

\* After thread init of all threads but the strangers.
Init ==
  /\ program \in Programs
  /\ outcome = "running" /\ gate = TRUE
  /\ stage = [t \in Threads |-> IF t \in program.strangers THEN "stranger" ELSE "counted"]
  /\ clock = Zero
  /\ cal = Started /\ max_used = Zero /\ exact = Readable
  /\ htab = NoKey /\ table = [t \in Threads |-> "none"]
  /\ calls = [t \in Threads |-> <<>>] /\ inherited = Zero
  /\ pu = [u \in Units |-> [point |-> 0, by |-> {}]]
  /\ entered = [t \in Threads |-> {}]
  /\ total_points = [t \in Threads |-> 1]
  /\ seen = [t \in Threads |-> {}]
  /\ io = [t \in Threads |-> <<>>]
  /\ mutex = [t \in Threads |-> FALSE]
  /\ ioprof = Zero /\ mpiprof = Zero /\ mpisyncprof = Zero
  /\ spent = NoPoint
  /\ io_spent = Zero

\* The program computes for a cycle.
Tick(t) ==
  /\ outcome = "running" /\ t \in Live /\ clock[t] < program.time
  /\ clock' = [clock EXCEPT ![t] = @ + 1]
  /\ spent' = [spent EXCEPT ![t] = [p \in Point |-> @[p] + cal[t][p].depth]]
  /\ io_spent' = [io_spent EXCEPT ![t] = IF \E i \in 1 .. Len(io[t]) : io[t][i].kind = "io" THEN @ + 1 ELSE @]
  /\ UNCHANGED <<program, stage, gate, caliper, hooks, io, mutex, ioprof, mpiprof, mpisyncprof>>

-----------------------------------------------------------------------------
(* The three operations on a point *)

Error(what) == outcome' = what /\ UNCHANGED <<cal, max_used, exact>>
Ignored == UNCHANGED caliper

\* PAPI_get_thr_specific gives the thread-local thread_data.
NoData(t) == stage[t] = "stranger" /\ Error("noData")

\* What PAPI_read_ts leaves in the caller's variable: the time, or what was there
\* before when the call is skipped because of the zero-counts bug, or fails, with a
\* warning, because the thread's event set has been destroyed.
Skipped(t) == (program.mpx /\ clock[t] <= Second) \/ stage[t] = "shut"
ReadTs(t) == IF Skipped(t) THEN {0, program.time} ELSE {clock[t]}

papiex_start(t, p) ==
  \/ NoData(t)
  \/ HasData(t) /\ p < 0 /\ Error("range")
  \/ HasData(t) /\ p >= MaxCalipers /\ Ignored
  \/ HasData(t) /\ p \in Point /\ cal[t][p].depth # 0 /\ Error("inUse")
  \/ /\ HasData(t) /\ p \in Point /\ cal[t][p].depth = 0
     /\ cal' = [cal EXCEPT ![t][p].depth = @ + 1, ![t][p].tmp = IF Skipped(t) THEN @ ELSE clock[t]]
     /\ max_used' = [max_used EXCEPT ![t] = IF @ <= p THEN p ELSE @]
     /\ exact' = [exact EXCEPT ![t][p] = @ /\ ~Skipped(t)]
     /\ UNCHANGED outcome

Released_Kept(depth) == depth
Released(depth) == depth - 1

papiex_stop(t, p) ==
  \/ NoData(t)
  \/ HasData(t) /\ p < 0 /\ Error("range")
  \/ HasData(t) /\ p >= MaxCalipers /\ Ignored
  \/ HasData(t) /\ p \in Point /\ cal[t][p].depth = 0 /\ Error("notInUse")
  \/ /\ HasData(t) /\ p \in Point /\ cal[t][p].depth # 0
     /\ \E now \in ReadTs(t) :
          cal' = [cal EXCEPT ![t][p].depth = Released(@),
                             ![t][p].cyc = IF exact[t][p] /\ ~Skipped(t) THEN @ + now - cal[t][p].tmp ELSE now]
     /\ exact' = [exact EXCEPT ![t][p] = @ /\ ~Skipped(t)]
     /\ UNCHANGED <<max_used, outcome>>

\* A pass over the point ends and the next one begins.
NextPass_NotRebased(tmp, now) == tmp
NextPass(tmp, now) == now

papiex_accum(t, p) ==
  \/ NoData(t)
  \/ HasData(t) /\ p <= 0 /\ Error("range")
  \/ HasData(t) /\ p >= MaxCalipers /\ Ignored
  \/ HasData(t) /\ p \in Point \ {0} /\ cal[t][p].depth = 0 /\ Error("notInUse")
  \/ /\ HasData(t) /\ p \in Point \ {0} /\ cal[t][p].depth # 0
     /\ \E now \in ReadTs(t) :
          cal' = [cal EXCEPT ![t][p].tmp = NextPass(@, now),
                             ![t][p].cyc = IF exact[t][p] /\ ~Skipped(t) THEN @ + now - cal[t][p].tmp ELSE now]
     /\ exact' = [exact EXCEPT ![t][p] = @ /\ ~Skipped(t)]
     /\ UNCHANGED <<max_used, outcome>>

\* The program calls them itself. Point 0 is reserved (papiex_start.3:47).
UserPoint == (-1 .. MaxCalipers) \ {0}
UserCall(t) ==
  /\ Mode("user") /\ t \in Live
  /\ \E p \in UserPoint : papiex_start(t, p) \/ papiex_stop(t, p) \/ papiex_accum(t, p)
  /\ UNCHANGED <<program, stage, gate, clock, hooks, wrapper, spent>>
-----------------------------------------------------------------------------
(* -finstrument-functions (gcc.c) *)

\* The bytes hsearch_r compares: gcc.c:65 ignores the pointer ultohexstr
\* returns, so the key starts with whatever the stack holds. If those bytes are
\* the same at every call and not a zero the key is the function's own.
KeyOf(f) == IF program.keys = "own" THEN {f} ELSE {f, "junk"}

HasRoom(t) == max_used[t] + 1 < MaxCalipers

\* hsearch_r looks into a table that hcreate_r has not made or hdestroy_r has
\* freed: the program does not survive it.
NoTable == Error("noTable")

NewPoint_First(t) == 1
NewPoint(t) == max_used[t] + 1

__cyg_profile_func_enter(t, f) ==
  /\ Mode("gnu") /\ t \in Live /\ Len(calls[t]) < MaxStack
  /\ calls' = [calls EXCEPT ![t] = Append(@, f)]
  /\ \/ ~gate /\ Ignored /\ UNCHANGED <<htab, table>>
     \/ gate /\ NoData(t) /\ UNCHANGED <<htab, table>>
     \/ gate /\ HasData(t) /\ table[t] = "destroyed" /\ NoTable /\ UNCHANGED <<htab, table>>
     \/ /\ gate /\ HasData(t) /\ table[t] # "destroyed" /\ table' = [table EXCEPT ![t] = "made"]
        /\ \E k \in KeyOf(f) :
             \/ htab[t][k] # 0 /\ papiex_start(t, htab[t][k]) /\ UNCHANGED htab
             \/ htab[t][k] = 0 /\ ~HasRoom(t) /\ Ignored /\ UNCHANGED htab
             \/ htab[t][k] = 0 /\ HasRoom(t)
                /\ htab' = [htab EXCEPT ![t][k] = NewPoint(t)]
                /\ papiex_start(t, NewPoint(t))
  /\ UNCHANGED <<program, stage, gate, clock, inherited, pu, total_points, seen, entered, wrapper, spent>>

Callee(t) == calls[t][Len(calls[t])]
Return(t) ==
  /\ calls' = [calls EXCEPT ![t] = SubSeq(@, 1, Len(@) - 1)]
  /\ inherited' = [inherited EXCEPT ![t] = IF @ = Len(calls[t]) THEN @ - 1 ELSE @]
\* The call returns, unless papiex has ended the process in its exit hook.
CallReturns(t) == IF outcome' = "running" THEN Return(t) ELSE UNCHANGED <<calls, inherited>>

__cyg_profile_func_exit(t) ==
  /\ Mode("gnu") /\ t \in Live /\ calls[t] # <<>>
  /\ \/ ~gate /\ Ignored
     \/ gate /\ NoData(t)
     \/ gate /\ HasData(t) /\ table[t] # "made" /\ NoTable
     \/ gate /\ HasData(t) /\ table[t] = "made" /\ \E k \in KeyOf(Callee(t)) :
          \/ htab[t][k] # 0 /\ papiex_stop(t, htab[t][k])
          \/ htab[t][k] = 0 /\ Error("notFound")
  /\ CallReturns(t)
  /\ UNCHANGED <<program, stage, gate, clock, htab, table, pu, total_points, seen, entered, wrapper, spent>>

\* papiex_gcc_set_gate(0) and the others, when the process shuts down.
CloseGate ==
  /\ outcome = "running" /\ gate /\ program.mode # "user"
  /\ gate' = FALSE
  /\ UNCHANGED <<program, stage, clock, caliper, hooks, wrapper, spent>>

-----------------------------------------------------------------------------
(* Pathscale instrumentation (pathscale.c). A unit is initialised once, by *)
(* the thread that first runs it; total_points is a thread-local variable. *)
(* A unit with several loops or calls takes that many numbers in a row, as *)
(* several units do.                                                       *)

Pathscale(t) == outcome = "running" /\ program.mode \in {"loop", "func"} /\ t \in Live /\ seen[t] = {}

\* __profile_loop_init, __profile_call_init
UnitInit(t, u) ==
  /\ Pathscale(t) /\ pu[u].by = {}
  /\ \/ gate /\ NoData(t) /\ UNCHANGED <<pu, total_points>>
     \/ /\ ~gate \/ (HasData(t) /\ total_points[t] + 1 > MaxCalipers)
        /\ pu' = [pu EXCEPT ![u].by = {t}]
        /\ Ignored /\ UNCHANGED total_points
     \/ /\ gate /\ HasData(t) /\ total_points[t] + 1 <= MaxCalipers
        /\ pu' = [pu EXCEPT ![u] = [point |-> -total_points[t], by |-> {t}]]
        /\ total_points' = [total_points EXCEPT ![t] = @ + 1]
        /\ Ignored
  /\ UNCHANGED <<program, stage, gate, clock, htab, table, calls, inherited, seen, entered, wrapper, spent>>

LoopInit(t, u) == program.mode = "loop" /\ UnitInit(t, u)
CallInit(t, u) == program.mode = "func" /\ UnitInit(t, u)

\* __profile_loop, __profile_call_entry up to the test of the sign
UnitEntry(t, u) ==
  /\ Pathscale(t) /\ pu[u].by # {} /\ Len(calls[t]) < MaxStack
  /\ calls' = [calls EXCEPT ![t] = Append(@, u)]
  /\ \/ (~gate \/ pu[u].point = 0) /\ Ignored /\ UNCHANGED <<seen, entered>>
     \/ gate /\ pu[u].point < 0 /\ Ignored /\ seen' = [seen EXCEPT ![t] = {u}] /\ UNCHANGED entered
     \/ /\ gate /\ pu[u].point > 0 /\ papiex_start(t, pu[u].point)
        /\ entered' = [entered EXCEPT ![t] = IF outcome' = "running" THEN @ \cup {u} ELSE @]
        /\ UNCHANGED seen
  /\ UNCHANGED <<program, stage, gate, clock, htab, table, inherited, pu, total_points, wrapper, spent>>

\* pu->loops[id] = -pu->loops[id]; papiex_start(pu->loops[id], label)
FirstEntry(t) ==
  /\ outcome = "running"
  /\ \E u \in seen[t] :
       /\ pu' = [pu EXCEPT ![u].point = -@]
       /\ papiex_start(t, -pu[u].point)
       /\ entered' = [entered EXCEPT ![t] = IF outcome' = "running" THEN @ \cup {u} ELSE @]
  /\ seen' = [seen EXCEPT ![t] = {}]
  /\ UNCHANGED <<program, stage, gate, clock, htab, table, calls, inherited, total_points, wrapper, spent>>

ProfileLoop(t, u) == program.mode = "loop" /\ UnitEntry(t, u)
ProfileCallEntry(t, u) == program.mode = "func" /\ UnitEntry(t, u)

\* __profile_loop_iter: the pass of the loop ends, another begins.
ProfileLoopIter(t) ==
  /\ Pathscale(t) /\ program.mode = "loop" /\ calls[t] # <<>> /\ gate /\ pu[Callee(t)].point # 0
  /\ papiex_accum(t, pu[Callee(t)].point)
  /\ UNCHANGED <<program, stage, gate, clock, hooks, wrapper, spent>>

\* A loop is left: there is no hook for it.
LoopLeft(t) ==
  /\ Pathscale(t) /\ program.mode = "loop" /\ calls[t] # <<>>
  /\ Return(t)
  /\ UNCHANGED <<program, stage, gate, clock, caliper, htab, table, pu, total_points, seen, entered, wrapper, spent>>

ProfileCallExit(t) ==
  /\ Pathscale(t) /\ program.mode = "func" /\ calls[t] # <<>>
  /\ IF ~gate \/ pu[Callee(t)].point = 0 THEN Ignored ELSE papiex_stop(t, pu[Callee(t)].point)
  /\ CallReturns(t)
  /\ UNCHANGED <<program, stage, gate, clock, htab, table, pu, total_points, seen, entered, wrapper, spent>>

-----------------------------------------------------------------------------
(* The wrappers generated for I/O and thread synchronisation (makewraplib.pl), *)
(* which time only the outermost call of a thread, as fwrite may call write;   *)
(* and those for MPI calls, which time every call. Five MPI calls that wait    *)
(* for other processes also count as synchronisation (mpiwrap_special.c). The  *)
(* calls of a thread without data are not timed, and are left out.             *)

MayTime_Nested(t) == gate
MayTime(t) == gate /\ ~mutex[t]

Enter(t, kind, started) ==
  /\ Mode("io") /\ t \in Live /\ HasData(t) /\ Len(io[t]) < MaxStack
  /\ io' = [io EXCEPT ![t] = Append(@, [kind |-> kind, started |-> started, start |-> clock[t]])]
  /\ UNCHANGED <<program, stage, gate, clock, caliper, hooks, ioprof, mpiprof, mpisyncprof, spent, io_spent>>

IoEnter(t) == Enter(t, "io", MayTime(t)) /\ mutex' = [mutex EXCEPT ![t] = @ \/ MayTime(t)]
MpiEnter(t, kind) == Enter(t, kind, gate) /\ UNCHANGED mutex

OtherMpiCall(t) == MpiEnter(t, "mpi")
MPI_Barrier(t) == MpiEnter(t, "sync")
MPI_Wait(t) == MpiEnter(t, "sync")
MPI_Waitall(t) == MpiEnter(t, "sync")
MPI_Waitany(t) == MpiEnter(t, "sync")
MPI_Waitsome(t) == MpiEnter(t, "sync")

InCall(t, kinds) == io[t] # <<>> /\ io[t][Len(io[t])].kind \in kinds
\* The time the ending call adds; none when the gate was closed at its start or is now.
Timed(t) == io[t][Len(io[t])].started /\ gate
Elapsed(t) == IF Timed(t) THEN clock[t] - io[t][Len(io[t])].start ELSE 0

IoLeave(t) ==
  /\ outcome = "running" /\ InCall(t, {"io"})
  /\ io' = [io EXCEPT ![t] = SubSeq(@, 1, Len(@) - 1)]
  /\ mutex' = [mutex EXCEPT ![t] = @ /\ ~Timed(t)]
  /\ ioprof' = [ioprof EXCEPT ![t] = @ + Elapsed(t)]
  /\ UNCHANGED <<program, stage, gate, clock, caliper, hooks, mpiprof, mpisyncprof, spent, io_spent>>

MpiLeave(t) ==
  /\ outcome = "running" /\ InCall(t, {"mpi", "sync"})
  /\ io' = [io EXCEPT ![t] = SubSeq(@, 1, Len(@) - 1)]
  /\ mpiprof' = [mpiprof EXCEPT ![t] = @ + Elapsed(t)]
  /\ mpisyncprof' = [mpisyncprof EXCEPT ![t] = IF InCall(t, {"sync"}) THEN @ + Elapsed(t) ELSE @]
  /\ UNCHANGED <<program, stage, gate, clock, caliper, hooks, mutex, ioprof, spent, io_spent>>

MpiCall(t) ==
  \/ OtherMpiCall(t) \/ MPI_Barrier(t) \/ MPI_Wait(t) \/ MPI_Waitall(t) \/ MPI_Waitany(t)
  \/ MPI_Waitsome(t) \/ MpiLeave(t)

-----------------------------------------------------------------------------
(* Threads and processes that end and begin inside the program *)

\* papiex_thread_shutdown_routine, in the thread's cleanup routine or, at any moment
\* of it, in the handler of monitor's shootdown signal, after which it goes on. The
\* gate is closed later. The thread keeps its thread_data.
ThreadShutdown(t) ==
  /\ outcome = "running" /\ "shut" \in program.ends /\ t \in Live /\ stage[t] = "counted"
  /\ papiex_stop(t, 0)
  /\ stage' = [stage EXCEPT ![t] = "shut"]
  /\ htab' = [htab EXCEPT ![t] = [k \in Key |-> 0]]
  /\ table' = [table EXCEPT ![t] = IF @ = "made" THEN "destroyed" ELSE @]
  /\ UNCHANGED <<program, gate, clock, calls, inherited, pu, total_points, seen, entered, wrapper, spent>>

\* The thread forks, and from here on the model follows the child: its only thread
\* gets new data in papiex_thread_init_routine, is inside the calls the parent made,
\* and has the numbers that units and total_points had. Left out: a fork inside a
\* hook or a wrapped call (from a signal handler) or after the gate is closed, and
\* the child's new threads.
ForkChild(t) ==
  /\ outcome = "running" /\ "fork" \in program.ends /\ t \in Live /\ gate /\ seen[t] = {} /\ io[t] = <<>>
  /\ stage' = [o \in Threads |-> IF o = t THEN "counted" ELSE "gone"]
  /\ cal' = Started /\ max_used' = Zero /\ exact' = Readable
  /\ htab' = NoKey /\ table' = [o \in Threads |-> "none"]
  /\ calls' = [o \in Threads |-> IF o = t THEN calls[t] ELSE <<>>]
  /\ inherited' = [o \in Threads |-> IF o = t THEN Len(calls[t]) ELSE 0]
  /\ entered' = [o \in Threads |-> {}] /\ seen' = [o \in Threads |-> {}]
  /\ io' = [o \in Threads |-> <<>>] /\ mutex' = [o \in Threads |-> o = t /\ mutex[t]]
  /\ ioprof' = Zero /\ mpiprof' = Zero /\ mpisyncprof' = Zero
  /\ clock' = Zero /\ spent' = NoPoint /\ io_spent' = Zero
  /\ UNCHANGED <<program, outcome, gate, pu, total_points>>

Step(t) ==
  \/ Tick(t) \/ UserCall(t) \/ ThreadShutdown(t) \/ ForkChild(t)
  \/ \E f \in Functions : __cyg_profile_func_enter(t, f)
  \/ __cyg_profile_func_exit(t)
  \/ \E u \in Units : LoopInit(t, u) \/ CallInit(t, u) \/ ProfileLoop(t, u) \/ ProfileCallEntry(t, u)
  \/ FirstEntry(t) \/ ProfileLoopIter(t) \/ LoopLeft(t) \/ ProfileCallExit(t)
  \/ IoEnter(t) \/ IoLeave(t) \/ MpiCall(t)

Next == CloseGate \/ \E t \in Threads : Step(t)

Spec == Init /\ [][Next]_vars
-----------------------------------------------------------------------------
(* Properties *)

\* papiex_start.3:46: "the subsequent passes over that caliper will accumulate
\* the data". At every moment a point holds the cycles its thread spent between
\* start and stop, no more and no less, however start, stop and accum are mixed
\* and nested, unless a read was skipped.
Accounted ==
  \A t \in Threads : \A p \in Point :
    exact[t][p] => cal[t][p].cyc + (IF cal[t][p].depth = 1 THEN clock[t] - cal[t][p].tmp ELSE 0) = spent[t][p]

\* Time in I/O calls is counted once, even if one wrapped function calls
\* another, and nothing is lost while the gate stays open; the time of
\* synchronisation is a part of the time in MPI calls.
TimeCountedOnce ==
  \A t \in Threads :
    /\ ioprof[t] <= io_spent[t]
    /\ mpisyncprof[t] <= mpiprof[t]
    /\ gate /\ io[t] = <<>> => ioprof[t] = io_spent[t] /\ ~mutex[t]

\* "Those must be mapped to addresses" (gcc.c:3): two functions never share a
\* point, nor do two units whose points one thread handed out; nobody gets
\* point 0, which is the thread's own.
SeparatePoints ==
  /\ \A t \in Threads : \A f, g \in Key :
       program.keys = "own" /\ f # g /\ htab[t][f] = htab[t][g] => htab[t][f] = 0
  /\ \A u, v \in Units :
       u # v /\ pu[u].by = pu[v].by /\ pu[u].point \in {pu[v].point, -pu[v].point} => pu[u].point = 0

Twice(t, f) == \E i, j \in 1 .. Len(calls[t]) : i # j /\ calls[t][i] = f /\ calls[t][j] = f
Shared(u) == \E v \in Units \ {u} : pu[v].point # 0 /\ pu[v].point \in {pu[u].point, -pu[u].point}

\* A call the parent made before it forked.
InheritedCall(t) == calls[t] # <<>> /\ Len(calls[t]) <= inherited[t]

\* What makes the instrumentation end the program it measures: a function that
\* calls itself, a function without a point because the table was full, a loop
\* entered again, two units with one point, two threads inside the first entry of a
\* unit; a call from which a fork child returns, or whose loop it goes on with, as
\* the child's data knows nothing of it; a call of gcc's hooks in a thread whose
\* shutdown routine has destroyed the table, while the gate is open; and a thread
\* that papiex has no data of. Nothing else does: the stop of point 0 when a thread
\* shuts down never fails.
KilledOnlyKnown ==
  /\ outcome = "noData" => \E t \in Threads : stage[t] = "stranger"
  /\ outcome = "notInUse" /\ program.mode # "user" /\ program.keys = "own" =>
       \E t \in Threads : InheritedCall(t)
  /\ program.mode = "gnu" /\ program.keys = "own" =>
       /\ outcome # "range"
       /\ outcome = "inUse" => \E t \in Threads : calls[t] # <<>> /\ Twice(t, Callee(t))
       /\ outcome = "notFound" =>
            \E t \in Threads : calls[t] # <<>> /\ htab[t][Callee(t)] = 0 /\ (InheritedCall(t) \/ ~HasRoom(t))
       /\ outcome = "noTable" => \E t \in Threads : stage[t] = "shut" \/ InheritedCall(t)
  /\ program.mode \in {"loop", "func"} =>
       /\ outcome \notin {"notFound", "noTable"}
       /\ outcome = "inUse" => \E t \in Threads : calls[t] # <<>>
            /\ (Callee(t) \in entered[t] \/ Shared(Callee(t)))
       /\ outcome = "range" =>
            \E t \in Threads : calls[t] # <<>> /\ pu[Callee(t)].point < 0 /\ \E o \in Threads \ {t} : Callee(t) \in entered[o]
=============================================================================
