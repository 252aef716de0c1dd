------------------------ MODULE PapiexCaliperProofs ------------------------
(***************************************************************************)
(* Proofs about PapiexCaliper: for any threads, programs, functions, units *)
(* and numbers of points a point holds what its thread spent in it, and    *)
(* the points of different functions and units are different; time in      *)
(* nested wrapped calls is counted once; and the hooks of a compiler end   *)
(* the program only for the errors their frames make possible.             *)
(***************************************************************************)
EXTENDS PapiexCaliper, SequenceTheorems, TLAPS

\* What the accounts are made of. The cycles of a point may mean nothing.
CalType ==
  /\ program \in Program
  /\ clock \in [Threads -> Nat]
  /\ cal \in [Threads -> [Point -> [depth : {0, 1}, cyc : Int, tmp : Int]]]
  /\ exact \in [Threads -> [Point -> BOOLEAN]]
  /\ spent \in [Threads -> [Point -> Int]]
  /\ max_used \in [Threads -> Point]

\* The hooks of gcc hand out the point above the highest one used; it is free.
GccInv ==
  /\ htab \in [Threads -> [Key -> Nat]]
  /\ \A t \in Threads : \A p \in Point : p > max_used[t] => cal[t][p].depth = 0
  /\ \A t \in Threads : \A k \in Key : htab[t][k] <= max_used[t]
  /\ \A t \in Threads : \A f, g \in Key : f # g /\ htab[t][f] = htab[t][g] => htab[t][f] = 0

\* Those of Pathscale count the points a thread hands out, from 1.
PathscaleInv ==
  /\ total_points \in [Threads -> Nat \ {0}]
  /\ pu \in [Units -> [point : Int, by : SUBSET Threads]]
  /\ \A u \in Units : pu[u].by = {} => pu[u].point = 0
  /\ \A u \in Units : \A t \in pu[u].by : -total_points[t] < pu[u].point /\ pu[u].point < total_points[t]
  /\ \A u, v \in Units :
       u # v /\ pu[u].by = pu[v].by /\ pu[u].point \in {pu[v].point, -pu[v].point} => pu[u].point = 0

CaliperInv == CalType /\ Accounted

\* Points are numbers from 0.
LEMMA PointFacts ==
  /\ MaxCalipers \in Nat \ {0} /\ 0 \in Point /\ Point \subseteq Nat
  /\ Unused \in [depth : {0, 1}, cyc : Int, tmp : Int]
  BY NatAssumption DEF Point, Unused

\* The first state satisfies the invariant: point 0 has been started at cycle 0.
LEMMA CaliperInit == Init => CaliperInv
<1> SUFFICES ASSUME Init PROVE CaliperInv
  OBVIOUS
<1> USE PointFacts, ProgramsAssumption DEF Init, Started, Zero, NoPoint, Readable
<1>1. CalType
  BY DEF CalType, Program, Unused
<1>2. Accounted
  BY DEF Accounted, Unused
<1> QED
  BY <1>1, <1>2 DEF CaliperInv

Record == [depth : {0, 1}, cyc : Int, tmp : Int]

\* A point of one thread gets a new record that keeps its account.
LEMMA NewRecord ==
  ASSUME CaliperInv, NEW t \in Threads, NEW p \in Point, NEW c \in Record, NEW e \in BOOLEAN,
         cal' = [cal EXCEPT ![t][p] = c], exact' = [exact EXCEPT ![t][p] = e],
         max_used' \in [Threads -> Point], UNCHANGED <<program, clock, spent>>,
         e => c.cyc + (IF c.depth = 1 THEN clock[t] - c.tmp ELSE 0) = spent[t][p]
  PROVE  CaliperInv'
<1> USE DEF CaliperInv, CalType, Record
<1>1. CalType'
  <2>1. cal' \in [Threads -> [Point -> Record]]
    OBVIOUS
  <2>2. exact' \in [Threads -> [Point -> BOOLEAN]]
    OBVIOUS
  <2> QED
    BY <2>1, <2>2
<1>2. ASSUME NEW u \in Threads, NEW q \in Point, exact'[u][q]
      PROVE  cal'[u][q].cyc + (IF cal'[u][q].depth = 1 THEN clock'[u] - cal'[u][q].tmp ELSE 0) = spent'[u][q]
  <2>1. CASE u = t /\ q = p
    <3>1. cal'[u][q] = c /\ exact'[u][q] = e
      BY <2>1
    <3> QED
      BY <1>2, <2>1, <3>1
  <2>2. CASE ~(u = t /\ q = p)
    <3>1. cal'[u][q] = cal[u][q] /\ exact'[u][q] = exact[u][q]
      BY <2>2
    <3>2. cal[u][q].cyc + (IF cal[u][q].depth = 1 THEN clock[u] - cal[u][q].tmp ELSE 0) = spent[u][q]
      BY <1>2, <3>1 DEF Accounted
    <3> QED
      BY <3>1, <3>2
  <2> QED
    BY <2>1, <2>2
<1> QED
  BY <1>1, <1>2 DEF Accounted

\* Nothing happens to the accounts.
LEMMA SameRecords ==
  ASSUME CaliperInv, UNCHANGED <<cal, max_used, exact, program, clock, spent>>
  PROVE  CaliperInv'
  BY DEF CaliperInv, CalType, Accounted

\* papiex_start keeps the accounts: the new interval begins now.
LEMMA StartKeeps ==
  ASSUME CaliperInv, NEW t \in Threads, NEW p, papiex_start(t, p), UNCHANGED <<program, clock, spent>>
  PROVE  CaliperInv'
<1>1. CASE UNCHANGED <<cal, max_used, exact>>
  BY <1>1, SameRecords
<1>2. CASE p \in Point /\ cal[t][p].depth = 0 /\ ~UNCHANGED <<cal, max_used, exact>>
  <2> DEFINE c == [cal[t][p] EXCEPT !.depth = @ + 1, !.tmp = IF Skipped(t) THEN @ ELSE clock[t]]
             e == exact[t][p] /\ ~Skipped(t)
  <2> USE DEF CaliperInv, CalType, Record
  <2>1. /\ cal' = [cal EXCEPT ![t][p].depth = @ + 1, ![t][p].tmp = IF Skipped(t) THEN @ ELSE clock[t]]
        /\ max_used' = [max_used EXCEPT ![t] = IF @ <= p THEN p ELSE @]
        /\ exact' = [exact EXCEPT ![t][p] = @ /\ ~Skipped(t)]
    BY <1>2 DEF papiex_start, NoData, Error, Ignored, caliper
  <2>2. cal[t][p] \in Record /\ exact[t][p] \in BOOLEAN /\ clock[t] \in Int
    BY <1>2
  <2>3. c \in Record /\ e \in BOOLEAN
    <3>1. (IF Skipped(t) THEN cal[t][p].tmp ELSE clock[t]) \in Int /\ cal[t][p].depth + 1 \in {0, 1}
      BY <1>2, <2>2
    <3>2. e \in BOOLEAN
      BY <2>2
    <3> HIDE DEF e
    <3> QED
      BY <2>2, <3>1, <3>2
  <2>4. cal' = [cal EXCEPT ![t][p] = c] /\ exact' = [exact EXCEPT ![t][p] = e]
    BY <1>2, <2>1, <2>2
  <2>5. max_used' \in [Threads -> Point]
    BY <1>2, <2>1
  <2>6. e => c.cyc + (IF c.depth = 1 THEN clock[t] - c.tmp ELSE 0) = spent[t][p]
    <3>1. exact[t][p] => cal[t][p].cyc = spent[t][p]
      BY <1>2, <2>2 DEF Accounted
    <3> QED
      BY <2>2, <3>1
  <2> HIDE DEF c, e
  <2> QED
    BY <1>2, <2>3, <2>4, <2>5, <2>6, NewRecord
<1> QED
  BY <1>1, <1>2 DEF papiex_start, NoData, Error, Ignored, caliper

\* What a read of the counters gives: the time, or a number that means nothing.
LEMMA ReadGives ==
  ASSUME CaliperInv, NEW t \in Threads, NEW now \in ReadTs(t)
  PROVE  now \in Int /\ (~Skipped(t) => now = clock[t])
  BY DEF ReadTs, CaliperInv, CalType, Program

\* papiex_stop keeps the accounts: the interval that ends is added.
LEMMA StopKeeps ==
  ASSUME CaliperInv, NEW t \in Threads, NEW p, papiex_stop(t, p), UNCHANGED <<program, clock, spent>>
  PROVE  CaliperInv'
<1>1. CASE UNCHANGED <<cal, max_used, exact>>
  BY <1>1, SameRecords
<1>2. CASE p \in Point /\ cal[t][p].depth # 0 /\ ~UNCHANGED <<cal, max_used, exact>>
  <2> USE DEF CaliperInv, CalType, Record
  <2>1. PICK now \in ReadTs(t) :
          /\ cal' = [cal EXCEPT ![t][p].depth = Released(@),
                                ![t][p].cyc = IF exact[t][p] /\ ~Skipped(t) THEN @ + now - cal[t][p].tmp ELSE now]
          /\ exact' = [exact EXCEPT ![t][p] = @ /\ ~Skipped(t)]
          /\ UNCHANGED max_used
    BY <1>2 DEF papiex_stop, NoData, Error, Ignored, caliper
  <2> DEFINE e == exact[t][p] /\ ~Skipped(t)
             c == [cal[t][p] EXCEPT !.depth = Released(@), !.cyc = IF e THEN @ + now - cal[t][p].tmp ELSE now]
  <2>2. now \in Int /\ (~Skipped(t) => now = clock[t])
    BY ReadGives
  <2>3. cal[t][p] \in Record /\ exact[t][p] \in BOOLEAN /\ clock[t] \in Int /\ cal[t][p].depth = 1
    BY <1>2
  <2>4. c \in Record /\ e \in BOOLEAN
    <3>1. e \in BOOLEAN
      BY <2>3
    <3>2. (IF e THEN cal[t][p].cyc + now - cal[t][p].tmp ELSE now) \in Int
      BY <2>2, <2>3, <3>1
    <3>3. Released(cal[t][p].depth) \in {0, 1}
      BY <2>3 DEF Released
    <3> HIDE DEF e
    <3> QED
      BY <2>2, <2>3, <3>1, <3>2, <3>3
  <2>5. cal' = [cal EXCEPT ![t][p] = c] /\ exact' = [exact EXCEPT ![t][p] = e]
    BY <1>2, <2>1 DEF Released
  <2>6. e => c.cyc + (IF c.depth = 1 THEN clock[t] - c.tmp ELSE 0) = spent[t][p]
    <3>1. exact[t][p] => cal[t][p].cyc + (clock[t] - cal[t][p].tmp) = spent[t][p]
      BY <1>2, <2>3 DEF Accounted
    <3> QED
      BY <2>2, <2>3, <3>1 DEF Released
  <2>7. max_used' \in [Threads -> Point]
    BY <2>1
  <2> HIDE DEF c, e
  <2> QED
    BY <1>2, <2>4, <2>5, <2>6, <2>7, NewRecord
<1> QED
  BY <1>1, <1>2 DEF papiex_stop, NoData, Error, Ignored, caliper

\* papiex_accum keeps the accounts: the pass that ends is added and the next begins.
LEMMA AccumKeeps ==
  ASSUME CaliperInv, NEW t \in Threads, NEW p, papiex_accum(t, p), UNCHANGED <<program, clock, spent>>
  PROVE  CaliperInv'
<1>1. CASE UNCHANGED <<cal, max_used, exact>>
  BY <1>1, SameRecords
<1>2. CASE p \in Point /\ cal[t][p].depth # 0 /\ ~UNCHANGED <<cal, max_used, exact>>
  <2> USE DEF CaliperInv, CalType, Record
  <2>1. PICK now \in ReadTs(t) :
          /\ cal' = [cal EXCEPT ![t][p].tmp = NextPass(@, now),
                                ![t][p].cyc = IF exact[t][p] /\ ~Skipped(t) THEN @ + now - cal[t][p].tmp ELSE now]
          /\ exact' = [exact EXCEPT ![t][p] = @ /\ ~Skipped(t)]
          /\ UNCHANGED max_used
    BY <1>2 DEF papiex_accum, NoData, Error, Ignored, caliper
  <2> DEFINE e == exact[t][p] /\ ~Skipped(t)
             c == [cal[t][p] EXCEPT !.tmp = now, !.cyc = IF e THEN @ + now - cal[t][p].tmp ELSE now]
  <2>2. now \in Int /\ (~Skipped(t) => now = clock[t])
    BY ReadGives
  <2>3. cal[t][p] \in Record /\ exact[t][p] \in BOOLEAN /\ clock[t] \in Int /\ cal[t][p].depth = 1
    BY <1>2
  <2>4. c \in Record /\ e \in BOOLEAN
    <3>1. e \in BOOLEAN
      BY <2>3
    <3>2. (IF e THEN cal[t][p].cyc + now - cal[t][p].tmp ELSE now) \in Int
      BY <2>2, <2>3, <3>1
    <3>3. Released(cal[t][p].depth) \in {0, 1}
      BY <2>3 DEF Released
    <3> HIDE DEF e
    <3> QED
      BY <2>2, <2>3, <3>1, <3>2, <3>3
  <2>5. cal' = [cal EXCEPT ![t][p] = c] /\ exact' = [exact EXCEPT ![t][p] = e]
    BY <1>2, <2>1, <2>2, <2>3 DEF NextPass
  <2>6. e => c.cyc + (IF c.depth = 1 THEN clock[t] - c.tmp ELSE 0) = spent[t][p]
    <3>1. exact[t][p] => cal[t][p].cyc + (clock[t] - cal[t][p].tmp) = spent[t][p]
      BY <1>2, <2>3 DEF Accounted
    <3> QED
      BY <2>2, <2>3, <3>1 DEF Released
  <2>7. max_used' \in [Threads -> Point]
    BY <2>1
  <2> HIDE DEF c, e
  <2> QED
    BY <1>2, <2>4, <2>5, <2>6, <2>7, NewRecord
<1> QED
  BY <1>1, <1>2 DEF papiex_accum, NoData, Error, Ignored, caliper

\* A cycle of a thread belongs to all points that are started.
LEMMA TickKeeps ==
  ASSUME CaliperInv, NEW t \in Threads, Tick(t)
  PROVE  CaliperInv'
<1> USE DEF CaliperInv, CalType
<1>1. /\ UNCHANGED <<program, cal, max_used, exact>>
      /\ clock' = [clock EXCEPT ![t] = @ + 1]
      /\ spent' = [spent EXCEPT ![t] = [p \in Point |-> @[p] + cal[t][p].depth]]
  BY DEF Tick, caliper
<1>2. \A p \in Point : spent[t][p] + cal[t][p].depth \in Int
  <2>1. ASSUME NEW p \in Point PROVE spent[t][p] + cal[t][p].depth \in Int
    <3>1. spent[t][p] \in Int /\ cal[t][p].depth \in {0, 1}
      OBVIOUS
    <3> QED
      BY <3>1
  <2> QED
    BY <2>1
<1>3. CalType'
  <2>1. clock' \in [Threads -> Nat]
    BY <1>1
  <2>2. spent' \in [Threads -> [Point -> Int]]
    BY <1>1, <1>2
  <2> QED
    BY <1>1, <2>1, <2>2
<1>4. ASSUME NEW u \in Threads, NEW q \in Point, exact[u][q]
      PROVE  cal[u][q].cyc + (IF cal[u][q].depth = 1 THEN clock'[u] - cal[u][q].tmp ELSE 0) = spent'[u][q]
  <2>1. /\ cal[u][q].depth \in {0, 1} /\ cal[u][q].cyc \in Int /\ cal[u][q].tmp \in Int
        /\ clock[u] \in Int /\ spent[u][q] \in Int
    OBVIOUS
  <2>2. cal[u][q].cyc + (IF cal[u][q].depth = 1 THEN clock[u] - cal[u][q].tmp ELSE 0) = spent[u][q]
    BY <1>4 DEF Accounted
  <2>3. CASE u = t
    <3>1. clock'[u] = clock[u] + 1 /\ spent'[u][q] = spent[u][q] + cal[u][q].depth
      BY <1>1, <2>3
    <3>2. CASE cal[u][q].depth = 1
      BY <2>1, <2>2, <2>3, <3>1, <3>2
    <3>3. CASE cal[u][q].depth = 0
      BY <2>1, <2>2, <2>3, <3>1, <3>3
    <3> QED
      BY <2>1, <3>2, <3>3
  <2>4. CASE u # t
    <3>1. clock'[u] = clock[u] /\ spent'[u][q] = spent[u][q]
      BY <1>1, <2>4
    <3> QED
      BY <2>2, <3>1
  <2> QED
    BY <2>3, <2>4
<1> QED
  BY <1>1, <1>3, <1>4 DEF Accounted

\* The child of a fork begins with new accounts.
LEMMA ForkKeeps ==
  ASSUME CaliperInv, NEW t \in Threads, ForkChild(t)
  PROVE  CaliperInv'
<1> USE PointFacts DEF ForkChild, Started, Zero, NoPoint, Readable
<1>1. CalType'
  <2>1. program \in Program
    BY DEF CaliperInv, CalType
  <2> QED
    BY <2>1 DEF CalType, Program, Unused
<1>2. Accounted'
  BY DEF Accounted, Unused
<1> QED
  BY <1>1, <1>2 DEF CaliperInv

\* Every step of a thread keeps the accounts: a hook or a call does one operation on
\* one point, or leaves the points alone.
LEMMA StepKeeps ==
  ASSUME CaliperInv, NEW t \in Threads, Step(t)
  PROVE  CaliperInv'
<1> USE StartKeeps, StopKeeps, AccumKeeps, SameRecords DEF NoData, NoTable, Error, Ignored, caliper, hooks, wrapper
<1>1. CASE Tick(t)
  BY <1>1, TickKeeps
<1>2. CASE UserCall(t)
  BY <1>2 DEF UserCall
<1>3. ASSUME NEW f \in Functions, __cyg_profile_func_enter(t, f) PROVE CaliperInv'
  BY <1>3 DEF __cyg_profile_func_enter
<1>4. CASE __cyg_profile_func_exit(t)
  BY <1>4 DEF __cyg_profile_func_exit
<1>5. ASSUME NEW u \in Units, LoopInit(t, u) \/ CallInit(t, u) PROVE CaliperInv'
  BY <1>5 DEF LoopInit, CallInit, UnitInit
<1>6. ASSUME NEW u \in Units, ProfileLoop(t, u) \/ ProfileCallEntry(t, u) PROVE CaliperInv'
  BY <1>6 DEF ProfileLoop, ProfileCallEntry, UnitEntry
<1>7. CASE FirstEntry(t)
  BY <1>7 DEF FirstEntry
<1>8. CASE ProfileLoopIter(t)
  BY <1>8 DEF ProfileLoopIter
<1>9. CASE LoopLeft(t)
  BY <1>9 DEF LoopLeft
<1>10. CASE ProfileCallExit(t)
  BY <1>10 DEF ProfileCallExit
<1>11. CASE IoEnter(t)
  BY <1>11 DEF IoEnter, Enter
<1>12. CASE IoLeave(t)
  BY <1>12 DEF IoLeave
<1>13. CASE MpiCall(t)
  BY <1>13 DEF MpiCall, OtherMpiCall, MPI_Barrier, MPI_Wait, MPI_Waitall, MPI_Waitany,
               MPI_Waitsome, MpiEnter, Enter, MpiLeave
<1>14. CASE ThreadShutdown(t)
  BY <1>14 DEF ThreadShutdown
<1>15. CASE ForkChild(t)
  BY <1>15, ForkKeeps
<1> QED
  BY <1>1, <1>2, <1>3, <1>4, <1>5, <1>6, <1>7, <1>8, <1>9, <1>10, <1>11, <1>12, <1>13, <1>14, <1>15 DEF Step

\* Every step keeps the accounts and their types.
LEMMA TypesKept ==
  ASSUME CaliperInv, [Next]_vars
  PROVE  CaliperInv' /\ CalType /\ CalType'
<1>1. CaliperInv'
  <2>1. CASE CloseGate
    BY <2>1, SameRecords DEF CloseGate, caliper
  <2>2. CASE UNCHANGED vars
    BY <2>2, SameRecords DEF vars, caliper
  <2> QED
    BY <2>1, <2>2, StepKeeps DEF Next
<1> QED
  BY <1>1 DEF CaliperInv

\* papiex_start, papiex_stop, papiex_accum: a point holds the cycles its thread spent
\* between start and stop, in every program, however the operations are mixed and
\* whoever calls them, unless a read was skipped.
THEOREM PointsAccounted == Spec => []Accounted
<1>1. CaliperInv /\ [Next]_vars => CaliperInv'
  BY TypesKept
<1>2. CaliperInv => Accounted
  BY DEF CaliperInv
<1> QED
  BY CaliperInit, <1>1, <1>2, PTL DEF Spec

-----------------------------------------------------------------------------
(* The points of different functions and units *)

\* An operation on one point of one thread leaves the points above the highest one
\* used free, and never lowers that one.
LEMMA PointsAbove ==
  ASSUME CalType, GccInv, NEW t \in Threads, NEW p,
         papiex_start(t, p) \/ papiex_stop(t, p) \/ papiex_accum(t, p)
  PROVE  /\ \A u \in Threads : \A q \in Point : q > max_used'[u] => cal'[u][q].depth = 0
         /\ \A u \in Threads : max_used'[u] >= max_used[u]
         /\ papiex_start(t, p) /\ HasData(t) /\ p \in Point /\ cal[t][p].depth = 0 => max_used'[t] >= p
<1>1. /\ \A u \in Threads : max_used[u] \in Int
      /\ \A u \in Threads : \A q \in Point : q > max_used[u] => cal[u][q].depth = 0
      /\ \A q \in Point : q \in Int
  <2>1. \A q \in Point : q \in Int
    BY PointFacts
  <2>2. \A u \in Threads : max_used[u] \in Point
    BY DEF CalType
  <2>3. \A u \in Threads : \A q \in Point : q > max_used[u] => cal[u][q].depth = 0
    BY DEF GccInv
  <2> QED
    BY <2>1, <2>2, <2>3
<1>2. CASE UNCHANGED <<cal, max_used, exact>> /\ ~(papiex_start(t, p) /\ HasData(t) /\ p \in Point /\ cal[t][p].depth = 0)
  <2>1. \A u \in Threads : max_used'[u] = max_used[u]
    BY <1>2
  <2>2. \A u \in Threads : \A q \in Point : cal'[u][q] = cal[u][q]
    BY <1>2
  <2> QED
    BY <1>1, <1>2, <2>1, <2>2
<1>3. CASE papiex_start(t, p) /\ HasData(t) /\ p \in Point /\ cal[t][p].depth = 0
  <2>1. /\ cal' = [cal EXCEPT ![t][p].depth = @ + 1, ![t][p].tmp = IF Skipped(t) THEN @ ELSE clock[t]]
        /\ max_used' = [max_used EXCEPT ![t] = IF @ <= p THEN p ELSE @]
    BY <1>3, NatAssumption DEF papiex_start, NoData, HasData, Point
  <2>2. \A u \in Threads : max_used'[u] \in Int /\ max_used'[u] >= max_used[u] /\ (u = t => max_used'[u] >= p)
    BY <1>1, <1>3, <2>1 DEF CalType
  <2>3. \A u \in Threads : \A q \in Point : ~(u = t /\ q = p) => cal'[u][q] = cal[u][q]
    BY <2>1 DEF CalType
  <2> QED
    BY <1>1, <1>3, <2>2, <2>3
<1>4. CASE p \in Point /\ cal[t][p].depth # 0 /\ ~UNCHANGED <<cal, max_used, exact>>
  <2>1. ~papiex_start(t, p)
    BY <1>4 DEF papiex_start, NoData, Error, Ignored, caliper
  <2>2. /\ UNCHANGED max_used
        /\ \A u \in Threads : \A q \in Point : ~(u = t /\ q = p) => cal'[u][q] = cal[u][q]
    <3>1. CASE papiex_stop(t, p)
      <4>1. PICK now \in ReadTs(t) :
              /\ cal' = [cal EXCEPT ![t][p].depth = Released(@),
                                    ![t][p].cyc = IF exact[t][p] /\ ~Skipped(t) THEN @ + now - cal[t][p].tmp ELSE now]
              /\ UNCHANGED max_used
        BY <1>4, <3>1 DEF papiex_stop, NoData, Error, Ignored, caliper
      <4> QED
        BY <4>1 DEF CalType
    <3>2. CASE papiex_accum(t, p)
      <4>1. PICK now \in ReadTs(t) :
              /\ cal' = [cal EXCEPT ![t][p].tmp = NextPass(@, now),
                                    ![t][p].cyc = IF exact[t][p] /\ ~Skipped(t) THEN @ + now - cal[t][p].tmp ELSE now]
              /\ UNCHANGED max_used
        BY <1>4, <3>2 DEF papiex_accum, NoData, Error, Ignored, caliper
      <4> QED
        BY <4>1 DEF CalType
    <3> QED
      BY <2>1, <3>1, <3>2
  <2>3. p <= max_used[t]
    BY <1>1, <1>4
  <2> QED
    BY <1>1, <1>4, <2>2, <2>3
<1>5. CASE ~UNCHANGED <<cal, max_used, exact>>
  <2>1. CASE papiex_start(t, p)
    <3>1. HasData(t) /\ p \in Point /\ cal[t][p].depth = 0
      BY <1>5, <2>1 DEF papiex_start, NoData, HasData, Error, Ignored, caliper
    <3> QED
      BY <1>3, <2>1, <3>1
  <2>2. CASE papiex_stop(t, p) \/ papiex_accum(t, p)
    <3>1. p \in Point /\ cal[t][p].depth # 0
      <4>1. CASE papiex_stop(t, p)
        BY <1>5, <4>1 DEF papiex_stop, NoData, Error, Ignored, caliper
      <4>2. CASE papiex_accum(t, p)
        BY <1>5, <4>2 DEF papiex_accum, NoData, Error, Ignored, caliper
      <4> QED
        BY <2>2, <4>1, <4>2
    <3> QED
      BY <1>4, <1>5, <3>1
  <2> QED
    BY <2>1, <2>2
<1> QED
  BY <1>2, <1>3, <1>5

\* Such an operation keeps the map of functions to points.
LEMMA OperationKeepsGcc ==
  ASSUME CalType, GccInv, NEW t \in Threads, NEW p,
         papiex_start(t, p) \/ papiex_stop(t, p) \/ papiex_accum(t, p),
         max_used' \in [Threads -> Point], UNCHANGED htab
  PROVE  GccInv'
<1>1. \A u \in Threads : \A k \in Key : htab[u][k] <= max_used'[u]
  <2>1. \A u \in Threads : max_used[u] \in Int /\ max_used'[u] \in Int /\ max_used'[u] >= max_used[u]
    <3>1. \A u \in Threads : max_used[u] \in Point /\ max_used'[u] \in Point
      BY DEF CalType
    <3>2. \A u \in Threads : max_used'[u] >= max_used[u]
      BY PointsAbove
    <3> QED
      BY <3>1, <3>2 DEF Point
  <2>2. \A u \in Threads : \A k \in Key : htab[u][k] \in Int /\ htab[u][k] <= max_used[u]
    BY DEF GccInv
  <2> QED
    BY <2>1, <2>2
<1> QED
  BY <1>1, PointsAbove DEF GccInv

\* __cyg_profile_func_enter: a new function gets the point above, which papiex_start
\* then takes, so no function has it.
LEMMA EnterKeepsGcc ==
  ASSUME CalType, GccInv, CalType', NEW t \in Threads, NEW f \in Functions, __cyg_profile_func_enter(t, f)
  PROVE  GccInv'
<1>1. CASE UNCHANGED <<htab, cal, max_used>>
  BY <1>1 DEF GccInv
<1>2. CASE \E p : papiex_start(t, p) /\ UNCHANGED htab
  BY <1>2, OperationKeepsGcc DEF CalType
<1>3. ASSUME NEW k \in Key, htab[t][k] = 0, HasData(t), HasRoom(t), htab' = [htab EXCEPT ![t][k] = NewPoint(t)],
             papiex_start(t, NewPoint(t))
      PROVE  GccInv'
  <2> DEFINE n == max_used[t] + 1
  <2>1. n \in Point /\ n \in Nat /\ n > max_used[t] /\ NewPoint(t) = n
    <3>1. max_used[t] \in 0 .. MaxCalipers - 1 /\ max_used[t] + 1 < MaxCalipers
      BY <1>3 DEF CalType, HasRoom, Point
    <3> QED
      BY <3>1, NatAssumption DEF NewPoint, Point
  <2> HIDE DEF n
  <2>2. cal[t][n].depth = 0
    BY <2>1 DEF GccInv
  <2>3. max_used'[t] >= n /\ \A u \in Threads : max_used'[u] >= max_used[u]
    BY <1>3, <2>1, <2>2, PointsAbove
  <2>4. htab' \in [Threads -> [Key -> Nat]]
    BY <1>3, <2>1 DEF GccInv
  <2>5. \A u \in Threads : \A g \in Key : htab'[u][g] = IF u = t /\ g = k THEN n ELSE htab[u][g]
    BY <1>3, <2>1 DEF GccInv
  <2>6. \A u \in Threads : \A g \in Key : htab[u][g] <= max_used[u] /\ htab[u][g] \in Int
    BY DEF GccInv
  <2>7. \A u \in Threads : max_used[u] \in Int /\ max_used'[u] \in Int
    <3>1. \A u \in Threads : max_used[u] \in Point /\ max_used'[u] \in Point
      BY DEF CalType
    <3> QED
      BY <3>1 DEF Point
  <2>8. \A u \in Threads : \A g \in Key : htab'[u][g] <= max_used'[u]
    BY <2>1, <2>3, <2>5, <2>6, <2>7
  <2>9. \A g \in Key : g # k => htab'[t][g] # n
    BY <2>1, <2>5, <2>6, <2>7
  <2>10. \A u \in Threads : \A g, h \in Key : g # h /\ htab'[u][g] = htab'[u][h] => htab'[u][g] = 0
    BY <2>5, <2>9 DEF GccInv
  <2>11. \A u \in Threads : \A q \in Point : q > max_used'[u] => cal'[u][q].depth = 0
    BY <1>3, <2>1, PointsAbove
  <2> QED
    BY <2>4, <2>8, <2>10, <2>11 DEF GccInv
<1> QED
  BY <1>1, <1>2, <1>3 DEF __cyg_profile_func_enter, NoData, NoTable, Error, Ignored, caliper, KeyOf, Key

\* The table is destroyed with its thread; that of a child is new, as are its points.
LEMMA EndsKeepGcc ==
  ASSUME CalType, GccInv, CalType', NEW t \in Threads, ThreadShutdown(t) \/ ForkChild(t)
  PROVE  GccInv'
<1>1. CASE ThreadShutdown(t)
  <2>1. htab' = [htab EXCEPT ![t] = [k \in Key |-> 0]] /\ papiex_stop(t, 0)
    BY <1>1 DEF ThreadShutdown
  <2>2. /\ \A u \in Threads : \A q \in Point : q > max_used'[u] => cal'[u][q].depth = 0
        /\ \A u \in Threads : max_used'[u] >= max_used[u]
    BY <2>1, PointsAbove
  <2>3. htab' \in [Threads -> [Key -> Nat]]
    BY <2>1 DEF GccInv
  <2>4. \A u \in Threads : \A k \in Key : htab'[u][k] = IF u = t THEN 0 ELSE htab[u][k]
    BY <2>1 DEF GccInv
  <2>5. \A u \in Threads : max_used[u] \in Nat /\ max_used'[u] \in Nat
    <3>1. \A u \in Threads : max_used[u] \in Point /\ max_used'[u] \in Point
      BY DEF CalType
    <3> QED
      BY <3>1, PointFacts
  <2>6. \A u \in Threads : \A k \in Key : htab[u][k] \in Nat /\ htab[u][k] <= max_used[u]
    BY DEF GccInv
  <2>7. \A u \in Threads : \A k \in Key : htab'[u][k] <= max_used'[u]
    BY <2>2, <2>4, <2>5, <2>6
  <2>8. \A u \in Threads : \A f, g \in Key : f # g /\ htab'[u][f] = htab'[u][g] => htab'[u][f] = 0
    BY <2>4 DEF GccInv
  <2> QED
    BY <2>2, <2>3, <2>7, <2>8 DEF GccInv
<1>2. CASE ForkChild(t)
  BY <1>2, PointFacts DEF ForkChild, Started, Zero, NoKey, GccInv, Unused
<1> QED
  BY <1>1, <1>2

\* Every step keeps the map of functions to points.
LEMMA GccStep ==
  ASSUME CalType, GccInv, CalType', [Next]_vars
  PROVE  GccInv'
<1>0. ASSUME NEW t \in Threads, ThreadShutdown(t) \/ ForkChild(t) PROVE GccInv'
  BY <1>0, EndsKeepGcc
<1> SUFFICES ASSUME NEW t \in Threads, Step(t), ~ThreadShutdown(t), ~ForkChild(t),
                    ~\E f \in Functions : __cyg_profile_func_enter(t, f)
             PROVE  GccInv'
  BY <1>0, EnterKeepsGcc DEF Next, CloseGate, GccInv, caliper, hooks, vars
<1>1. UNCHANGED htab
  BY DEF Step, Tick, UserCall, __cyg_profile_func_exit, LoopInit, CallInit, UnitInit, ProfileLoop,
         ProfileCallEntry, UnitEntry, FirstEntry, ProfileLoopIter, LoopLeft, ProfileCallExit, IoEnter, IoLeave,
         MpiCall, OtherMpiCall, MPI_Barrier, MPI_Wait, MPI_Waitall, MPI_Waitany, MPI_Waitsome, MpiEnter,
         Enter, MpiLeave, hooks
<1>2. \/ UNCHANGED <<cal, max_used, exact>>
      \/ \E p : papiex_start(t, p) \/ papiex_stop(t, p) \/ papiex_accum(t, p)
  BY DEF Step, Tick, UserCall, __cyg_profile_func_exit, LoopInit, CallInit, UnitInit, ProfileLoop,
         ProfileCallEntry, UnitEntry, FirstEntry, ProfileLoopIter, LoopLeft, ProfileCallExit, IoEnter, IoLeave,
         MpiCall, OtherMpiCall, MPI_Barrier, MPI_Wait, MPI_Waitall, MPI_Waitany, MPI_Waitsome, MpiEnter,
         Enter, MpiLeave, NoData, NoTable, Error, Ignored, caliper
<1>3. CASE UNCHANGED <<cal, max_used, exact>>
  BY <1>1, <1>3 DEF GccInv
<1> QED
  BY <1>1, <1>2, <1>3, OperationKeepsGcc DEF CalType

\* UnitInit: a unit gets the next number of its thread, above all it has given.
LEMMA UnitInitKeeps ==
  ASSUME PathscaleInv, NEW t \in Threads, NEW w \in Units, UnitInit(t, w)
  PROVE  PathscaleInv'
<1> USE DEF PathscaleInv
<1>1. pu[w].by = {} /\ pu[w].point = 0
  BY DEF UnitInit
<1>2. CASE pu' = [pu EXCEPT ![w].by = {t}] /\ UNCHANGED total_points
  <2>1. pu'[w].point = 0 /\ pu'[w].by = {t} /\ \A u \in Units \ {w} : pu'[u] = pu[u]
    BY <1>1, <1>2
  <2>2. pu' \in [Units -> [point : Int, by : SUBSET Threads]]
    BY <1>2
  <2> QED
    BY <1>2, <2>1, <2>2
<1>3. CASE pu' = [pu EXCEPT ![w] = [point |-> -total_points[t], by |-> {t}]] /\ total_points' = [total_points EXCEPT ![t] = @ + 1]
  <2> DEFINE n == total_points[t]
  <2>1. n \in Nat \ {0}
    OBVIOUS
  <2>2. pu'[w].point = -n /\ pu'[w].by = {t} /\ \A u \in Units \ {w} : pu'[u] = pu[u]
    BY <1>3
  <2>3. /\ pu' \in [Units -> [point : Int, by : SUBSET Threads]]
        /\ total_points' \in [Threads -> Nat \ {0}]
        /\ \A x \in Threads : total_points'[x] >= total_points[x] /\ total_points[x] \in Int
        /\ total_points'[t] = n + 1
    BY <1>3, <2>1
  <2>4. ASSUME NEW u \in Units \ {w}, pu[u].by = {t} PROVE pu[u].point \notin {n, -n}
    BY <2>1, <2>4
  <2>5. ASSUME NEW u \in Units, NEW x \in pu'[u].by
        PROVE  -total_points'[x] < pu'[u].point /\ pu'[u].point < total_points'[x]
    <3>1. CASE u = w
      BY <2>1, <2>2, <2>3, <2>5, <3>1
    <3>2. CASE u # w
      BY <2>2, <2>3, <2>5, <3>2
    <3> QED
      BY <3>1, <3>2
  <2>6. ASSUME NEW u \in Units, NEW v \in Units, u # v, pu'[u].by = pu'[v].by,
               pu'[u].point \in {pu'[v].point, -pu'[v].point}
        PROVE  pu'[u].point = 0
    BY <2>1, <2>2, <2>4, <2>6
  <2> QED
    BY <2>2, <2>3, <2>5, <2>6
<1>4. CASE UNCHANGED <<pu, total_points>>
  BY <1>4
<1> QED
  BY <1>2, <1>3, <1>4 DEF UnitInit

\* FirstEntry: the sign of a point changes, and nothing else of it.
LEMMA FirstEntryKeeps ==
  ASSUME PathscaleInv, NEW w \in Units, pu' = [pu EXCEPT ![w].point = -@], UNCHANGED total_points
  PROVE  PathscaleInv'
<1> USE DEF PathscaleInv
<1>1. \A u \in Units : /\ pu'[u].by = pu[u].by /\ pu[u].point \in Int
                       /\ pu'[u].point = pu[u].point \/ pu'[u].point = -pu[u].point
  OBVIOUS
<1>2. pu' \in [Units -> [point : Int, by : SUBSET Threads]]
  OBVIOUS
<1>3. ASSUME NEW u \in Units, NEW x \in pu'[u].by
      PROVE  -total_points'[x] < pu'[u].point /\ pu'[u].point < total_points'[x]
  <2>1. x \in Threads /\ -total_points[x] < pu[u].point /\ pu[u].point < total_points[x] /\ total_points[x] \in Int
    BY <1>1, <1>3
  <2> QED
    BY <1>1, <2>1
<1>4. ASSUME NEW u \in Units, NEW v \in Units, u # v, pu'[u].by = pu'[v].by,
             pu'[u].point \in {pu'[v].point, -pu'[v].point}
      PROVE  pu'[u].point = 0
  <2>1. pu[u].point \in {pu[v].point, -pu[v].point}
    <3> DEFINE a == pu[u].point
               b == pu[v].point
    <3>1. a \in Int /\ b \in Int /\ pu'[u].point \in {a, -a} /\ pu'[v].point \in {b, -b}
      BY <1>1
    <3> HIDE DEF a, b
    <3>2. a \in {b, -b}
      BY <1>4, <3>1
    <3> QED
      BY <3>2 DEF a, b
  <2>2. pu[u].by = pu[v].by
    BY <1>1, <1>4
  <2>3. pu[u].point = 0
    BY <1>4, <2>1, <2>2
  <2> QED
    BY <1>1, <2>3
<1> QED
  BY <1>1, <1>2, <1>3, <1>4

\* Every step keeps the numbers of the units.
LEMMA PathscaleStep ==
  ASSUME PathscaleInv, [Next]_vars
  PROVE  PathscaleInv'
<1>1. CASE UNCHANGED <<pu, total_points>>
  BY <1>1 DEF PathscaleInv
<1>2. ASSUME NEW t \in Threads, Step(t), ~UNCHANGED <<pu, total_points>>
      PROVE  \/ \E u \in Units : UnitInit(t, u)
             \/ (\E u \in seen[t] : pu' = [pu EXCEPT ![u].point = -@]) /\ UNCHANGED total_points
  BY <1>2 DEF Step, Tick, UserCall, __cyg_profile_func_enter, __cyg_profile_func_exit, LoopInit, CallInit,
         ProfileLoop, ProfileCallEntry, UnitEntry, FirstEntry, ProfileLoopIter, LoopLeft, ProfileCallExit,
         IoEnter, IoLeave, MpiCall, OtherMpiCall, MPI_Barrier, MPI_Wait, MPI_Waitall, MPI_Waitany,
         MPI_Waitsome, MpiEnter, Enter, MpiLeave, ThreadShutdown, ForkChild, hooks
<1>3. ASSUME NEW u, u \notin Units, pu' = [pu EXCEPT ![u].point = -@], UNCHANGED total_points
      PROVE  PathscaleInv'
  <2>1. pu' = pu
    BY <1>3 DEF PathscaleInv
  <2> QED
    BY <1>3, <2>1 DEF PathscaleInv
<1>4. CASE \E t \in Threads : Step(t)
  BY <1>1, <1>2, <1>3, <1>4, UnitInitKeeps, FirstEntryKeeps
<1> QED
  BY <1>1, <1>4 DEF Next, CloseGate, hooks, vars

\* The first state: no function and no unit has a point.
LEMMA PointsInit == Init => GccInv /\ PathscaleInv
<1> SUFFICES ASSUME Init PROVE GccInv /\ PathscaleInv
  OBVIOUS
<1>1. GccInv
  BY PointFacts DEF Init, Started, Zero, NoKey, GccInv, Unused
<1>2. PathscaleInv
  BY DEF Init, Zero, PathscaleInv
<1> QED
  BY <1>1, <1>2

\* gcc.c and pathscale.c: two functions never share a point, nor do two units whose
\* points one thread handed out, for any number of functions, units, threads and points.
THEOREM PointsSeparate == Spec => []SeparatePoints
<1> DEFINE Inv == CaliperInv /\ GccInv /\ PathscaleInv
<1>1. Init => Inv
  BY CaliperInit, PointsInit
<1>2. Inv /\ [Next]_vars => Inv'
  BY TypesKept, GccStep, PathscaleStep
<1>3. Inv => SeparatePoints
  BY DEF SeparatePoints, GccInv, PathscaleInv
<1> QED
  BY <1>1, <1>2, <1>3, PTL DEF Spec

-----------------------------------------------------------------------------
(* The time of wrapped calls *)

Frame == [kind : {"io", "mpi", "sync"}, started : BOOLEAN, start : Nat]

IsIo(frames, i) == i \in 1 .. Len(frames) /\ frames[i].kind = "io"
IsTimed(frames, i) == IsIo(frames, i) /\ frames[i].started

\* One thread while the gate is open: the outermost I/O call it is in is the one
\* that is timed, and what was added up and the time since its start are all the
\* time in I/O calls.
OutermostTimed(frames, now, locked, sum, all) ==
  /\ \A i \in Nat : IsTimed(frames, i) =>
       locked /\ sum + now - frames[i].start = all /\ \A j \in 1 .. i - 1 : ~IsIo(frames, j)
  /\ \A i \in Nat : IsIo(frames, i) => \E j \in 1 .. i : IsTimed(frames, j)
  /\ (\A i \in Nat : ~IsIo(frames, i)) => ~locked /\ sum = all

WrapperType ==
  /\ gate \in BOOLEAN /\ clock \in [Threads -> Nat] /\ mutex \in [Threads -> BOOLEAN]
  /\ io \in [Threads -> Seq(Frame)]
  /\ \A t \in Threads : \A i \in 1 .. Len(io[t]) : io[t][i].start <= clock[t]
  /\ ioprof \in [Threads -> Int] /\ io_spent \in [Threads -> Int]
  /\ mpiprof \in [Threads -> Int] /\ mpisyncprof \in [Threads -> Int]

WrapperInv ==
  /\ WrapperType
  /\ \A t \in Threads : mpisyncprof[t] <= mpiprof[t]
  /\ \A t \in Threads : ioprof[t] <= io_spent[t]
  /\ gate => \A t \in Threads : OutermostTimed(io[t], clock[t], mutex[t], ioprof[t], io_spent[t])

\* A cycle passes.
LEMMA CyclePasses ==
  ASSUME NEW s \in Seq(Frame), NEW c \in Nat, NEW m \in BOOLEAN, NEW p \in Int, NEW a \in Int, NEW b \in Int,
         OutermostTimed(s, c, m, p, a),
         b = IF \E i \in 1 .. Len(s) : s[i].kind = "io" THEN a + 1 ELSE a
  PROVE  OutermostTimed(s, c + 1, m, p, b)
<1>1. CASE \E i \in 1 .. Len(s) : s[i].kind = "io"
  <2>1. ASSUME NEW i \in Nat, IsTimed(s, i) PROVE s[i].start \in Nat
    <3>1. s[i] \in Frame
      BY <2>1 DEF IsTimed, IsIo
    <3> QED
      BY <3>1 DEF Frame
  <2>2. \E i \in Nat : IsIo(s, i)
    BY <1>1 DEF IsIo
  <2>3. b = a + 1
    BY <1>1
  <2>4. ASSUME NEW i \in Nat, IsTimed(s, i)
        PROVE  m /\ p + (c + 1) - s[i].start = b /\ \A j \in 1 .. i - 1 : ~IsIo(s, j)
    <3>1. m /\ p + c - s[i].start = a /\ \A j \in 1 .. i - 1 : ~IsIo(s, j)
      BY <2>4 DEF OutermostTimed
    <3>2. s[i].start \in Nat
      BY <2>1, <2>4
    <3>3. p + (c + 1) - s[i].start = b
      <4> DEFINE x == s[i].start
      <4>1. p + c - x = a /\ x \in Nat
        BY <3>1, <3>2
      <4> HIDE DEF x
      <4>2. p + (c + 1) - x = b
        BY <2>3, <4>1
      <4> QED
        BY <4>2 DEF x
    <3> QED
      BY <3>1, <3>3
  <2> QED
    BY <2>2, <2>4 DEF OutermostTimed
<1>2. CASE ~\E i \in 1 .. Len(s) : s[i].kind = "io"
  <2>1. \A i \in Nat : ~IsIo(s, i) /\ ~IsTimed(s, i)
    BY <1>2 DEF IsIo, IsTimed
  <2> QED
    BY <1>2, <2>1 DEF OutermostTimed
<1> QED
  BY <1>1, <1>2

\* A call is entered or left: which calls are on the stack then.
LEMMA CallsEntered ==
  ASSUME NEW s \in Seq(Frame), NEW f \in Frame
  PROVE  /\ Append(s, f) \in Seq(Frame) /\ Len(s) \in Nat
         /\ Len(Append(s, f)) = Len(s) + 1 /\ Append(s, f)[Len(s) + 1] = f
         /\ \A i \in 1 .. Len(s) : Append(s, f)[i] = s[i]
         /\ \A i \in Nat : i # Len(s) + 1 => (IsIo(Append(s, f), i) <=> IsIo(s, i))
         /\ \A i \in Nat : i # Len(s) + 1 => (IsTimed(Append(s, f), i) <=> IsTimed(s, i))
         /\ IsIo(Append(s, f), Len(s) + 1) <=> f.kind = "io"
         /\ IsTimed(Append(s, f), Len(s) + 1) <=> f.kind = "io" /\ f.started
<1> DEFINE q == Append(s, f)
<1>1. /\ q \in Seq(Frame) /\ Len(s) \in Nat /\ Len(q) = Len(s) + 1 /\ q[Len(s) + 1] = f
      /\ \A i \in 1 .. Len(s) : q[i] = s[i]
  OBVIOUS
<1> HIDE DEF q
<1>2. \A i \in Nat : i # Len(s) + 1 => (IsIo(q, i) <=> IsIo(s, i))
  BY <1>1 DEF IsIo
<1>3. \A i \in Nat : i # Len(s) + 1 => (IsTimed(q, i) <=> IsTimed(s, i))
  BY <1>1, <1>2 DEF IsTimed, IsIo
<1>4. /\ IsIo(q, Len(s) + 1) <=> f.kind = "io"
      /\ IsTimed(q, Len(s) + 1) <=> f.kind = "io" /\ f.started
  BY <1>1 DEF IsTimed, IsIo
<1> QED
  BY <1>1, <1>2, <1>3, <1>4 DEF q

LEMMA CallsLeft ==
  ASSUME NEW s \in Seq(Frame), s # <<>>
  PROVE  /\ SubSeq(s, 1, Len(s) - 1) \in Seq(Frame) /\ Len(s) \in Nat \ {0} /\ s[Len(s)] \in Frame
         /\ Len(SubSeq(s, 1, Len(s) - 1)) = Len(s) - 1
         /\ \A i \in 1 .. Len(s) - 1 : SubSeq(s, 1, Len(s) - 1)[i] = s[i]
         /\ \A i \in Nat : i # Len(s) => (IsIo(SubSeq(s, 1, Len(s) - 1), i) <=> IsIo(s, i))
         /\ \A i \in Nat : i # Len(s) => (IsTimed(SubSeq(s, 1, Len(s) - 1), i) <=> IsTimed(s, i))
         /\ ~IsIo(SubSeq(s, 1, Len(s) - 1), Len(s)) /\ ~IsTimed(SubSeq(s, 1, Len(s) - 1), Len(s))
<1> DEFINE q == SubSeq(s, 1, Len(s) - 1)
<1>1. /\ Len(s) \in Nat \ {0} /\ s[Len(s)] \in Frame
      /\ q \in Seq(Frame) /\ Len(q) = Len(s) - 1 /\ \A i \in 1 .. Len(s) - 1 : q[i] = s[i]
  <2>1. Len(s) \in Nat \ {0}
    BY EmptySeq
  <2>2. s[Len(s)] \in Frame
    BY <2>1
  <2>3. q \in Seq(Frame) /\ Len(q) = Len(s) - 1 /\ \A i \in 1 .. Len(s) - 1 : q[i] = s[i]
    <3> DEFINE n == Len(s) - 1
    <3>1. n \in Nat /\ \A i \in 1 .. n : s[i] \in Frame
      BY <2>1
    <3>2. /\ SubSeq(s, 1, n) \in Seq(Frame)
          /\ Len(SubSeq(s, 1, n)) = IF 1 <= n THEN n - 1 + 1 ELSE 0
          /\ \A i \in 1 .. n - 1 + 1 : SubSeq(s, 1, n)[i] = s[1 + i - 1]
      <4> HIDE DEF n
      <4> QED
        BY <3>1, SubSeqProperties
    <3>3. \A i \in 1 .. n : 1 + i - 1 = i /\ i \in 1 .. n - 1 + 1
      BY <3>1
    <3> HIDE DEF n
    <3>4. Len(SubSeq(s, 1, n)) = n /\ \A i \in 1 .. n : SubSeq(s, 1, n)[i] = s[i]
      BY <3>1, <3>2, <3>3
    <3> QED
      BY <3>2, <3>4 DEF n, q
  <2> QED
    BY <2>1, <2>2, <2>3
<1> HIDE DEF q
<1>2. \A i \in Nat : i # Len(s) => (IsIo(q, i) <=> IsIo(s, i))
  BY <1>1 DEF IsIo
<1>3. \A i \in Nat : i # Len(s) => (IsTimed(q, i) <=> IsTimed(s, i))
  BY <1>1, <1>2 DEF IsTimed, IsIo
<1>4. ~IsIo(q, Len(s)) /\ ~IsTimed(q, Len(s))
  BY <1>1 DEF IsTimed, IsIo
<1> QED
  BY <1>1, <1>2, <1>3, <1>4 DEF q

\* Enter: an I/O call is timed if no other one of the thread is.
LEMMA EnterTimed ==
  ASSUME NEW s \in Seq(Frame), NEW c \in Nat, NEW m \in BOOLEAN, NEW p \in Int, NEW a \in Int,
         OutermostTimed(s, c, m, p, a), NEW f \in Frame, NEW n \in BOOLEAN, f.start = c,
         IF f.kind = "io" THEN f.started = ~m /\ n ELSE n = m
  PROVE  OutermostTimed(Append(s, f), c, n, p, a)
<1> DEFINE q == Append(s, f)
           k == Len(s) + 1
<1>1. /\ k \in Nat /\ k > 0 /\ q[k] = f /\ \A i \in Nat : IsIo(s, i) => i < k /\ i > 0 /\ q[i] = s[i]
      /\ \A i \in Nat : i # k => (IsIo(q, i) <=> IsIo(s, i)) /\ (IsTimed(q, i) <=> IsTimed(s, i))
      /\ IsIo(q, k) <=> f.kind = "io"
      /\ IsTimed(q, k) <=> f.kind = "io" /\ f.started
  BY CallsEntered DEF IsIo
<1>2. \A i \in Nat : IsTimed(s, i) => IsIo(s, i)
  BY DEF IsTimed
<1> HIDE DEF q, k
<1>3. CASE f.kind # "io"
  <2>1. n = m /\ ~IsIo(q, k) /\ ~IsTimed(q, k)
    BY <1>1, <1>3
  <2>2. \A x \in Nat : (IsIo(q, x) <=> IsIo(s, x)) /\ (IsTimed(q, x) <=> IsTimed(s, x)) /\ (IsIo(q, x) => q[x] = s[x])
    BY <1>1, <1>2, <2>1
  <2>3. ASSUME NEW x \in Nat, IsTimed(q, x)
        PROVE  n /\ p + c - q[x].start = a /\ \A y \in 1 .. x - 1 : ~IsIo(q, y)
    <3>1. m /\ p + c - s[x].start = a /\ \A y \in 1 .. x - 1 : ~IsIo(s, y)
      BY <2>2, <2>3 DEF OutermostTimed
    <3>2. q[x] = s[x]
      BY <1>2, <2>2, <2>3
    <3>3. \A y \in 1 .. x - 1 : y \in Nat
      OBVIOUS
    <3> QED
      BY <2>1, <2>2, <3>1, <3>2, <3>3
  <2>4. ASSUME NEW x \in Nat, IsIo(q, x) PROVE \E y \in 1 .. x : IsTimed(q, y)
    <3>1. PICK y \in 1 .. x : IsTimed(s, y)
      BY <2>2, <2>4 DEF OutermostTimed
    <3> QED
      BY <2>2, <3>1
  <2>5. (\A x \in Nat : ~IsIo(q, x)) => ~n /\ p = a
    BY <2>1, <2>2 DEF OutermostTimed
  <2> QED
    BY <2>3, <2>4, <2>5 DEF OutermostTimed, q
<1>4. CASE f.kind = "io" /\ m
  <2>1. PICK i \in Nat : IsIo(s, i)
    BY <1>4 DEF OutermostTimed
  <2>2. PICK j \in 1 .. i : IsTimed(s, j)
    BY <2>1 DEF OutermostTimed
  <2>3. j \in Nat /\ j \in 1 .. k /\ IsTimed(q, j)
    BY <1>1, <1>2, <2>2
  <2>4. \A x \in Nat : IsIo(q, x) => \E y \in 1 .. x : IsTimed(q, y)
    BY <1>1, <1>2, <2>3 DEF OutermostTimed
  <2>5. \A x \in Nat : IsTimed(q, x) => x # k /\ IsTimed(s, x) /\ q[x] = s[x]
    BY <1>1, <1>2, <1>4
  <2>6. \A x \in Nat : IsTimed(q, x) => n /\ p + c - q[x].start = a /\ \A y \in 1 .. x - 1 : ~IsIo(q, y)
    <3> SUFFICES ASSUME NEW x \in Nat, IsTimed(q, x)
                 PROVE  n /\ p + c - q[x].start = a /\ \A y \in 1 .. x - 1 : ~IsIo(q, y)
      OBVIOUS
    <3>1. p + c - s[x].start = a /\ \A y \in 1 .. x - 1 : ~IsIo(s, y)
      BY <2>5 DEF OutermostTimed
    <3>2. x < k
      BY <1>1, <1>2, <2>5
    <3> QED
      BY <1>1, <1>4, <2>5, <3>1, <3>2
  <2> QED
    BY <2>3, <2>4, <2>6, <1>2, <1>4, <1>1 DEF OutermostTimed, q
<1>5. CASE f.kind = "io" /\ ~m
  <2>1. \A i \in Nat : ~IsTimed(s, i)
    BY <1>5 DEF OutermostTimed
  <2>2. \A i \in Nat : ~IsIo(s, i)
    BY <2>1 DEF OutermostTimed
  <2>3. p = a
    BY <2>2 DEF OutermostTimed
  <2>4. IsTimed(q, k) /\ \A i \in Nat : i # k => ~IsIo(q, i) /\ ~IsTimed(q, i)
    BY <1>1, <1>5, <2>1, <2>2
  <2>5. \A i \in Nat : IsTimed(q, i) => n /\ p + c - q[i].start = a /\ \A j \in 1 .. i - 1 : ~IsIo(q, j)
    BY <1>1, <1>5, <2>3, <2>4
  <2>6. ASSUME NEW i \in Nat, IsIo(q, i) PROVE \E j \in 1 .. i : IsTimed(q, j)
    <3>1. i = k /\ k \in 1 .. i
      BY <1>1, <2>4, <2>6
    <3> QED
      BY <2>4, <3>1
  <2>7. IsIo(q, k)
    BY <1>1, <1>5
  <2> QED
    BY <1>1, <2>5, <2>6, <2>7 DEF OutermostTimed, q
<1> QED
  BY <1>3, <1>4, <1>5

\* The innermost call returns: with the timed one the account is closed.
LEMMA LeaveTimed ==
  ASSUME NEW s \in Seq(Frame), s # <<>>, NEW c \in Nat, NEW m \in BOOLEAN, NEW p \in Int, NEW a \in Int,
         OutermostTimed(s, c, m, p, a), NEW n \in BOOLEAN, NEW e \in Int,
         IF IsTimed(s, Len(s)) THEN ~n /\ e = p + c - s[Len(s)].start ELSE n = m /\ e = p
  PROVE  OutermostTimed(SubSeq(s, 1, Len(s) - 1), c, n, e, a)
<1> DEFINE q == SubSeq(s, 1, Len(s) - 1)
           k == Len(s)
<1>1. /\ k \in Nat /\ k > 0 /\ \A i \in Nat : IsIo(s, i) => i <= k /\ i > 0 /\ (i # k => q[i] = s[i])
      /\ \A i \in Nat : i # k => (IsIo(q, i) <=> IsIo(s, i)) /\ (IsTimed(q, i) <=> IsTimed(s, i))
      /\ ~IsIo(q, k) /\ ~IsTimed(q, k)
  BY CallsLeft DEF IsIo
<1>2. \A i \in Nat : IsTimed(s, i) => IsIo(s, i)
  BY DEF IsTimed
<1>3. IF IsTimed(s, k) THEN ~n /\ e = p + c - s[k].start ELSE n = m /\ e = p
  OBVIOUS
<1> HIDE DEF q, k
<1>4. CASE IsTimed(s, k)
  <2>1. e = a /\ \A j \in 1 .. k - 1 : ~IsIo(s, j)
    BY <1>1, <1>3, <1>4 DEF OutermostTimed
  <2>2. \A i \in Nat : ~IsIo(q, i) /\ ~IsTimed(q, i)
    <3> SUFFICES ASSUME NEW i \in Nat, i # k PROVE ~IsIo(s, i) /\ ~IsTimed(s, i)
      BY <1>1
    <3>1. ~(i > 0 /\ i <= k) \/ i \in 1 .. k - 1
      BY <1>1
    <3> QED
      BY <1>1, <1>2, <2>1, <3>1
  <2> QED
    BY <1>3, <1>4, <2>1, <2>2 DEF OutermostTimed, q
<1>5. CASE ~IsTimed(s, k)
  <2>1. n = m /\ e = p
    BY <1>3, <1>5
  <2>2. \A x \in Nat : IsTimed(q, x) => n /\ e + c - q[x].start = a /\ \A y \in 1 .. x - 1 : ~IsIo(q, y)
    <3> SUFFICES ASSUME NEW x \in Nat, IsTimed(q, x)
                 PROVE  n /\ e + c - q[x].start = a /\ \A y \in 1 .. x - 1 : ~IsIo(q, y)
      OBVIOUS
    <3>1. x # k /\ IsTimed(s, x) /\ q[x] = s[x] /\ x <= k
      BY <1>1, <1>2
    <3>2. m /\ p + c - s[x].start = a /\ \A y \in 1 .. x - 1 : ~IsIo(s, y)
      BY <3>1 DEF OutermostTimed
    <3> QED
      BY <1>1, <2>1, <3>1, <3>2
  <2>3. \A x \in Nat : IsIo(q, x) => \E y \in 1 .. x : IsTimed(q, y)
    <3> SUFFICES ASSUME NEW x \in Nat, IsIo(q, x) PROVE \E y \in 1 .. x : IsTimed(q, y)
      OBVIOUS
    <3>1. IsIo(s, x) /\ x <= k /\ x # k
      BY <1>1
    <3>2. PICK y \in 1 .. x : IsTimed(s, y)
      BY <3>1 DEF OutermostTimed
    <3>3. y # k /\ y \in Nat
      BY <1>5, <3>2
    <3> QED
      BY <1>1, <3>2, <3>3
  <2>4. ASSUME \A x \in Nat : ~IsIo(q, x) PROVE ~n /\ e = a
    <3>1. \A x \in Nat : x # k => ~IsIo(s, x) /\ ~IsTimed(s, x)
      BY <1>1, <1>2, <2>4
    <3>2. ~IsIo(s, k)
      <4> SUFFICES ASSUME IsIo(s, k) PROVE FALSE
        OBVIOUS
      <4>1. PICK y \in 1 .. k : IsTimed(s, y)
        BY <1>1 DEF OutermostTimed
      <4>2. y \in Nat
        BY <4>1
      <4> QED
        BY <1>5, <3>1, <4>1, <4>2
    <3>3. \A x \in Nat : ~IsIo(s, x)
      BY <3>1, <3>2
    <3> QED
      BY <2>1, <3>3 DEF OutermostTimed
  <2> QED
    BY <2>2, <2>3, <2>4 DEF OutermostTimed, q
<1> QED
  BY <1>4, <1>5

\* The first state: nobody is in a call.
LEMMA WrapperInit == Init => WrapperInv
<1> SUFFICES ASSUME Init PROVE WrapperInv
  OBVIOUS
<1>1. WrapperType
  BY DEF Init, Zero, WrapperType
<1>2. \A t \in Threads : \A i \in Nat : ~IsIo(io[t], i) /\ ~IsTimed(io[t], i)
  BY DEF Init, IsIo, IsTimed
<1>3. \A t \in Threads : ~mutex[t] /\ ioprof[t] = 0 /\ io_spent[t] = 0 /\ mpiprof[t] = 0 /\ mpisyncprof[t] = 0
  BY DEF Init, Zero
<1>4. \A t \in Threads : OutermostTimed(io[t], clock[t], mutex[t], ioprof[t], io_spent[t])
  BY <1>2, <1>3 DEF OutermostTimed
<1> QED
  BY <1>1, <1>3, <1>4 DEF WrapperInv

\* The child of a fork outside of wrapped calls begins as the first state does.
LEMMA WrapperFork ==
  ASSUME WrapperInv, NEW t \in Threads, ForkChild(t)
  PROVE  WrapperInv'
<1>0. ~mutex[t]
  <2>1. OutermostTimed(io[t], clock[t], mutex[t], ioprof[t], io_spent[t]) /\ io[t] = <<>>
    BY DEF ForkChild, WrapperInv
  <2>2. \A i \in Nat : ~IsIo(io[t], i)
    BY <2>1 DEF IsIo
  <2> QED
    BY <2>1, <2>2 DEF OutermostTimed
<1>1. WrapperType'
  BY DEF ForkChild, Zero, WrapperInv, WrapperType
<1>2. \A o \in Threads : \A i \in Nat : ~IsIo(io'[o], i) /\ ~IsTimed(io'[o], i)
  BY DEF ForkChild, IsIo, IsTimed
<1>3. \A o \in Threads :
        ~mutex'[o] /\ ioprof'[o] = 0 /\ io_spent'[o] = 0 /\ mpiprof'[o] = 0 /\ mpisyncprof'[o] = 0
  BY <1>0 DEF ForkChild, Zero
<1>4. \A o \in Threads : OutermostTimed(io'[o], clock'[o], mutex'[o], ioprof'[o], io_spent'[o])
  BY <1>2, <1>3 DEF OutermostTimed
<1> QED
  BY <1>1, <1>3, <1>4 DEF WrapperInv

\* What is added up is never more than what was spent.
LEMMA NeverMore ==
  ASSUME NEW s \in Seq(Frame), NEW c \in Nat, NEW m \in BOOLEAN, NEW p \in Int, NEW a \in Int,
         OutermostTimed(s, c, m, p, a), \A i \in 1 .. Len(s) : s[i].start <= c
  PROVE  p <= a
<1>1. CASE \A i \in Nat : ~IsIo(s, i)
  BY <1>1 DEF OutermostTimed
<1>2. CASE \E i \in Nat : IsIo(s, i)
  <2>1. PICK i \in Nat : IsTimed(s, i)
    BY <1>2 DEF OutermostTimed
  <2>2. i \in 1 .. Len(s)
    BY <2>1 DEF IsTimed, IsIo
  <2>3. s[i] \in Frame
    BY <2>2
  <2>4. s[i].start \in Nat /\ s[i].start <= c
    BY <2>2, <2>3 DEF Frame
  <2>5. p + c - s[i].start = a
    BY <2>1 DEF OutermostTimed
  <2> QED
    BY <2>4, <2>5
<1> QED
  BY <1>1, <1>2

\* Steps that are not those of a wrapper, and no cycle: only the gate may close.
LEMMA WrapperSame ==
  ASSUME WrapperInv, UNCHANGED <<clock, wrapper>>, gate' \in {gate, FALSE}
  PROVE  WrapperInv'
<1>1. /\ clock' = clock /\ io' = io /\ mutex' = mutex /\ ioprof' = ioprof /\ io_spent' = io_spent
      /\ mpiprof' = mpiprof /\ mpisyncprof' = mpisyncprof
  BY DEF wrapper
<1>2. WrapperType'
  BY <1>1 DEF WrapperInv, WrapperType
<1>3. gate' => gate
  <2>1. gate \in BOOLEAN
    BY DEF WrapperInv, WrapperType
  <2>2. CASE gate' = gate
    BY <2>1, <2>2
  <2>3. CASE gate' = FALSE
    BY <2>3
  <2> QED
    BY <2>2, <2>3
<1> QED
  BY <1>1, <1>2, <1>3 DEF WrapperInv

\* One thread's wrapper variables change.
LEMMA WrapperOfOne ==
  ASSUME WrapperInv, NEW t \in Threads, gate' = gate,
         io' = [io EXCEPT ![t] = io'[t]], clock' = [clock EXCEPT ![t] = clock'[t]],
         mutex' = [mutex EXCEPT ![t] = mutex'[t]], ioprof' = [ioprof EXCEPT ![t] = ioprof'[t]],
         io_spent' = [io_spent EXCEPT ![t] = io_spent'[t]], mpiprof' = [mpiprof EXCEPT ![t] = mpiprof'[t]],
         mpisyncprof' = [mpisyncprof EXCEPT ![t] = mpisyncprof'[t]],
         io'[t] \in Seq(Frame), clock'[t] \in Nat, mutex'[t] \in BOOLEAN, ioprof'[t] \in Int,
         io_spent'[t] \in Int, mpiprof'[t] \in Int, mpisyncprof'[t] \in Int,
         \A i \in 1 .. Len(io'[t]) : io'[t][i].start <= clock'[t],
         mpisyncprof'[t] <= mpiprof'[t], ioprof'[t] <= io_spent'[t],
         gate => OutermostTimed(io'[t], clock'[t], mutex'[t], ioprof'[t], io_spent'[t])
  PROVE  WrapperInv'
<1> USE DEF WrapperInv
<1>2. \A u \in Threads \ {t} :
        /\ io'[u] = io[u] /\ clock'[u] = clock[u] /\ mutex'[u] = mutex[u] /\ ioprof'[u] = ioprof[u]
        /\ io_spent'[u] = io_spent[u] /\ mpiprof'[u] = mpiprof[u] /\ mpisyncprof'[u] = mpisyncprof[u]
  BY DEF WrapperType
<1>3. /\ clock' \in [Threads -> Nat] /\ mutex' \in [Threads -> BOOLEAN] /\ io' \in [Threads -> Seq(Frame)]
      /\ ioprof' \in [Threads -> Int] /\ io_spent' \in [Threads -> Int]
      /\ mpiprof' \in [Threads -> Int] /\ mpisyncprof' \in [Threads -> Int]
  BY DEF WrapperType
<1>4. \A u \in Threads : \A i \in 1 .. Len(io'[u]) : io'[u][i].start <= clock'[u]
  <2> SUFFICES ASSUME NEW u \in Threads, u # t PROVE \A i \in 1 .. Len(io'[u]) : io'[u][i].start <= clock'[u]
    OBVIOUS
  <2> QED
    BY <1>2 DEF WrapperType
<1>5. \A u \in Threads : mpisyncprof'[u] <= mpiprof'[u] /\ ioprof'[u] <= io_spent'[u]
  BY <1>2
<1>6. ASSUME gate, NEW u \in Threads, u # t
      PROVE  OutermostTimed(io'[u], clock'[u], mutex'[u], ioprof'[u], io_spent'[u])
  <2>1. OutermostTimed(io[u], clock[u], mutex[u], ioprof[u], io_spent[u])
    BY <1>6
  <2> QED
    BY <1>2, <1>6, <2>1
<1>7. gate => \A u \in Threads : OutermostTimed(io'[u], clock'[u], mutex'[u], ioprof'[u], io_spent'[u])
  BY <1>6
<1> QED
  BY <1>3, <1>4, <1>5, <1>7 DEF WrapperType

\* What a thread's variables are before a step.
LEMMA WrapperOf ==
  ASSUME WrapperInv, NEW t \in Threads
  PROVE  /\ io[t] \in Seq(Frame) /\ clock[t] \in Nat /\ mutex[t] \in BOOLEAN
         /\ ioprof[t] \in Int /\ io_spent[t] \in Int /\ mpiprof[t] \in Int /\ mpisyncprof[t] \in Int
         /\ io = [io EXCEPT ![t] = io[t]] /\ clock = [clock EXCEPT ![t] = clock[t]]
         /\ mutex = [mutex EXCEPT ![t] = mutex[t]] /\ ioprof = [ioprof EXCEPT ![t] = ioprof[t]]
         /\ io_spent = [io_spent EXCEPT ![t] = io_spent[t]] /\ mpiprof = [mpiprof EXCEPT ![t] = mpiprof[t]]
         /\ mpisyncprof = [mpisyncprof EXCEPT ![t] = mpisyncprof[t]]
         /\ \A i \in 1 .. Len(io[t]) : io[t][i].start <= clock[t]
         /\ mpisyncprof[t] <= mpiprof[t] /\ ioprof[t] <= io_spent[t]
         /\ gate \in BOOLEAN
         /\ gate => OutermostTimed(io[t], clock[t], mutex[t], ioprof[t], io_spent[t])
  BY DEF WrapperInv, WrapperType

\* Tick keeps the account.
LEMMA WrapperTick ==
  ASSUME WrapperInv, NEW t \in Threads, Tick(t)
  PROVE  WrapperInv'
<1> DEFINE a == IF \E i \in 1 .. Len(io[t]) : io[t][i].kind = "io" THEN io_spent[t] + 1 ELSE io_spent[t]
           c == clock[t] + 1
<1>1. a \in Int /\ c \in Nat /\ io_spent[t] <= a /\ clock[t] <= c
  BY WrapperOf
<1>2. /\ clock' = [clock EXCEPT ![t] = c] /\ io_spent' = [io_spent EXCEPT ![t] = a]
      /\ UNCHANGED <<gate, io, mutex, ioprof, mpiprof, mpisyncprof>>
  BY DEF Tick
<1>3. ASSUME gate PROVE OutermostTimed(io[t], c, mutex[t], ioprof[t], a)
  <2>1. /\ io[t] \in Seq(Frame) /\ clock[t] \in Nat /\ mutex[t] \in BOOLEAN
        /\ ioprof[t] \in Int /\ io_spent[t] \in Int
        /\ OutermostTimed(io[t], clock[t], mutex[t], ioprof[t], io_spent[t])
    BY <1>3, WrapperOf
  <2>2. a = IF \E i \in 1 .. Len(io[t]) : io[t][i].kind = "io" THEN io_spent[t] + 1 ELSE io_spent[t]
    OBVIOUS
  <2> HIDE DEF a
  <2> QED
    BY <1>1, <2>1, <2>2, CyclePasses
<1> HIDE DEF a, c
<1>4. ASSUME NEW i \in 1 .. Len(io[t]) PROVE io[t][i].start <= c
  <2>1. io[t][i] \in Frame /\ io[t][i].start <= clock[t] /\ clock[t] \in Nat
    BY WrapperOf
  <2>2. io[t][i].start \in Nat
    BY <2>1 DEF Frame
  <2> QED
    BY <1>1, <2>1, <2>2
<1>5. ioprof[t] <= a
  BY <1>1, WrapperOf
<1>6. /\ io' = [io EXCEPT ![t] = io[t]] /\ mutex' = [mutex EXCEPT ![t] = mutex[t]]
      /\ ioprof' = [ioprof EXCEPT ![t] = ioprof[t]] /\ mpiprof' = [mpiprof EXCEPT ![t] = mpiprof[t]]
      /\ mpisyncprof' = [mpisyncprof EXCEPT ![t] = mpisyncprof[t]] /\ gate' = gate
  BY <1>2, WrapperOf
<1>7. /\ io[t] \in Seq(Frame) /\ mutex[t] \in BOOLEAN /\ ioprof[t] \in Int /\ mpiprof[t] \in Int
      /\ mpisyncprof[t] \in Int /\ mpisyncprof[t] <= mpiprof[t]
  BY WrapperOf
<1>8. /\ clock'[t] = c /\ io_spent'[t] = a /\ io'[t] = io[t] /\ mutex'[t] = mutex[t] /\ ioprof'[t] = ioprof[t]
      /\ mpiprof'[t] = mpiprof[t] /\ mpisyncprof'[t] = mpisyncprof[t]
  BY <1>2 DEF WrapperInv, WrapperType
<1> QED
  BY <1>1, <1>2, <1>3, <1>4, <1>5, <1>6, <1>7, <1>8, WrapperOfOne

\* IoEnter, MpiEnter: the wrapper reads the time if it may.
LEMMA WrapperEnter ==
  ASSUME WrapperInv, NEW t \in Threads, NEW kind \in {"io", "mpi", "sync"}, NEW started \in BOOLEAN,
         NEW m \in BOOLEAN, Enter(t, kind, started), mutex' = [mutex EXCEPT ![t] = m],
         gate => IF kind = "io" THEN started = ~mutex[t] /\ m ELSE m = mutex[t]
  PROVE  WrapperInv'
<1> DEFINE f == [kind |-> kind, started |-> started, start |-> clock[t]]
           s == Append(io[t], f)
<1>1. f \in Frame /\ f.start = clock[t] /\ f.kind = kind /\ f.started = started
  BY WrapperOf DEF Frame
<1>2. /\ io' = [io EXCEPT ![t] = s]
      /\ UNCHANGED <<gate, clock, ioprof, mpiprof, mpisyncprof, io_spent>>
  BY DEF Enter
<1> HIDE DEF f
<1>3. s \in Seq(Frame) /\ Len(s) = Len(io[t]) + 1 /\ s[Len(io[t]) + 1] = f /\ Len(io[t]) \in Nat
      /\ \A i \in 1 .. Len(io[t]) : s[i] = io[t][i]
  BY <1>1, WrapperOf, CallsEntered
<1>4. gate => OutermostTimed(s, clock[t], m, ioprof[t], io_spent[t])
  BY <1>1, WrapperOf, EnterTimed
<1> HIDE DEF s
<1>5. ASSUME NEW i \in 1 .. Len(s) PROVE s[i].start <= clock[t]
  <2>1. CASE i = Len(io[t]) + 1
    BY <1>1, <1>3, <2>1, WrapperOf
  <2>2. CASE i # Len(io[t]) + 1
    <3>1. i \in 1 .. Len(io[t])
      BY <1>3, <2>2
    <3> QED
      BY <1>3, <3>1, WrapperOf
  <2> QED
    BY <2>1, <2>2
<1>6. /\ clock' = [clock EXCEPT ![t] = clock[t]] /\ io_spent' = [io_spent EXCEPT ![t] = io_spent[t]]
      /\ ioprof' = [ioprof EXCEPT ![t] = ioprof[t]] /\ mpiprof' = [mpiprof EXCEPT ![t] = mpiprof[t]]
      /\ mpisyncprof' = [mpisyncprof EXCEPT ![t] = mpisyncprof[t]] /\ gate' = gate
  BY <1>2, WrapperOf
<1>7. /\ clock[t] \in Nat /\ ioprof[t] \in Int /\ io_spent[t] \in Int /\ mpiprof[t] \in Int
      /\ mpisyncprof[t] \in Int /\ mpisyncprof[t] <= mpiprof[t] /\ ioprof[t] <= io_spent[t]
  BY WrapperOf
<1>8. /\ io'[t] = s /\ mutex'[t] = m /\ clock'[t] = clock[t] /\ io_spent'[t] = io_spent[t]
      /\ ioprof'[t] = ioprof[t] /\ mpiprof'[t] = mpiprof[t] /\ mpisyncprof'[t] = mpisyncprof[t]
  BY <1>2 DEF WrapperInv, WrapperType
<1> QED
  BY <1>2, <1>3, <1>4, <1>5, <1>6, <1>7, <1>8, WrapperOfOne

\* What the innermost call is when it is left, and that its time is not negative.
LEMMA Innermost ==
  ASSUME WrapperInv, NEW t \in Threads, io[t] # <<>>
  PROVE  /\ SubSeq(io[t], 1, Len(io[t]) - 1) \in Seq(Frame)
         /\ \A i \in 1 .. Len(SubSeq(io[t], 1, Len(io[t]) - 1)) : SubSeq(io[t], 1, Len(io[t]) - 1)[i].start <= clock[t]
         /\ Elapsed(t) \in Nat
         /\ Timed(t) => io[t][Len(io[t])].started /\ gate /\ Elapsed(t) = clock[t] - io[t][Len(io[t])].start
         /\ ~Timed(t) => Elapsed(t) = 0
         /\ Len(io[t]) \in 1 .. Len(io[t]) /\ io[t][Len(io[t])].start \in Nat
<1> DEFINE s == io[t]
           q == SubSeq(s, 1, Len(s) - 1)
           f == s[Len(s)]
<1>1. /\ q \in Seq(Frame) /\ Len(s) \in Nat \ {0} /\ f \in Frame /\ Len(q) = Len(s) - 1
      /\ \A i \in 1 .. Len(s) - 1 : q[i] = s[i]
  BY WrapperOf, CallsLeft
<1>2. clock[t] \in Nat /\ gate \in BOOLEAN /\ \A i \in 1 .. Len(s) : s[i].start <= clock[t]
  BY WrapperOf
<1>3. Timed(t) <=> f.started /\ gate
  BY DEF Timed
<1>4. Elapsed(t) = IF Timed(t) THEN clock[t] - f.start ELSE 0
  BY DEF Elapsed
<1> HIDE DEF s, q, f
<1>5. f.start \in Nat /\ f.start <= clock[t]
  <2>1. f.start <= clock[t]
    BY <1>1, <1>2 DEF f
  <2> QED
    BY <1>1, <2>1 DEF Frame
<1>6. Elapsed(t) \in Nat
  BY <1>2, <1>4, <1>5
<1>7. \A i \in 1 .. Len(q) : q[i].start <= clock[t]
  BY <1>1, <1>2
<1>8. Len(s) \in 1 .. Len(s)
  BY <1>1
<1>9. Timed(t) => f.started /\ gate /\ Elapsed(t) = clock[t] - f.start
  BY <1>3, <1>4
<1>10. ~Timed(t) => Elapsed(t) = 0
  BY <1>4
<1> QED
  BY <1>1, <1>5, <1>6, <1>7, <1>8, <1>9, <1>10 DEF s, q, f

\* IoLeave, MpiLeave: the time is added to the sums of the call's kind.
LEMMA WrapperLeave ==
  ASSUME WrapperInv, NEW t \in Threads, IoLeave(t) \/ MpiLeave(t)
  PROVE  WrapperInv'
<1> DEFINE s == io[t]
           q == SubSeq(s, 1, Len(s) - 1)
           k == Len(s)
           e == Elapsed(t)
<1>1. s # <<>> /\ io' = [io EXCEPT ![t] = q] /\ UNCHANGED <<gate, clock, io_spent>>
  BY DEF IoLeave, MpiLeave, InCall
<1>2. /\ q \in Seq(Frame) /\ \A i \in 1 .. Len(q) : q[i].start <= clock[t]
      /\ e \in Nat /\ k \in 1 .. Len(s) /\ k \in Nat /\ s[k].start \in Nat
      /\ Timed(t) => s[k].started /\ gate /\ e = clock[t] - s[k].start
      /\ ~Timed(t) => e = 0
      /\ Timed(t) <=> s[k].started /\ gate
  <2>1. k \in Nat
    BY WrapperOf
  <2> QED
    BY <1>1, <2>1, Innermost DEF Timed
<1>3. /\ s \in Seq(Frame) /\ clock[t] \in Nat /\ mutex[t] \in BOOLEAN
      /\ ioprof[t] \in Int /\ io_spent[t] \in Int /\ mpiprof[t] \in Int /\ mpisyncprof[t] \in Int
      /\ mpisyncprof[t] <= mpiprof[t] /\ ioprof[t] <= io_spent[t]
      /\ gate => OutermostTimed(s, clock[t], mutex[t], ioprof[t], io_spent[t])
  BY WrapperOf
<1>4. clock' = [clock EXCEPT ![t] = clock[t]] /\ io_spent' = [io_spent EXCEPT ![t] = io_spent[t]] /\ gate' = gate
  BY <1>1, WrapperOf
<1> HIDE DEF s, q, k, e
<1>5. CASE IoLeave(t)
  <2> DEFINE m == mutex[t] /\ ~Timed(t)
             p == ioprof[t] + e
  <2>1. /\ s[k].kind = "io"
        /\ mutex' = [mutex EXCEPT ![t] = m] /\ ioprof' = [ioprof EXCEPT ![t] = p]
        /\ mpiprof' = mpiprof /\ mpisyncprof' = mpisyncprof
    BY <1>5 DEF IoLeave, InCall, s, k, e
  <2>2. mpiprof' = [mpiprof EXCEPT ![t] = mpiprof[t]] /\ mpisyncprof' = [mpisyncprof EXCEPT ![t] = mpisyncprof[t]]
    BY <2>1, WrapperOf
  <2>3. m \in BOOLEAN /\ p \in Int
    BY <1>2, <1>3
  <2>4. ASSUME gate PROVE OutermostTimed(q, clock[t], m, p, io_spent[t])
    <3>1. IsTimed(s, k) <=> Timed(t)
      BY <1>2, <2>1, <2>4 DEF IsTimed, IsIo
    <3>2. CASE Timed(t)
      <4>1. ~m /\ p = ioprof[t] + clock[t] - s[k].start
        BY <1>2, <1>3, <3>2
      <4> HIDE DEF m, p
      <4> QED
        BY <1>1, <1>3, <2>3, <2>4, <3>1, <3>2, <4>1, LeaveTimed DEF q, k
    <3>3. CASE ~Timed(t)
      <4>1. m = mutex[t]
        BY <1>3, <3>3
      <4>2. p = ioprof[t]
        BY <1>2, <1>3, <3>3
      <4> HIDE DEF m, p
      <4> QED
        BY <1>1, <1>3, <2>3, <2>4, <3>1, <3>3, <4>1, <4>2, LeaveTimed DEF q, k
    <3> QED
      BY <3>2, <3>3
  <2> HIDE DEF m, p
  <2>5. p <= io_spent[t]
    <3>1. CASE gate
      BY <1>2, <1>3, <2>3, <2>4, <3>1, NeverMore
    <3>2. CASE ~gate
      <4>1. p = ioprof[t]
        BY <1>2, <1>3, <3>2 DEF p
      <4> QED
        BY <1>3, <4>1
    <3> QED
      BY <3>1, <3>2
  <2>6. /\ io'[t] = q /\ mutex'[t] = m /\ clock'[t] = clock[t] /\ io_spent'[t] = io_spent[t]
        /\ ioprof'[t] = p /\ mpiprof'[t] = mpiprof[t] /\ mpisyncprof'[t] = mpisyncprof[t]
    BY <1>1, <2>1 DEF WrapperInv, WrapperType
  <2> QED
    BY <1>1, <1>2, <1>3, <1>4, <2>1, <2>2, <2>3, <2>4, <2>5, <2>6, WrapperOfOne
<1>6. CASE MpiLeave(t)
  <2> DEFINE x == mpiprof[t] + e
             y == IF InCall(t, {"sync"}) THEN mpisyncprof[t] + e ELSE mpisyncprof[t]
  <2>1. /\ s[k].kind # "io"
        /\ mutex' = mutex /\ ioprof' = ioprof
        /\ mpiprof' = [mpiprof EXCEPT ![t] = x] /\ mpisyncprof' = [mpisyncprof EXCEPT ![t] = y]
    BY <1>6 DEF MpiLeave, InCall, s, k, e
  <2>2. mutex' = [mutex EXCEPT ![t] = mutex[t]] /\ ioprof' = [ioprof EXCEPT ![t] = ioprof[t]]
    BY <2>1, WrapperOf
  <2>3. x \in Int /\ y \in Int /\ y <= x
    BY <1>2, <1>3
  <2>4. ~IsTimed(s, k)
    BY <2>1 DEF IsTimed, IsIo
  <2>5. gate => OutermostTimed(q, clock[t], mutex[t], ioprof[t], io_spent[t])
    BY <1>1, <1>3, <2>4, LeaveTimed DEF q, k
  <2> HIDE DEF x, y
  <2>6. /\ io'[t] = q /\ mutex'[t] = mutex[t] /\ clock'[t] = clock[t] /\ io_spent'[t] = io_spent[t]
        /\ ioprof'[t] = ioprof[t] /\ mpiprof'[t] = x /\ mpisyncprof'[t] = y
    BY <1>1, <2>1 DEF WrapperInv, WrapperType
  <2> QED
    BY <1>1, <1>2, <1>3, <1>4, <2>1, <2>2, <2>3, <2>5, <2>6, WrapperOfOne
<1> QED
  BY <1>5, <1>6

\* Every step of a thread keeps the account of its wrapped calls.
LEMMA WrapperStep ==
  ASSUME WrapperInv, NEW t \in Threads, Step(t)
  PROVE  WrapperInv'
<1>1. CASE Tick(t)
  BY <1>1, WrapperTick
<1>2. CASE IoEnter(t)
  <2> DEFINE m == mutex[t] \/ MayTime(t)
  <2>1. /\ MayTime(t) \in BOOLEAN /\ m \in BOOLEAN /\ Enter(t, "io", MayTime(t))
        /\ mutex' = [mutex EXCEPT ![t] = m]
    BY <1>2, WrapperOf DEF IoEnter, MayTime
  <2>2. gate => MayTime(t) = ~mutex[t] /\ m
    BY WrapperOf DEF MayTime
  <2> HIDE DEF m
  <2> QED
    BY <2>1, <2>2, WrapperEnter
<1>3. ASSUME NEW kind \in {"mpi", "sync"}, MpiEnter(t, kind) PROVE WrapperInv'
  <2>1. Enter(t, kind, gate) /\ mutex' = [mutex EXCEPT ![t] = mutex[t]] /\ gate \in BOOLEAN /\ mutex[t] \in BOOLEAN
    BY <1>3, WrapperOf DEF MpiEnter
  <2>2. kind \in {"io", "mpi", "sync"} /\ kind # "io"
    OBVIOUS
  <2> QED
    BY <2>1, <2>2, WrapperEnter
<1>4. CASE IoLeave(t) \/ MpiLeave(t)
  BY <1>4, WrapperLeave
<1>5. \/ Tick(t) \/ ForkChild(t) \/ IoEnter(t) \/ IoLeave(t) \/ MpiLeave(t) \/ MpiEnter(t, "mpi") \/ MpiEnter(t, "sync")
      \/ UNCHANGED <<gate, clock, wrapper>>
  BY DEF Step, UserCall, __cyg_profile_func_enter, __cyg_profile_func_exit, LoopInit, CallInit, UnitInit,
         ProfileLoop, ProfileCallEntry, UnitEntry, FirstEntry, ProfileLoopIter, LoopLeft, ProfileCallExit,
         MpiCall, OtherMpiCall, MPI_Barrier, MPI_Wait, MPI_Waitall, MPI_Waitany, MPI_Waitsome, ThreadShutdown
<1>6. CASE UNCHANGED <<gate, clock, wrapper>>
  BY <1>6, WrapperSame
<1> QED
  BY <1>1, <1>2, <1>3, <1>4, <1>5, <1>6, WrapperFork

\* makewraplib.pl, mpiwrap_special.c: the time of nested I/O calls is counted once, no
\* time is lost while the gate is open, and synchronisation is a part of the MPI
\* time, for any threads and any depth of calls.
THEOREM TimeOnce == Spec => []TimeCountedOnce
<1>1. WrapperInv /\ [Next]_vars => WrapperInv'
  <2> SUFFICES ASSUME WrapperInv, [Next]_vars PROVE WrapperInv'
    OBVIOUS
  <2>1. CASE CloseGate
    BY <2>1, WrapperSame DEF CloseGate
  <2>2. CASE UNCHANGED vars
    BY <2>2, WrapperSame DEF vars
  <2> QED
    BY <2>1, <2>2, WrapperStep DEF Next
<1>2. WrapperInv => TimeCountedOnce
  <2> SUFFICES ASSUME WrapperInv, NEW t \in Threads, gate, io[t] = <<>> PROVE ioprof[t] = io_spent[t] /\ ~mutex[t]
    BY DEF WrapperInv, TimeCountedOnce
  <2>1. \A i \in Nat : ~IsIo(io[t], i)
    BY DEF IsIo
  <2> QED
    BY <2>1, WrapperOf DEF OutermostTimed
<1> QED
  BY WrapperInit, <1>1, <1>2, PTL DEF Spec

-----------------------------------------------------------------------------
(* What makes the instrumentation end the program *)

\* The points that are started.
Runs == [t \in Threads |-> {p \in Point : cal[t][p].depth # 0}]

\* gcc.c, one thread while the gate is open: the points that run are those of the
\* functions it has entered since it began, in this process, each entered once; such a
\* function without a point found the table full.
GnuFrames(s, old, tab, runs, full) ==
  /\ \A f \in Functions : tab[f] # 0 /\ tab[f] \in runs => \E i \in old + 1 .. Len(s) : s[i] = f
  /\ \A i \in old + 1 .. Len(s) : IF tab[s[i]] = 0 THEN full ELSE tab[s[i]] \in runs
  /\ \A i, j \in old + 1 .. Len(s) : i # j /\ s[i] = s[j] => tab[s[i]] = 0

\* The first call makes the table, and the shutdown of the thread destroys it.
GnuThread(t) ==
  /\ inherited[t] <= Len(calls[t])
  /\ table[t] = "destroyed" => stage[t] = "shut"
  /\ gate /\ table[t] = "none" => inherited[t] = Len(calls[t])
  /\ gate /\ table[t] # "destroyed" => GnuFrames(calls[t], inherited[t], htab[t], Runs[t], ~HasRoom(t))

GnuInv ==
  /\ calls \in [Threads -> Seq(Functions)] /\ inherited \in [Threads -> Nat]
  /\ table \in [Threads -> {"none", "made", "destroyed"}]
  /\ \A t \in Threads : GnuThread(t)

\* A call of a unit with a point, whose entry hook has returned.
Counting(t, i) == pu[calls[t][i]].point # 0 /\ ~(i = Len(calls[t]) /\ seen[t] # {})

\* pathscale.c: a point that runs belongs to a unit the thread has entered, whose number
\* is positive from then on; a unit with a positive number inside its first entry was
\* entered by another thread too.
ThreadUnits(t) ==
  /\ total_points[t] <= MaxCalipers
  /\ \A u \in entered[t] : pu[u].point > 0
  /\ \A p \in Runs[t] \ {0} : \E u \in entered[t] : pu[u].point = p
  /\ \A i \in 1 .. Len(calls[t]) : pu[calls[t][i]].by # {}
  /\ \A u \in seen[t] :
       /\ calls[t] # <<>> /\ Callee(t) = u /\ pu[u].point # 0
       /\ pu[u].point > 0 => \E o \in Threads \ {t} : u \in entered[o]

\* While the gate is open the number of every unit the thread is inside of is positive;
\* the points of those it has entered in this process run, and the functions among them
\* have different points.
ThreadOpen(t) ==
  /\ \A i \in 1 .. Len(calls[t]) : Counting(t, i) => pu[calls[t][i]].point > 0
  /\ \A i \in inherited[t] + 1 .. Len(calls[t]) :
       Counting(t, i) => calls[t][i] \in entered[t] /\ pu[calls[t][i]].point \in Runs[t]
  /\ program.mode = "func" =>
       \A i, j \in inherited[t] + 1 .. Len(calls[t]) :
         Counting(t, i) /\ Counting(t, j) /\ i # j => pu[calls[t][i]].point # pu[calls[t][j]].point

UnitsInv ==
  /\ calls \in [Threads -> Seq(Units)] /\ entered \in [Threads -> SUBSET Units] /\ seen \in [Threads -> SUBSET Units]
  /\ inherited \in [Threads -> Nat] /\ \A t \in Threads : inherited[t] <= Len(calls[t])
  /\ \A t \in Threads : ThreadUnits(t) /\ (gate => ThreadOpen(t))

\* The errors that end a program instrumented by gcc, and one instrumented by Pathscale.
GnuEnds ==
  /\ outcome \in {"running", "noData", "inUse", "notInUse", "notFound", "noTable"}
  /\ outcome = "inUse" => \E t \in Threads : calls[t] # <<>> /\ Twice(t, Callee(t))
  /\ outcome = "notInUse" => \E t \in Threads : InheritedCall(t)
  /\ outcome = "notFound" =>
       \E t \in Threads : calls[t] # <<>> /\ htab[t][Callee(t)] = 0 /\ (InheritedCall(t) \/ ~HasRoom(t))
  /\ outcome = "noTable" => \E t \in Threads : stage[t] = "shut" \/ InheritedCall(t)

UnitEnds ==
  /\ outcome \in {"running", "noData", "inUse", "notInUse", "range"}
  /\ outcome = "inUse" => \E t \in Threads : calls[t] # <<>> /\ (Callee(t) \in entered[t] \/ Shared(Callee(t)))
  /\ outcome = "notInUse" => \E t \in Threads : InheritedCall(t)
  /\ outcome = "range" =>
       \E t \in Threads : calls[t] # <<>> /\ pu[Callee(t)].point < 0 /\ \E o \in Threads \ {t} : Callee(t) \in entered[o]

\* What holds of every program: only a thread without data meets the error for that; and
\* point 0 runs from the start of a thread to its shutdown.
AnyProgram ==
  /\ stage \in [Threads -> {"stranger", "counted", "shut", "gone"}]
  /\ outcome = "noData" => \E t \in Threads : stage[t] = "stranger"
  /\ outcome = "running" => \A t \in Threads : stage[t] = "counted" => 0 \in Runs[t]
  /\ program.mode = "io" => outcome = "running"
  /\ program.mode \notin {"loop", "func"} => \A t \in Threads : seen[t] = {}

\* Nothing can happen after an error; until then the hooks keep their frames.
HooksInv ==
  /\ program.mode = "gnu" /\ program.keys = "own" => GnuEnds /\ (outcome = "running" => GnuInv)
  /\ program.mode \in {"loop", "func"} => UnitEnds /\ (outcome = "running" => UnitsInv)

\* A call is entered or left, whatever stands for a call.
LEMMA Pushed ==
  ASSUME NEW S, NEW s \in Seq(S), NEW x \in S
  PROVE  /\ Append(s, x) \in Seq(S) /\ Len(s) \in Nat /\ Append(s, x) # <<>>
         /\ Len(Append(s, x)) = Len(s) + 1 /\ Append(s, x)[Len(s) + 1] = x
         /\ \A i \in 1 .. Len(s) : Append(s, x)[i] = s[i] /\ s[i] \in S
  OBVIOUS

LEMMA Popped ==
  ASSUME NEW S, NEW s \in Seq(S), s # <<>>
  PROVE  /\ SubSeq(s, 1, Len(s) - 1) \in Seq(S) /\ Len(s) \in Nat \ {0}
         /\ Len(SubSeq(s, 1, Len(s) - 1)) = Len(s) - 1
         /\ \A i \in 1 .. Len(s) - 1 : SubSeq(s, 1, Len(s) - 1)[i] = s[i]
         /\ \A i \in 1 .. Len(s) : s[i] \in S
<1> DEFINE n == Len(s) - 1
<1>1. Len(s) \in Nat \ {0}
  BY EmptySeq
<1>2. n \in Nat /\ \A i \in 1 .. Len(s) : s[i] \in S
  BY <1>1
<1>3. \A i \in 1 .. n : i \in 1 .. Len(s)
  BY <1>1
<1>4. /\ SubSeq(s, 1, n) \in Seq(S)
      /\ Len(SubSeq(s, 1, n)) = IF 1 <= n THEN n - 1 + 1 ELSE 0
      /\ \A i \in 1 .. n - 1 + 1 : SubSeq(s, 1, n)[i] = s[1 + i - 1]
  <2>1. \A i \in 1 .. n : s[i] \in S
    BY <1>2, <1>3
  <2> HIDE DEF n
  <2> QED
    BY <1>2, <2>1, SubSeqProperties
<1>5. \A i \in 1 .. n : 1 + i - 1 = i /\ i \in 1 .. n - 1 + 1
  BY <1>2
<1> HIDE DEF n
<1>6. Len(SubSeq(s, 1, n)) = n /\ \A i \in 1 .. n : SubSeq(s, 1, n)[i] = s[i]
  BY <1>2, <1>4, <1>5
<1> QED
  BY <1>1, <1>2, <1>4, <1>6 DEF n


\* A point is started or stopped.
LEMMA RunsOf ==
  ASSUME CalType
  PROVE  /\ Runs \in [Threads -> SUBSET Point]
         /\ \A t \in Threads : \A p \in Point : p \in Runs[t] <=> cal[t][p].depth # 0
         /\ \A t \in Threads : \A p \in Point : cal[t][p].depth \in {0, 1}
  BY DEF CalType, Runs

LEMMA RunsAfter ==
  ASSUME CalType, CalType', NEW t \in Threads, NEW p \in Point,
         \A u \in Threads : \A q \in Point : u # t \/ q # p => cal'[u][q] = cal[u][q]
  PROVE  Runs' = [Runs EXCEPT ![t] = IF cal'[t][p].depth = 0 THEN @ \ {p} ELSE @ \cup {p}]
<1> DEFINE n == IF cal'[t][p].depth = 0 THEN Runs[t] \ {p} ELSE Runs[t] \cup {p}
<1>1. /\ Runs \in [Threads -> SUBSET Point] /\ \A u \in Threads : \A q \in Point : q \in Runs[u] <=> cal[u][q].depth # 0
      /\ Runs' \in [Threads -> SUBSET Point] /\ \A u \in Threads : \A q \in Point : q \in Runs'[u] <=> cal'[u][q].depth # 0
  <2>1. Runs' \in [Threads -> SUBSET Point] /\ \A u \in Threads : \A q \in Point : q \in Runs'[u] <=> cal'[u][q].depth # 0
    BY DEF Runs
  <2> QED
    BY <2>1, RunsOf
<1>2. \A u \in Threads \ {t} : Runs'[u] = Runs[u]
  <2> SUFFICES ASSUME NEW u \in Threads \ {t} PROVE Runs'[u] = Runs[u]
    OBVIOUS
  <2>1. \A q \in Point : q \in Runs'[u] <=> q \in Runs[u]
    BY <1>1
  <2> QED
    BY <1>1, <2>1
<1>3. Runs'[t] = n
  <2>1. \A q \in Point : q # p => (q \in Runs'[t] <=> q \in Runs[t])
    BY <1>1
  <2>2. Runs'[t] \subseteq Point /\ Runs[t] \subseteq Point /\ (p \in Runs'[t] <=> cal'[t][p].depth # 0)
    BY <1>1
  <2> QED
    BY <2>1, <2>2
<1> QED
  BY <1>1, <1>2, <1>3

\* What the operations do to a point that exists: a start takes a free one or ends the
\* program; a stop and an accum go well on a started one.
LEMMA StartRuns ==
  ASSUME CalType, CalType', outcome = "running", NEW t \in Threads, HasData(t), NEW p \in Point, papiex_start(t, p)
  PROVE  /\ p \in Runs[t] => outcome' = "inUse" /\ UNCHANGED max_used
         /\ p \notin Runs[t] => outcome' = "running" /\ Runs' = [Runs EXCEPT ![t] = @ \cup {p}]
<1>1. ~(p < 0) /\ ~(p >= MaxCalipers)
  BY NatAssumption DEF Point
<1>2. CASE p \in Runs[t]
  <2>1. cal[t][p].depth # 0
    BY <1>2, RunsOf
  <2> QED
    BY <1>1, <1>2, <2>1 DEF papiex_start, NoData, HasData, Error
<1>3. CASE p \notin Runs[t]
  <2>1. cal[t][p].depth = 0
    BY <1>3, RunsOf
  <2>2. /\ cal' = [cal EXCEPT ![t][p].depth = @ + 1, ![t][p].tmp = IF Skipped(t) THEN @ ELSE clock[t]]
        /\ outcome' = outcome
    BY <1>1, <2>1 DEF papiex_start, NoData, HasData
  <2>3. cal'[t][p].depth = 1
    BY <2>1, <2>2 DEF CalType
  <2>4. \A u \in Threads : \A q \in Point : u # t \/ q # p => cal'[u][q] = cal[u][q]
    BY <2>2 DEF CalType
  <2>5. Runs' = [Runs EXCEPT ![t] = IF cal'[t][p].depth = 0 THEN @ \ {p} ELSE @ \cup {p}]
    BY <2>4, RunsAfter
  <2> QED
    BY <1>3, <2>2, <2>3, <2>5
<1> QED
  BY <1>2, <1>3

LEMMA StopRuns ==
  ASSUME CalType, CalType', outcome = "running", NEW t \in Threads, HasData(t), NEW p \in Point,
         p \in Runs[t], papiex_stop(t, p)
  PROVE  outcome' = "running" /\ Runs' = [Runs EXCEPT ![t] = @ \ {p}] /\ UNCHANGED max_used
<1>1. ~(p < 0) /\ ~(p >= MaxCalipers) /\ cal[t][p].depth = 1
  BY NatAssumption, RunsOf DEF Point
<1>2. PICK now \in ReadTs(t) :
        /\ cal' = [cal EXCEPT ![t][p].depth = Released(@),
                              ![t][p].cyc = IF exact[t][p] /\ ~Skipped(t) THEN @ + now - cal[t][p].tmp ELSE now]
        /\ UNCHANGED <<max_used, outcome>>
  BY <1>1 DEF papiex_stop, NoData, HasData
<1>3. cal'[t][p].depth = 0
  <2>1. Released(cal[t][p].depth) = 0
    BY <1>1 DEF Released
  <2> QED
    BY <1>2, <2>1 DEF CalType
<1>4. \A u \in Threads : \A q \in Point : u # t \/ q # p => cal'[u][q] = cal[u][q]
  BY <1>2 DEF CalType
<1> QED
  BY <1>2, <1>3, <1>4, RunsAfter

LEMMA AccumRuns ==
  ASSUME CalType, CalType', outcome = "running", NEW t \in Threads, HasData(t),
         NEW p \in Point \ {0}, p \in Runs[t], papiex_accum(t, p)
  PROVE  outcome' = "running" /\ Runs' = Runs
<1>1. ~(p <= 0) /\ ~(p >= MaxCalipers) /\ cal[t][p].depth # 0
  BY NatAssumption, RunsOf DEF Point
<1>2. PICK now \in ReadTs(t) :
        /\ cal' = [cal EXCEPT ![t][p].tmp = NextPass(@, now),
                              ![t][p].cyc = IF exact[t][p] /\ ~Skipped(t) THEN @ + now - cal[t][p].tmp ELSE now]
        /\ UNCHANGED <<max_used, outcome>>
  BY <1>1 DEF papiex_accum, NoData, HasData
<1>3. cal'[t][p].depth = cal[t][p].depth
  BY <1>2 DEF CalType
<1>4. \A u \in Threads : \A q \in Point : u # t \/ q # p => cal'[u][q] = cal[u][q]
  BY <1>2 DEF CalType
<1>5. Runs' = [Runs EXCEPT ![t] = Runs[t]]
  <2>1. Runs[t] \cup {p} = Runs[t]
    OBVIOUS
  <2>2. Runs' = [Runs EXCEPT ![t] = IF cal'[t][p].depth = 0 THEN @ \ {p} ELSE @ \cup {p}]
    BY <1>4, RunsAfter
  <2> QED
    BY <1>1, <1>3, <2>1, <2>2
<1> QED
  BY <1>2, <1>5, RunsOf

\* A stop or an accum of a point that is not started: the only other error they meet in a
\* point that exists.
LEMMA NotRunning ==
  ASSUME CalType, NEW t \in Threads, HasData(t), NEW p \in Point \ {0}, p \notin Runs[t],
         papiex_stop(t, p) \/ papiex_accum(t, p)
  PROVE  outcome' = "notInUse"
<1>1. ~(p < 0) /\ ~(p <= 0) /\ ~(p >= MaxCalipers) /\ cal[t][p].depth = 0
  BY NatAssumption, RunsOf DEF Point
<1> QED
  BY <1>1 DEF papiex_stop, papiex_accum, NoData, HasData, Error

\* The operations on other points leave point 0 as it is, and no start ends it.
LEMMA ZeroRuns ==
  ASSUME CalType, CalType', NEW t \in Threads, NEW p,
         papiex_start(t, p) \/ (papiex_stop(t, p) /\ p # 0) \/ papiex_accum(t, p)
  PROVE  \A u \in Threads : 0 \in Runs[u] => 0 \in Runs'[u]
<1> USE PointFacts
<1>1. SUFFICES \A u \in Threads : cal[u][0].depth # 0 => cal'[u][0].depth # 0
  <2>1. \A u \in Threads : 0 \in Runs[u] <=> cal[u][0].depth # 0
    BY RunsOf
  <2>2. \A u \in Threads : 0 \in Runs'[u] <=> cal'[u][0].depth # 0
    BY DEF Runs
  <2> QED
    BY <1>1, <2>1, <2>2
<1>2. CASE cal' = cal
  BY <1>2
<1>3. CASE cal' # cal /\ papiex_start(t, p)
  <2>1. /\ p \in Point /\ cal[t][p].depth = 0
        /\ cal' = [cal EXCEPT ![t][p].depth = @ + 1, ![t][p].tmp = IF Skipped(t) THEN @ ELSE clock[t]]
    BY <1>3 DEF papiex_start, NoData, Error, Ignored, caliper
  <2>2. \A u \in Threads : u # t \/ p # 0 => cal'[u][0] = cal[u][0]
    BY <2>1 DEF CalType
  <2> QED
    BY <2>1, <2>2
<1>4. CASE cal' # cal /\ papiex_stop(t, p) /\ p # 0
  <2>1. PICK now \in ReadTs(t) :
          cal' = [cal EXCEPT ![t][p].depth = Released(@),
                             ![t][p].cyc = IF exact[t][p] /\ ~Skipped(t) THEN @ + now - cal[t][p].tmp ELSE now]
    BY <1>4 DEF papiex_stop, NoData, Error, Ignored, caliper
  <2>2. \A u \in Threads : cal'[u][0] = cal[u][0]
    BY <1>4, <2>1 DEF CalType
  <2> QED
    BY <2>2
<1>5. CASE cal' # cal /\ papiex_accum(t, p)
  <2>1. p # 0 /\ \E now \in ReadTs(t) :
          cal' = [cal EXCEPT ![t][p].tmp = NextPass(@, now),
                             ![t][p].cyc = IF exact[t][p] /\ ~Skipped(t) THEN @ + now - cal[t][p].tmp ELSE now]
    BY <1>5 DEF papiex_accum, NoData, Error, Ignored, caliper
  <2>2. \A u \in Threads : cal'[u][0] = cal[u][0]
    BY <2>1 DEF CalType
  <2> QED
    BY <2>2
<1> QED
  BY <1>2, <1>3, <1>4, <1>5

\* The error of a thread without data, from any operation.
LEMMA OnlyStrangers ==
  ASSUME outcome = "running", NEW t \in Threads, NEW p,
         papiex_start(t, p) \/ papiex_stop(t, p) \/ papiex_accum(t, p), outcome' = "noData"
  PROVE  stage[t] = "stranger"
  BY DEF papiex_start, papiex_stop, papiex_accum, NoData, Error, Ignored, caliper

\* A function is entered, with a point that was free or, in a full table, without one.
LEMMA FrameEntered ==
  ASSUME NEW s \in Seq(Functions), NEW f \in Functions, NEW old \in Nat, old <= Len(s), NEW tab, NEW tab2, NEW runs, NEW full, NEW full2,
         GnuFrames(s, old, tab, runs, full), full => full2,
         tab2[f] # 0, tab2[f] \notin runs, tab[f] \in {0, tab2[f]}, tab[f] = 0 => ~full,
         \A g \in Functions \ {f} : tab2[g] = tab[g] /\ tab[g] # tab2[f]
  PROVE  GnuFrames(Append(s, f), old, tab2, runs \cup {tab2[f]}, full2)
<1> DEFINE q == Append(s, f)
           n == Len(s)
           p == tab2[f]
<1>1. /\ n \in Nat /\ Len(q) = n + 1 /\ q[n + 1] = f
      /\ \A i \in 1 .. n : q[i] = s[i] /\ s[i] \in Functions
      /\ old + 1 .. n \subseteq 1 .. n /\ n + 1 \in old + 1 .. n + 1
  BY Pushed
<1>2. /\ \A g \in Functions : tab[g] # 0 /\ tab[g] \in runs => \E i \in old + 1 .. n : s[i] = g
      /\ \A i \in old + 1 .. n : IF tab[s[i]] = 0 THEN full ELSE tab[s[i]] \in runs
      /\ \A i, j \in old + 1 .. n : i # j /\ s[i] = s[j] => tab[s[i]] = 0
  BY DEF GnuFrames
<1> HIDE DEF q, n
<1>3. \A i \in old + 1 .. n : s[i] # f
  BY <1>2
<1>4. \A i \in old + 1 .. Len(q) : i \in old + 1 .. n \/ i = n + 1
  BY <1>1
<1>5. \A i \in old + 1 .. n : q[i] = s[i] /\ s[i] \in Functions \ {f} /\ tab2[s[i]] = tab[s[i]]
  BY <1>1, <1>3
<1>6. ASSUME NEW g \in Functions, tab2[g] # 0, tab2[g] \in runs \cup {p}
      PROVE  \E i \in old + 1 .. Len(q) : q[i] = g
  <2>1. CASE g = f
    BY <1>1, <2>1
  <2>2. CASE g # f
    <3>1. PICK i \in old + 1 .. n : s[i] = g
      BY <1>2, <1>6, <2>2
    <3> QED
      BY <1>1, <3>1
  <2> QED
    BY <2>1, <2>2
<1>7. ASSUME NEW i \in old + 1 .. Len(q) PROVE IF tab2[q[i]] = 0 THEN full2 ELSE tab2[q[i]] \in runs \cup {p}
  <2>1. CASE i \in old + 1 .. n
    BY <1>2, <1>5, <2>1
  <2>2. CASE i = n + 1
    BY <1>1, <2>2
  <2> QED
    BY <1>4, <2>1, <2>2
<1>8. ASSUME NEW i \in old + 1 .. Len(q), NEW j \in old + 1 .. Len(q), i # j, q[i] = q[j] PROVE tab2[q[i]] = 0
  <2>1. i \in old + 1 .. n /\ j \in old + 1 .. n
    BY <1>1, <1>4, <1>5, <1>8
  <2> QED
    BY <1>2, <1>5, <1>8, <2>1
<1> HIDE DEF p
<1> QED
  BY <1>6, <1>7, <1>8 DEF GnuFrames, q, p

LEMMA FrameEnteredFull ==
  ASSUME NEW s \in Seq(Functions), NEW f \in Functions, NEW old \in Nat, old <= Len(s), NEW tab, NEW runs, NEW full,
         GnuFrames(s, old, tab, runs, full), tab[f] = 0, full
  PROVE  GnuFrames(Append(s, f), old, tab, runs, full)
<1> DEFINE q == Append(s, f)
           n == Len(s)
<1>1. /\ n \in Nat /\ Len(q) = n + 1 /\ q[n + 1] = f
      /\ \A i \in 1 .. n : q[i] = s[i] /\ s[i] \in Functions
      /\ old + 1 .. n \subseteq 1 .. n /\ n + 1 \in old + 1 .. n + 1
  BY Pushed
<1>2. /\ \A g \in Functions : tab[g] # 0 /\ tab[g] \in runs => \E i \in old + 1 .. n : s[i] = g
      /\ \A i \in old + 1 .. n : IF tab[s[i]] = 0 THEN full ELSE tab[s[i]] \in runs
      /\ \A i, j \in old + 1 .. n : i # j /\ s[i] = s[j] => tab[s[i]] = 0
  BY DEF GnuFrames
<1> HIDE DEF q, n
<1>3. \A i \in old + 1 .. Len(q) : i \in old + 1 .. n \/ i = n + 1
  BY <1>1
<1>4. \A g \in Functions : tab[g] # 0 /\ tab[g] \in runs => \E i \in old + 1 .. Len(q) : q[i] = g
  BY <1>1, <1>2
<1>5. \A i \in old + 1 .. Len(q) : IF tab[q[i]] = 0 THEN full ELSE tab[q[i]] \in runs
  BY <1>1, <1>2, <1>3
<1>6. \A i, j \in old + 1 .. Len(q) : i # j /\ q[i] = q[j] => tab[q[i]] = 0
  BY <1>1, <1>2, <1>3
<1> QED
  BY <1>4, <1>5, <1>6 DEF GnuFrames, q

\* The innermost function returns and its point is stopped.
LEMMA FrameLeft ==
  ASSUME NEW s \in Seq(Functions), s # <<>>, NEW old \in Nat, old < Len(s), NEW tab, NEW runs, NEW full,
         GnuFrames(s, old, tab, runs, full), tab[s[Len(s)]] # 0,
         \A g \in Functions : g # s[Len(s)] => tab[g] # tab[s[Len(s)]]
  PROVE  GnuFrames(SubSeq(s, 1, Len(s) - 1), old, tab, runs \ {tab[s[Len(s)]]}, full)
<1> DEFINE q == SubSeq(s, 1, Len(s) - 1)
           n == Len(s)
           f == s[n]
           p == tab[f]
<1>1. /\ n \in Nat \ {0} /\ Len(q) = n - 1 /\ \A i \in 1 .. n - 1 : q[i] = s[i]
      /\ \A i \in 1 .. n : s[i] \in Functions
      /\ old + 1 .. n \subseteq 1 .. n /\ old + 1 .. n - 1 \subseteq 1 .. n - 1
  BY Popped
<1>2. /\ \A g \in Functions : tab[g] # 0 /\ tab[g] \in runs => \E i \in old + 1 .. n : s[i] = g
      /\ \A i \in old + 1 .. n : IF tab[s[i]] = 0 THEN full ELSE tab[s[i]] \in runs
      /\ \A i, j \in old + 1 .. n : i # j /\ s[i] = s[j] => tab[s[i]] = 0
  BY DEF GnuFrames
<1>3. p # 0 /\ \A g \in Functions : g # f => tab[g] # p
  OBVIOUS
<1> HIDE DEF q, n
<1>4. \A i \in old + 1 .. n - 1 : i \in old + 1 .. n /\ i # n /\ n \in old + 1 .. n
  BY <1>1
<1>5. \A i \in old + 1 .. n - 1 : s[i] # f /\ s[i] \in Functions /\ tab[s[i]] # p
  BY <1>1, <1>2, <1>3, <1>4
<1> HIDE DEF f, p
<1>6. ASSUME NEW g \in Functions, tab[g] # 0, tab[g] \in runs \ {p}
      PROVE  \E i \in old + 1 .. Len(q) : q[i] = g
  <2>1. PICK i \in old + 1 .. n : s[i] = g
    BY <1>2, <1>6
  <2>2. i # n
    BY <1>6, <2>1 DEF p, f
  <2> QED
    BY <1>1, <2>1, <2>2
<1>7. \A i \in old + 1 .. Len(q) : IF tab[q[i]] = 0 THEN full ELSE tab[q[i]] \in runs \ {p}
  BY <1>1, <1>2, <1>4, <1>5
<1>8. \A i, j \in old + 1 .. Len(q) : i # j /\ q[i] = q[j] => tab[q[i]] = 0
  BY <1>1, <1>2, <1>4
<1> QED
  BY <1>6, <1>7, <1>8 DEF GnuFrames, q, p, f, n
\* A table that was full stays so.
LEMMA FullStays ==
  ASSUME CalType, CalType', NEW u \in Threads, max_used'[u] >= max_used[u], ~HasRoom(u)
  PROVE  ~HasRoom(u)'
<1>1. max_used[u] \in Int /\ max_used'[u] \in Int /\ MaxCalipers \in Int
  BY NatAssumption DEF CalType, Point
<1> QED
  BY <1>1 DEF HasRoom

\* The functions of one thread change, and those of the others are as good as before.
LEMMA GnuFramesOfOne ==
  ASSUME CalType, CalType', GnuInv, NEW t \in Threads, NEW s \in Seq(Functions), calls' = [calls EXCEPT ![t] = s],
         inherited' \in [Threads -> Nat], table' \in [Threads -> {"none", "made", "destroyed"}],
         \A u \in Threads \ {t} :
           /\ htab'[u] = htab[u] /\ Runs'[u] = Runs[u] /\ inherited'[u] = inherited[u]
           /\ table'[u] = table[u] /\ stage'[u] = stage[u],
         \A u \in Threads : max_used'[u] >= max_used[u], UNCHANGED gate,
         GnuThread(t)'
  PROVE  GnuInv'
<1>1. calls' \in [Threads -> Seq(Functions)] /\ calls'[t] = s /\ \A u \in Threads \ {t} : calls'[u] = calls[u]
  BY DEF GnuInv
<1>2. ASSUME NEW u \in Threads \ {t} PROVE GnuThread(u)'
  <2>1. GnuThread(u)
    BY DEF GnuInv
  <2>2. ~HasRoom(u) => ~HasRoom(u)'
    BY FullStays
  <2>3. /\ calls'[u] = calls[u] /\ htab'[u] = htab[u] /\ Runs'[u] = Runs[u] /\ inherited'[u] = inherited[u]
        /\ table'[u] = table[u] /\ stage'[u] = stage[u] /\ gate' = gate
    BY <1>1
  <2>4. ASSUME gate, table[u] # "destroyed"
        PROVE  GnuFrames(calls'[u], inherited'[u], htab'[u], Runs'[u], ~HasRoom(u)')
    <3> DEFINE full == ~HasRoom(u)
               full2 == ~HasRoom(u)'
    <3>1. GnuFrames(calls[u], inherited[u], htab[u], Runs[u], full) /\ (full => full2)
      BY <2>1, <2>2, <2>4 DEF GnuThread
    <3> HIDE DEF full, full2
    <3>2. GnuFrames(calls[u], inherited[u], htab[u], Runs[u], full2)
      BY <3>1 DEF GnuFrames
    <3> QED
      BY <2>3, <3>2 DEF full2
  <2> QED
    BY <2>1, <2>3, <2>4 DEF GnuThread
<1>3. \A u \in Threads : GnuThread(u)'
  BY <1>2
<1> QED
  BY <1>1, <1>3 DEF GnuInv

\* A point of the table is a point, and no two functions have the same.
LEMMA TablePoints ==
  ASSUME CalType, GccInv, NEW t \in Threads, NEW f \in Functions
  PROVE  /\ htab[t][f] \in Point /\ htab[t][f] <= max_used[t]
         /\ \A g \in Functions : g # f /\ htab[t][f] # 0 => htab[t][g] # htab[t][f]
<1>1. f \in Key /\ Functions \subseteq Key
  BY DEF Key
<1>2. htab[t][f] \in Nat /\ htab[t][f] <= max_used[t] /\ max_used[t] \in Point
  BY <1>1 DEF CalType, GccInv
<1>3. htab[t][f] \in Point
  BY <1>2, NatAssumption DEF Point
<1> QED
  BY <1>1, <1>2, <1>3 DEF GccInv

\* __cyg_profile_func_enter: the point of a function is taken unless it is inside of
\* itself already.
LEMMA GnuEnter ==
  ASSUME CalType, CalType', GccInv, GnuInv, outcome = "running", program.keys = "own",
         NEW t \in Threads, NEW f \in Functions, __cyg_profile_func_enter(t, f)
  PROVE  GnuEnds' /\ (outcome' = "running" => GnuInv')
<1> DEFINE s == calls[t]
           q == Append(s, f)
           n == Len(s)
<1>1. /\ s \in Seq(Functions) /\ q \in Seq(Functions) /\ calls' = [calls EXCEPT ![t] = q] /\ calls'[t] = q
      /\ UNCHANGED <<gate, stage, inherited>> /\ KeyOf(f) = {f} /\ q # <<>> /\ n \in Nat /\ Len(q) = n + 1 /\ q[n + 1] = f
      /\ \A i \in 1 .. n : q[i] = s[i]
      /\ inherited \in [Threads -> Nat] /\ inherited[t] <= n /\ table \in [Threads -> {"none", "made", "destroyed"}]
  <2>1. calls \in [Threads -> Seq(Functions)]
    BY DEF GnuInv
  <2> QED
    BY <2>1, Pushed DEF __cyg_profile_func_enter, KeyOf, GnuInv, GnuThread
<1>2. gate /\ table[t] # "destroyed" => GnuFrames(s, inherited[t], htab[t], Runs[t], ~HasRoom(t))
  BY DEF GnuInv, GnuThread
<1>3. outcome' = "running" => GnuEnds'
  BY DEF GnuEnds
<1>4. \A u \in Threads : max_used[u] \in Int /\ max_used[u] >= max_used[u]
  BY DEF CalType, Point
<1>5. /\ htab[t][f] \in Point /\ htab[t][f] <= max_used[t]
      /\ \A g \in Functions : htab[t][g] \in Point /\ htab[t][g] <= max_used[t]
      /\ \A g \in Functions : g # f /\ htab[t][f] # 0 => htab[t][g] # htab[t][f]
  BY TablePoints
<1> HIDE DEF s, q, n
<1> DEFINE old == inherited[t]
<1>10. ASSUME outcome' = "running", table' = [table EXCEPT ![t] = "made"], table[t] # "destroyed", gate,
              \A u \in Threads : max_used'[u] >= max_used[u],
              \A u \in Threads \ {t} : htab'[u] = htab[u] /\ Runs'[u] = Runs[u],
              GnuFrames(q, old, htab'[t], Runs'[t], ~HasRoom(t)')
       PROVE  GnuInv'
  <2>1. GnuThread(t)'
    BY <1>1, <1>10 DEF GnuThread
  <2>2. table' \in [Threads -> {"none", "made", "destroyed"}] /\ \A u \in Threads \ {t} : table'[u] = table[u]
    BY <1>1, <1>10
  <2> QED
    BY <1>1, <1>10, <2>1, <2>2, GnuFramesOfOne
<1> HIDE DEF old
<1>6. CASE ~gate
  <2>1. outcome' = outcome /\ UNCHANGED <<cal, max_used, htab, table>>
    BY <1>6 DEF __cyg_profile_func_enter, Ignored, caliper
  <2>2. Runs' = Runs
    BY <2>1 DEF Runs
  <2>3. GnuThread(t)'
    BY <1>1, <1>6, <2>1 DEF GnuInv, GnuThread
  <2> QED
    BY <1>1, <1>3, <1>4, <2>1, <2>2, <2>3, GnuFramesOfOne
<1>11. CASE gate /\ (NoData(t) \/ (table[t] = "destroyed" /\ NoTable))
  <2>1. CASE NoData(t)
    BY <2>1 DEF NoData, Error, GnuEnds
  <2>2. CASE table[t] = "destroyed" /\ NoTable
    <3>1. stage'[t] = "shut" /\ outcome' = "noTable"
      BY <1>1, <2>2 DEF NoTable, Error, GnuInv, GnuThread
    <3> QED
      BY <3>1 DEF GnuEnds
  <2> QED
    BY <1>11, <2>1, <2>2
<1>7. CASE /\ gate /\ HasData(t) /\ table[t] # "destroyed" /\ table' = [table EXCEPT ![t] = "made"]
           /\ htab[t][f] # 0 /\ papiex_start(t, htab[t][f]) /\ UNCHANGED htab
  <2> DEFINE p == htab[t][f]
  <2>1. /\ p \in Runs[t] => outcome' = "inUse"
        /\ p \notin Runs[t] => outcome' = "running" /\ Runs' = [Runs EXCEPT ![t] = @ \cup {p}]
    BY <1>5, <1>7, StartRuns
  <2>2. CASE p \in Runs[t]
    <3>1. PICK i \in 1 .. n : s[i] = f
      <4>1. PICK i \in old + 1 .. n : s[i] = f
        BY <1>2, <1>7, <2>2 DEF GnuFrames, n, s, old
      <4>2. i \in 1 .. n
        BY <1>1, <4>1 DEF old
      <4> QED
        BY <4>1, <4>2
    <3>2. i \in 1 .. Len(q) /\ n + 1 \in 1 .. Len(q) /\ i # n + 1 /\ q[i] = f /\ q[n + 1] = f
      BY <1>1, <3>1
    <3>3. calls'[t] # <<>> /\ Callee(t)' = f /\ Twice(t, f)'
      <4>1. Callee(t)' = f
        BY <1>1 DEF Callee
      <4> QED
        BY <1>1, <3>2, <4>1 DEF Twice
    <3>4. Twice(t, Callee(t))'
      BY <3>3 DEF Twice
    <3> QED
      BY <2>1, <2>2, <3>3, <3>4 DEF GnuEnds
  <2>3. CASE p \notin Runs[t]
    <3>1. outcome' = "running" /\ Runs' = [Runs EXCEPT ![t] = @ \cup {p}]
      BY <2>1, <2>3
    <3>2. \A u \in Threads : max_used'[u] >= max_used[u]
      BY <1>7, PointsAbove
    <3>3. ~HasRoom(t) => ~HasRoom(t)'
      BY <3>2, FullStays
    <3>4. Runs'[t] = Runs[t] \cup {p} /\ \A u \in Threads \ {t} : Runs'[u] = Runs[u]
      BY <3>1, RunsOf
    <3>5. GnuFrames(q, old, htab[t], Runs[t] \cup {p}, ~HasRoom(t)')
      <4> DEFINE full == ~HasRoom(t)
                 full2 == ~HasRoom(t)'
                 tab == htab[t]
                 runs == Runs[t]
      <4>1. /\ GnuFrames(s, old, tab, runs, full) /\ (full => full2)
            /\ tab[f] # 0 /\ tab[f] \notin runs /\ \A g \in Functions \ {f} : tab[g] # tab[f]
        BY <1>2, <1>5, <1>7, <2>3, <3>3 DEF old
      <4> HIDE DEF full, full2, tab, runs
      <4>2. GnuFrames(q, old, tab, runs \cup {tab[f]}, full2)
        BY <1>1, <4>1, FrameEntered DEF q, n, old
      <4> QED
        BY <4>2 DEF full2, tab, runs
    <3> QED
      BY <1>3, <1>7, <1>10, <3>1, <3>2, <3>4, <3>5
  <2> QED
    BY <2>2, <2>3
<1>8. CASE /\ gate /\ HasData(t) /\ table[t] # "destroyed" /\ table' = [table EXCEPT ![t] = "made"]
           /\ htab[t][f] = 0 /\ ~HasRoom(t) /\ Ignored /\ UNCHANGED htab
  <2>1. outcome' = outcome /\ UNCHANGED <<cal, max_used, htab>>
    BY <1>8 DEF Ignored, caliper
  <2>2. Runs' = Runs /\ ~HasRoom(t)'
    BY <1>8, <2>1 DEF Runs, HasRoom
  <2>3. GnuFrames(q, old, htab[t], Runs[t], TRUE)
    <3>1. GnuFrames(s, old, htab[t], Runs[t], TRUE)
      BY <1>2, <1>8 DEF GnuFrames, old
    <3> QED
      BY <1>1, <1>8, <3>1, FrameEnteredFull DEF q, n, old
  <2>4. GnuFrames(q, old, htab'[t], Runs'[t], ~HasRoom(t)')
    BY <2>1, <2>2, <2>3 DEF GnuFrames
  <2> QED
    BY <1>3, <1>4, <1>8, <1>10, <2>1, <2>2, <2>4
<1>9. CASE /\ gate /\ HasData(t) /\ table[t] # "destroyed" /\ table' = [table EXCEPT ![t] = "made"]
           /\ htab[t][f] = 0 /\ HasRoom(t) /\ htab' = [htab EXCEPT ![t][f] = NewPoint(t)]
           /\ papiex_start(t, NewPoint(t))
  <2> DEFINE p == max_used[t] + 1
  <2>1. p \in Point /\ p # 0 /\ p > max_used[t] /\ NewPoint(t) = p
    <3>1. max_used[t] \in 0 .. MaxCalipers - 1 /\ max_used[t] + 1 < MaxCalipers
      BY <1>9 DEF CalType, HasRoom, Point
    <3> QED
      BY <3>1, NatAssumption DEF NewPoint, Point
  <2> HIDE DEF p
  <2>2. p \notin Runs[t]
    BY <2>1, RunsOf DEF GccInv
  <2>3. outcome' = "running" /\ Runs' = [Runs EXCEPT ![t] = @ \cup {p}]
    BY <1>9, <2>1, <2>2, StartRuns
  <2>4. \A u \in Threads : max_used'[u] >= max_used[u]
    BY <1>9, <2>1, PointsAbove
  <2>5. Runs'[t] = Runs[t] \cup {p} /\ \A u \in Threads \ {t} : Runs'[u] = Runs[u]
    BY <2>3, RunsOf
  <2>6. /\ htab'[t][f] = p /\ \A g \in Functions \ {f} : htab'[t][g] = htab[t][g] /\ htab[t][g] # p
        /\ \A u \in Threads \ {t} : htab'[u] = htab[u]
    <3>1. \A g \in Functions : htab[t][g] \in Int /\ htab[t][g] <= max_used[t]
      BY <1>5 DEF Point
    <3>2. \A g \in Functions : htab[t][g] # p
      BY <1>4, <2>1, <3>1 DEF p
    <3>3. htab \in [Threads -> [Key -> Nat]] /\ f \in Key /\ Functions \subseteq Key
      BY DEF GccInv, Key
    <3> QED
      BY <1>9, <2>1, <3>2, <3>3
  <2>7. GnuFrames(q, old, htab'[t], Runs[t] \cup {p}, ~HasRoom(t)')
    <3> DEFINE full == ~HasRoom(t)
               full2 == ~HasRoom(t)'
               tab == htab[t]
               tab2 == htab'[t]
               runs == Runs[t]
    <3>1. /\ GnuFrames(s, old, tab, runs, full) /\ ~full
          /\ tab2[f] = p /\ p # 0 /\ p \notin runs /\ tab[f] = 0
          /\ \A g \in Functions \ {f} : tab2[g] = tab[g] /\ tab[g] # p
      BY <1>2, <1>9, <2>1, <2>2, <2>6 DEF old
    <3> HIDE DEF full, full2, tab, tab2, runs
    <3>2. GnuFrames(q, old, tab2, runs \cup {tab2[f]}, full2)
      BY <1>1, <3>1, FrameEntered DEF q, n, old
    <3> QED
      BY <3>1, <3>2 DEF full2, tab2, runs
  <2>8. GnuFrames(q, old, htab'[t], Runs'[t], ~HasRoom(t)') /\ \A u \in Threads \ {t} : htab'[u] = htab[u] /\ Runs'[u] = Runs[u]
    BY <2>5, <2>6, <2>7
  <2>9. GnuInv'
    BY <1>9, <1>10, <2>3, <2>4, <2>8
  <2> QED
    BY <1>3, <2>3, <2>9
<1> QED
  BY <1>1, <1>6, <1>7, <1>8, <1>9, <1>11 DEF __cyg_profile_func_enter

\* A call returns.
LEMMA GnuReturn ==
  ASSUME CalType, CalType', GnuInv, NEW t \in Threads, calls[t] # <<>>, Return(t),
         UNCHANGED <<gate, stage, table, htab, max_used>>, \A u \in Threads \ {t} : Runs'[u] = Runs[u],
         gate /\ table[t] # "destroyed" =>
           /\ table[t] = "none" => inherited[t] = Len(calls[t])
           /\ inherited[t] < Len(calls[t]) =>
                GnuFrames(SubSeq(calls[t], 1, Len(calls[t]) - 1), inherited[t], htab[t], Runs'[t], ~HasRoom(t))
           /\ inherited[t] = Len(calls[t]) => Runs'[t] = Runs[t]
  PROVE  GnuInv'
<1> DEFINE s == calls[t]
           q == SubSeq(s, 1, Len(s) - 1)
<1>1. /\ calls \in [Threads -> Seq(Functions)] /\ s \in Seq(Functions) /\ s # <<>> /\ inherited \in [Threads -> Nat]
      /\ table \in [Threads -> {"none", "made", "destroyed"}] /\ GnuThread(t) /\ inherited[t] <= Len(s)
      /\ calls' = [calls EXCEPT ![t] = q]
      /\ inherited' = [inherited EXCEPT ![t] = IF @ = Len(s) THEN @ - 1 ELSE @]
  BY DEF GnuInv, GnuThread, Return
<1>2. q \in Seq(Functions) /\ Len(s) \in Nat \ {0} /\ Len(q) = Len(s) - 1
  BY <1>1, Popped
<1> HIDE DEF q, s
<1>3. /\ inherited' \in [Threads -> Nat] /\ \A u \in Threads \ {t} : inherited'[u] = inherited[u]
      /\ inherited'[t] = (IF inherited[t] = Len(s) THEN Len(q) ELSE inherited[t]) /\ inherited'[t] <= Len(q)
  <2> DEFINE n == IF inherited[t] = Len(s) THEN inherited[t] - 1 ELSE inherited[t]
  <2>1. inherited' = [inherited EXCEPT ![t] = n] /\ inherited[t] \in Nat
    BY <1>1
  <2>2. n \in Nat /\ n = (IF inherited[t] = Len(s) THEN Len(q) ELSE inherited[t]) /\ n <= Len(q)
    <3>1. Len(q) \in Nat /\ Len(s) = Len(q) + 1 /\ inherited[t] \in Nat /\ inherited[t] <= Len(s)
      BY <1>1, <1>2, <2>1
    <3>2. CASE inherited[t] = Len(s)
      BY <3>1, <3>2
    <3>3. CASE inherited[t] # Len(s)
      BY <3>1, <3>3
    <3> QED
      BY <3>2, <3>3
  <2> HIDE DEF n
  <2>3. inherited'[t] = n /\ \A u \in Threads \ {t} : inherited'[u] = inherited[u]
    BY <1>1, <2>1
  <2>4. inherited' \in [Threads -> Nat]
    BY <1>1, <2>1, <2>2
  <2> QED
    BY <2>2, <2>3, <2>4
<1>4. calls'[t] = q /\ (HasRoom(t)' <=> HasRoom(t))
  BY <1>1 DEF HasRoom
<1>5. ASSUME gate, table[t] # "destroyed"
      PROVE  GnuFrames(q, inherited'[t], htab[t], Runs'[t], ~HasRoom(t)')
  <2> DEFINE full == ~HasRoom(t)
             full2 == ~HasRoom(t)'
  <2>0. full <=> full2
    BY <1>4
  <2>1. CASE inherited[t] < Len(s)
    <3>1. GnuFrames(q, inherited[t], htab[t], Runs'[t], full)
      BY <1>5, <2>1 DEF s, q
    <3>2. inherited'[t] = inherited[t]
      BY <1>2, <1>3, <2>1
    <3> HIDE DEF full, full2
    <3> QED
      BY <2>0, <3>1, <3>2 DEF GnuFrames, full2
  <2>2. CASE inherited[t] = Len(s)
    <3>1. GnuFrames(s, inherited[t], htab[t], Runs[t], full) /\ Runs'[t] = Runs[t]
      BY <1>1, <1>5, <2>2 DEF GnuThread, s
    <3>2. inherited'[t] = Len(q)
      BY <1>3, <2>2
    <3> HIDE DEF full, full2
    <3>3. \A f \in Functions : ~(htab[t][f] # 0 /\ htab[t][f] \in Runs'[t])
      BY <1>2, <2>2, <3>1 DEF GnuFrames
    <3>4. \A i \in inherited'[t] + 1 .. Len(q) : FALSE
      BY <1>2, <3>2
    <3> QED
      BY <3>3, <3>4 DEF GnuFrames
  <2> QED
    BY <1>1, <1>2, <2>1, <2>2
<1>6. GnuThread(t)'
  <2>1. inherited[t] = Len(s) => inherited'[t] = Len(q)
    BY <1>3
  <2>2. gate /\ table[t] = "none" => inherited[t] = Len(s)
    BY <1>1 DEF s
  <2> QED
    BY <1>1, <1>3, <1>4, <1>5, <2>1, <2>2 DEF GnuThread
<1>7. \A u \in Threads : max_used'[u] >= max_used[u]
  BY DEF CalType, Point
<1> QED
  BY <1>1, <1>2, <1>3, <1>6, <1>7, GnuFramesOfOne

\* __cyg_profile_func_exit: the point of the function that returns runs, unless it has
\* none or the parent entered it.
LEMMA GnuExit ==
  ASSUME CalType, CalType', GccInv, GnuInv, outcome = "running", program.keys = "own",
         NEW t \in Threads, __cyg_profile_func_exit(t)
  PROVE  GnuEnds' /\ (outcome' = "running" => GnuInv')
<1> DEFINE s == calls[t]
           q == SubSeq(s, 1, Len(s) - 1)
           f == Callee(t)
<1>1. /\ s \in Seq(Functions) /\ s # <<>> /\ UNCHANGED <<gate, stage, table, htab>> /\ KeyOf(f) = {f}
      /\ IF outcome' = "running" THEN Return(t) ELSE UNCHANGED <<calls, inherited>>
      /\ GnuThread(t) /\ inherited[t] \in Nat /\ inherited[t] <= Len(s)
      /\ table[t] \in {"none", "made", "destroyed"}
  <2>1. calls \in [Threads -> Seq(Functions)] /\ inherited \in [Threads -> Nat]
    BY DEF GnuInv
  <2> QED
    BY <2>1 DEF __cyg_profile_func_exit, CallReturns, KeyOf, GnuInv, GnuThread
<1>2. f = s[Len(s)] /\ f \in Functions /\ Len(s) \in 1 .. Len(s)
  BY <1>1, Popped DEF Callee
<1>3. gate /\ table[t] # "destroyed" => GnuFrames(s, inherited[t], htab[t], Runs[t], ~HasRoom(t))
  BY <1>1 DEF GnuThread
<1>4. outcome' = "running" => GnuEnds'
  BY DEF GnuEnds
<1>5. outcome' # "running" => (InheritedCall(t)' <=> inherited[t] = Len(s)) /\ calls'[t] = s /\ Callee(t)' = f
  <2>1. inherited[t] = Len(s) <=> Len(s) <= inherited[t]
    BY <1>1
  <2> QED
    BY <1>1, <2>1 DEF InheritedCall, Callee
<1>6. htab[t][f] \in Point /\ \A g \in Functions : g # f /\ htab[t][f] # 0 => htab[t][g] # htab[t][f]
  BY <1>2, TablePoints
<1>7. gate /\ table[t] # "destroyed" /\ inherited[t] < Len(s) =>
        IF htab[t][f] = 0 THEN ~HasRoom(t) ELSE htab[t][f] \in Runs[t]
  <2>1. inherited[t] < Len(s) => Len(s) \in inherited[t] + 1 .. Len(s)
    BY <1>1
  <2> QED
    BY <1>2, <1>3, <2>1 DEF GnuFrames
<1>8. CASE ~gate
  <2>1. outcome' = outcome /\ UNCHANGED <<cal, max_used>>
    BY <1>8 DEF __cyg_profile_func_exit, Ignored, caliper
  <2>2. Runs' = Runs
    BY <2>1 DEF Runs
  <2> QED
    BY <1>1, <1>4, <1>8, <2>1, <2>2, GnuReturn
<1>9. CASE gate /\ NoData(t)
  BY <1>9 DEF NoData, Error, GnuEnds
<1>10. CASE gate /\ table[t] # "made" /\ NoTable
  <2>1. outcome' = "noTable"
    BY <1>10 DEF NoTable, Error
  <2>2. CASE table[t] = "none"
    BY <1>1, <1>5, <1>10, <2>1, <2>2 DEF GnuThread, GnuEnds
  <2>3. CASE table[t] = "destroyed"
    BY <1>1, <2>1, <2>3 DEF GnuThread, GnuEnds
  <2> QED
    BY <1>1, <1>10, <2>2, <2>3
<1>11. CASE gate /\ HasData(t) /\ table[t] = "made" /\ htab[t][f] # 0 /\ papiex_stop(t, htab[t][f])
  <2> DEFINE p == htab[t][f]
  <2>1. CASE inherited[t] = Len(s)
    <3>1. p \notin Runs[t]
      <4>1. p \in Runs[t] => \E i \in inherited[t] + 1 .. Len(s) : s[i] = f
        BY <1>2, <1>3, <1>11 DEF GnuFrames
      <4>2. \A i \in inherited[t] + 1 .. Len(s) : FALSE
        BY <1>1, <2>1
      <4> QED
        BY <4>1, <4>2
    <3>2. outcome' = "notInUse"
      BY <1>6, <1>11, <3>1, NotRunning
    <3> QED
      BY <1>5, <2>1, <3>2 DEF GnuEnds
  <2>2. CASE inherited[t] < Len(s)
    <3>1. outcome' = "running" /\ Runs' = [Runs EXCEPT ![t] = @ \ {p}] /\ UNCHANGED max_used
      BY <1>6, <1>7, <1>11, <2>2, StopRuns
    <3>2. Runs'[t] = Runs[t] \ {p} /\ \A u \in Threads \ {t} : Runs'[u] = Runs[u]
      BY <3>1, RunsOf
    <3>3. GnuFrames(q, inherited[t], htab[t], Runs[t] \ {p}, ~HasRoom(t))
      <4> DEFINE full == ~HasRoom(t)
                 tab == htab[t]
                 runs == Runs[t]
                 old == inherited[t]
      <4>1. /\ GnuFrames(s, old, tab, runs, full) /\ old \in Nat /\ old < Len(s)
            /\ tab[s[Len(s)]] # 0 /\ \A g \in Functions : g # s[Len(s)] => tab[g] # tab[s[Len(s)]]
            /\ p = tab[s[Len(s)]]
        BY <1>1, <1>2, <1>3, <1>6, <1>11, <2>2
      <4> HIDE DEF full, tab, runs, old, p, f
      <4>2. GnuFrames(SubSeq(s, 1, Len(s) - 1), old, tab, runs \ {tab[s[Len(s)]]}, full)
        BY <1>1, <4>1, FrameLeft
      <4> QED
        BY <4>1, <4>2 DEF full, tab, runs, old
    <3>4. inherited[t] < Len(calls[t]) /\ inherited[t] # Len(calls[t])
      BY <1>1, <2>2
    <3>5. calls[t] # <<>> /\ Return(t) /\ UNCHANGED <<gate, stage, table, htab, max_used>> /\ table[t] = "made"
      BY <1>1, <1>11, <3>1
    <3>6. GnuFrames(SubSeq(calls[t], 1, Len(calls[t]) - 1), inherited[t], htab[t], Runs'[t], ~HasRoom(t))
      BY <3>2, <3>3
    <3> HIDE DEF p, f, q
    <3>7. GnuInv'
      BY <3>2, <3>4, <3>5, <3>6, GnuReturn
    <3> QED
      BY <1>4, <3>1, <3>7
  <2> QED
    BY <1>1, <1>2, <2>1, <2>2
<1>12. CASE gate /\ HasData(t) /\ table[t] = "made" /\ htab[t][f] = 0 /\ Error("notFound")
  <2>1. outcome' = "notFound" /\ calls' = calls /\ htab' = htab /\ max_used' = max_used
    BY <1>1, <1>12 DEF Error
  <2>2. calls'[t] # <<>> /\ htab'[t][Callee(t)'] = 0 /\ (InheritedCall(t)' \/ ~HasRoom(t)')
    <3>1. HasRoom(t)' <=> HasRoom(t)
      BY <2>1 DEF HasRoom
    <3>2. inherited[t] = Len(s) \/ inherited[t] < Len(s)
      BY <1>1, <1>2
    <3> QED
      BY <1>1, <1>5, <1>7, <1>12, <2>1, <3>1, <3>2
  <2> QED
    BY <2>1, <2>2 DEF GnuEnds
<1> QED
  BY <1>1, <1>8, <1>9, <1>10, <1>11, <1>12 DEF __cyg_profile_func_exit

\* ThreadShutdown, ForkChild: the frames go with the table, or with the parent.
LEMMA GnuEnd ==
  ASSUME CalType, CalType', GccInv, GnuInv, AnyProgram, outcome = "running", NEW t \in Threads,
         \/ ThreadShutdown(t) /\ 0 \in Runs[t]
         \/ ForkChild(t)
  PROVE  GnuEnds' /\ (outcome' = "running" => GnuInv')
<1>1. CASE ThreadShutdown(t) /\ 0 \in Runs[t]
  <2>1. /\ stage[t] = "counted" /\ papiex_stop(t, 0) /\ stage' = [stage EXCEPT ![t] = "shut"]
        /\ htab' = [htab EXCEPT ![t] = [k \in Key |-> 0]]
        /\ table' = [table EXCEPT ![t] = IF @ = "made" THEN "destroyed" ELSE @]
        /\ UNCHANGED <<gate, calls, inherited>> /\ HasData(t)
    BY <1>1 DEF ThreadShutdown, HasData
  <2>2. outcome' = "running" /\ Runs' = [Runs EXCEPT ![t] = @ \ {0}] /\ UNCHANGED max_used
    BY <1>1, <2>1, PointFacts, StopRuns
  <2>3. /\ calls \in [Threads -> Seq(Functions)] /\ inherited \in [Threads -> Nat] /\ GnuThread(t)
        /\ table \in [Threads -> {"none", "made", "destroyed"}]
    BY DEF GnuInv
  <2>4. table[t] # "destroyed" /\ table'[t] \in {"none", "destroyed"} /\ (table'[t] = "none" => table[t] = "none")
    BY <2>1, <2>3 DEF GnuThread
  <2>5. table' \in [Threads -> {"none", "made", "destroyed"}] /\ calls' = [calls EXCEPT ![t] = calls[t]]
    BY <2>1, <2>3
  <2>6. \A u \in Threads \ {t} : htab'[u] = htab[u] /\ Runs'[u] = Runs[u] /\ table'[u] = table[u] /\ stage'[u] = stage[u]
    BY <2>1, <2>2, RunsOf
  <2>7. GnuThread(t)'
    <3>1. inherited[t] <= Len(calls[t])
      BY <2>3 DEF GnuThread
    <3>2. table'[t] = "destroyed" => stage'[t] = "shut"
      BY <2>1 DEF AnyProgram
    <3>3. gate /\ table'[t] = "none" => inherited[t] = Len(calls[t])
      BY <2>3, <2>4 DEF GnuThread
    <3>4. ASSUME gate, table'[t] # "destroyed" PROVE GnuFrames(calls[t], inherited[t], htab'[t], Runs'[t], ~HasRoom(t)')
      <4>1. inherited[t] = Len(calls[t]) /\ Len(calls[t]) \in Nat
        BY <2>3, <2>4, <3>3, <3>4
      <4>2. \A i \in inherited[t] + 1 .. Len(calls[t]) : FALSE
        BY <4>1
      <4>3. \A f \in Functions : htab'[t][f] = 0
        BY <2>1 DEF Key, GccInv
      <4> QED
        BY <4>2, <4>3 DEF GnuFrames
    <3> QED
      BY <2>1, <3>1, <3>2, <3>3, <3>4 DEF GnuThread
  <2>8. \A u \in Threads : max_used'[u] >= max_used[u]
    BY <2>2 DEF CalType, Point
  <2>9. GnuInv'
    BY <2>1, <2>3, <2>5, <2>6, <2>7, <2>8, GnuFramesOfOne
  <2> QED
    BY <2>2, <2>9 DEF GnuEnds
<1>2. CASE ForkChild(t)
  <2>1. /\ outcome' = "running"
        /\ htab' = NoKey /\ table' = [o \in Threads |-> "none"]
        /\ calls' = [o \in Threads |-> IF o = t THEN calls[t] ELSE <<>>]
        /\ inherited' = [o \in Threads |-> IF o = t THEN Len(calls[t]) ELSE 0]
    BY <1>2 DEF ForkChild
  <2>2. calls[t] \in Seq(Functions) /\ Len(calls[t]) \in Nat
    BY DEF GnuInv
  <2>3. \A o \in Threads : inherited'[o] = Len(calls'[o]) /\ Len(calls'[o]) \in Nat
    BY <2>1, <2>2
  <2>4. calls' \in [Threads -> Seq(Functions)] /\ inherited' \in [Threads -> Nat]
    BY <2>1, <2>2
  <2>5. ASSUME NEW o \in Threads PROVE GnuThread(o)'
    <3>1. \A i \in inherited'[o] + 1 .. Len(calls'[o]) : FALSE
      BY <2>3
    <3>2. \A f \in Functions : htab'[o][f] = 0
      BY <2>1 DEF NoKey, Key
    <3>3. GnuFrames(calls'[o], inherited'[o], htab'[o], Runs'[o], ~HasRoom(o)')
      BY <3>1, <3>2 DEF GnuFrames
    <3> QED
      BY <2>1, <2>3, <3>3 DEF GnuThread
  <2>6. GnuInv'
    BY <2>1, <2>4, <2>5 DEF GnuInv
  <2> QED
    BY <2>1, <2>6 DEF GnuEnds
<1> QED
  BY <1>1, <1>2

\* The number of a unit, whatever its sign, is that of a point.
LEMMA UnitPoint ==
  ASSUME PathscaleInv, UnitsInv, NEW u \in Units
  PROVE  /\ pu[u].point \in Int
         /\ pu[u].point > 0 => pu[u].point \in Point \ {0}
         /\ pu[u].point < 0 => -pu[u].point \in Point \ {0}
<1>1. pu[u].point \in Int
  BY DEF PathscaleInv
<1>2. CASE pu[u].by = {}
  BY <1>1, <1>2 DEF PathscaleInv
<1>3. CASE pu[u].by # {}
  <2>1. PICK t \in pu[u].by : t \in Threads
    BY <1>3 DEF PathscaleInv
  <2>2. /\ -total_points[t] < pu[u].point /\ pu[u].point < total_points[t]
        /\ total_points[t] \in Nat /\ total_points[t] <= MaxCalipers
    BY <2>1 DEF PathscaleInv, UnitsInv, ThreadUnits
  <2> QED
    BY <1>1, <2>2, NatAssumption DEF Point
<1> QED
  BY <1>2, <1>3

\* What a step leaves as it is for a thread.
LEMMA ThreadKept ==
  ASSUME UnitsInv, NEW x \in Threads, calls'[x] = calls[x], seen'[x] = seen[x], entered'[x] = entered[x],
         inherited'[x] = inherited[x], Runs'[x] \ {0} = Runs[x] \ {0},
         total_points'[x] <= MaxCalipers, UNCHANGED program, gate' => gate,
         \A u \in entered[x] : pu'[u].point = pu[u].point,
         \A i \in 1 .. Len(calls[x]) : pu'[calls[x][i]].by # {},
         gate' => \A i \in 1 .. Len(calls[x]) : pu'[calls[x][i]].point = pu[calls[x][i]].point \/ (~Counting(x, i) /\ ~Counting(x, i)'),
         \A u \in seen[x] : pu'[u].point # 0 /\ (pu'[u].point > 0 => \E o \in Threads \ {x} : u \in entered'[o])
  PROVE  ThreadUnits(x)' /\ (gate' => ThreadOpen(x)')
<1>1. ThreadUnits(x) /\ (gate => ThreadOpen(x)) /\ inherited[x] \in Nat /\ inherited[x] <= Len(calls[x])
  BY DEF UnitsInv
<1>2. Callee(x)' = Callee(x)
  BY DEF Callee
<1>3. ThreadUnits(x)'
  <2>1. \A p \in Runs'[x] \ {0} : \E u \in entered[x] : pu'[u].point = p
    BY <1>1 DEF ThreadUnits
  <2>2. \A u \in entered[x] : pu'[u].point > 0
    BY <1>1 DEF ThreadUnits
  <2>3. \A u \in seen[x] : calls[x] # <<>> /\ Callee(x) = u
    BY <1>1 DEF ThreadUnits
  <2> QED
    BY <1>2, <2>1, <2>2, <2>3 DEF ThreadUnits
<1>4. ASSUME gate' PROVE ThreadOpen(x)'
  <2>1. \A i \in 1 .. Len(calls[x]) : Counting(x, i)' => Counting(x, i) /\ pu'[calls[x][i]].point = pu[calls[x][i]].point
    BY <1>4 DEF Counting
  <2>2. gate /\ ThreadOpen(x)
    BY <1>1, <1>4
  <2>3. \A i \in inherited[x] + 1 .. Len(calls[x]) : i \in 1 .. Len(calls[x])
    BY <1>1
  <2>4. \A i \in 1 .. Len(calls[x]) : Counting(x, i)' => pu'[calls[x][i]].point > 0
    BY <2>1, <2>2 DEF ThreadOpen
  <2>5. \A i \in inherited[x] + 1 .. Len(calls[x]) :
          Counting(x, i)' => calls[x][i] \in entered[x] /\ pu'[calls[x][i]].point \in Runs'[x]
    <3> SUFFICES ASSUME NEW i \in inherited[x] + 1 .. Len(calls[x]), Counting(x, i)'
                 PROVE  calls[x][i] \in entered[x] /\ pu'[calls[x][i]].point \in Runs'[x]
      OBVIOUS
    <3>1. Counting(x, i) /\ pu'[calls[x][i]].point = pu[calls[x][i]].point /\ pu[calls[x][i]].point # 0
      BY <2>1, <2>3 DEF Counting
    <3>2. calls[x][i] \in entered[x] /\ pu[calls[x][i]].point \in Runs[x]
      BY <2>2, <3>1 DEF ThreadOpen
    <3> QED
      BY <3>1, <3>2
  <2>6. program.mode = "func" =>
          \A i, j \in inherited[x] + 1 .. Len(calls[x]) :
            Counting(x, i)' /\ Counting(x, j)' /\ i # j => pu'[calls[x][i]].point # pu'[calls[x][j]].point
    BY <2>1, <2>2, <2>3 DEF ThreadOpen
  <2> QED
    BY <2>4, <2>5, <2>6 DEF ThreadOpen
<1> QED
  BY <1>3, <1>4

\* A thread that does nothing, while no number of a unit changes.
LEMMA OtherThread ==
  ASSUME PathscaleInv, UnitsInv, NEW x \in Threads, calls'[x] = calls[x], seen'[x] = seen[x], entered'[x] = entered[x],
         inherited'[x] = inherited[x], Runs'[x] \ {0} = Runs[x] \ {0}, UNCHANGED <<program, pu, total_points>>, gate' => gate,
         \A o \in Threads : entered[o] \subseteq entered'[o]
  PROVE  ThreadUnits(x)' /\ (gate' => ThreadOpen(x)')
<1>1. ThreadUnits(x)
  BY DEF UnitsInv
<1>2. \A u \in seen[x] : pu[u].point # 0 /\ (pu[u].point > 0 => \E o \in Threads \ {x} : u \in entered'[o])
  BY <1>1 DEF ThreadUnits
<1>3. total_points'[x] <= MaxCalipers /\ \A i \in 1 .. Len(calls[x]) : pu'[calls[x][i]].by # {}
  BY <1>1 DEF ThreadUnits
<1> QED
  BY <1>2, <1>3, ThreadKept

\* Nothing the hooks depend on changes, or the gate is closed.
LEMMA UnitsSame ==
  ASSUME PathscaleInv, UnitsInv, UNCHANGED <<program, calls, inherited, entered, seen, total_points, pu>>, gate' => gate,
         \A x \in Threads : Runs'[x] \ {0} = Runs[x] \ {0}
  PROVE  UnitsInv'
<1>1. ASSUME NEW x \in Threads PROVE ThreadUnits(x)' /\ (gate' => ThreadOpen(x)')
  BY OtherThread
<1> QED
  BY <1>1 DEF UnitsInv

\* UnitInit: nobody is inside of a unit before that.
LEMMA UnitInitOpen ==
  ASSUME PathscaleInv, UnitsInv, NEW t \in Threads, NEW w \in Units, UnitInit(t, w), outcome' = "running"
  PROVE  UnitsInv'
<1>1. /\ pu[w].by = {} /\ pu[w].point = 0
      /\ UNCHANGED <<program, gate, calls, inherited, entered, seen>> /\ (outcome' = "running" => cal' = cal)
  BY DEF UnitInit, PathscaleInv, caliper, NoData, Error, Ignored
<1>2. Runs' = Runs
  BY <1>1 DEF Runs
<1>3. /\ pu'[w].by # {} /\ \A u \in Units \ {w} : pu'[u] = pu[u]
      /\ \A x \in Threads : total_points'[x] <= MaxCalipers
  <2>1. \A x \in Threads : total_points[x] \in Nat /\ total_points[x] <= MaxCalipers
    BY DEF PathscaleInv, UnitsInv, ThreadUnits
  <2>2. CASE pu' = [pu EXCEPT ![w].by = {t}] /\ UNCHANGED total_points
    BY <2>1, <2>2 DEF PathscaleInv
  <2>3. CASE /\ pu' = [pu EXCEPT ![w] = [point |-> -total_points[t], by |-> {t}]]
             /\ total_points' = [total_points EXCEPT ![t] = @ + 1] /\ total_points[t] + 1 <= MaxCalipers
    BY <2>1, <2>3, NatAssumption DEF PathscaleInv
  <2> QED
    BY <2>2, <2>3 DEF UnitInit, NoData, Error
<1>4. ASSUME NEW x \in Threads PROVE ThreadUnits(x)' /\ (gate' => ThreadOpen(x)')
  <2>1. /\ calls[x] \in Seq(Units) /\ entered[x] \subseteq Units /\ seen[x] \subseteq Units /\ ThreadUnits(x)
    BY DEF UnitsInv
  <2>2. \A i \in 1 .. Len(calls[x]) : calls[x][i] \in Units /\ calls[x][i] # w /\ pu[calls[x][i]].by # {}
    BY <1>1, <2>1 DEF ThreadUnits
  <2>3. w \notin entered[x] /\ w \notin seen[x]
    BY <1>1, <2>1 DEF ThreadUnits
  <2>4. \A i \in 1 .. Len(calls[x]) : pu'[calls[x][i]] = pu[calls[x][i]]
    BY <1>3, <2>2
  <2>5. \A u \in entered[x] \cup seen[x] : pu'[u] = pu[u]
    BY <1>3, <2>1, <2>3
  <2>6. \A u \in seen[x] : pu[u].point # 0 /\ (pu[u].point > 0 => \E o \in Threads \ {x} : u \in entered[o])
    BY <2>1 DEF ThreadUnits
  <2>7. \A u \in seen[x] : pu'[u].point # 0 /\ (pu'[u].point > 0 => \E o \in Threads \ {x} : u \in entered'[o])
    BY <1>1, <2>5, <2>6
  <2> QED
    BY <1>1, <1>2, <1>3, <2>2, <2>4, <2>5, <2>7, ThreadKept
<1> QED
  BY <1>1, <1>4 DEF UnitsInv

\* UnitEntry: the point of a unit is free unless the thread has entered the unit before
\* or another unit has the same point.
LEMMA UnitEntryOpen ==
  ASSUME CalType, CalType', PathscaleInv, UnitsInv, outcome = "running",
         NEW t \in Threads, NEW w \in Units, UnitEntry(t, w)
  PROVE  UnitEnds' /\ (outcome' = "running" => UnitsInv')
<1> DEFINE s == calls[t]
           q == Append(s, w)
           n == Len(s)
           old == inherited[t]
<1>1. /\ UNCHANGED <<program, gate, pu, total_points, inherited>> /\ pu[w].by # {} /\ seen[t] = {}
      /\ calls \in [Threads -> Seq(Units)] /\ calls' = [calls EXCEPT ![t] = q] /\ s \in Seq(Units)
      /\ ThreadUnits(t) /\ (gate => ThreadOpen(t)) /\ pu[w].point \in Int
      /\ entered \in [Threads -> SUBSET Units] /\ seen \in [Threads -> SUBSET Units]
      /\ inherited \in [Threads -> Nat] /\ \A x \in Threads : inherited[x] <= Len(calls[x])
  BY UnitPoint DEF UnitEntry, Pathscale, UnitsInv
<1>2. /\ q \in Seq(Units) /\ q # <<>> /\ n \in Nat /\ Len(q) = n + 1 /\ q[n + 1] = w
      /\ \A i \in 1 .. n : q[i] = s[i] /\ s[i] \in Units
      /\ old \in Nat /\ old <= n /\ old + 1 .. n \subseteq 1 .. n /\ n + 1 \in old + 1 .. n + 1
  BY <1>1, Pushed
<1> HIDE DEF q, n, old
<1>3. /\ calls' \in [Threads -> Seq(Units)] /\ calls'[t] = q
      /\ \A x \in Threads \ {t} : calls'[x] = calls[x]
      /\ inherited'[t] = old /\ \A x \in Threads : inherited'[x] = inherited[x] /\ inherited'[x] <= Len(calls'[x])
  <2>1. calls'[t] = q /\ \A x \in Threads \ {t} : calls'[x] = calls[x]
    BY <1>1, <1>2
  <2>2. calls' \in [Threads -> Seq(Units)]
    BY <1>1, <1>2
  <2>3. inherited[t] <= Len(q)
    BY <1>2 DEF old
  <2> QED
    BY <1>1, <2>1, <2>2, <2>3 DEF old
<1>4. Callee(t)' = w
  BY <1>2, <1>3 DEF Callee
<1>5. outcome' = "running" => UnitEnds'
  BY DEF UnitEnds
<1>6. /\ \A i \in 1 .. Len(q) : i \in 1 .. n \/ i = n + 1
      /\ \A i \in old + 1 .. Len(q) : i \in old + 1 .. n \/ i = n + 1
  BY <1>2
<1>7. \A i \in 1 .. Len(q) : pu[q[i]].by # {}
  <2>1. \A k \in 1 .. n : pu[s[k]].by # {}
    BY <1>1 DEF ThreadUnits, n
  <2> QED
    BY <1>1, <1>2, <1>6, <2>1
<1>8. \A i \in 1 .. n : Counting(t, i) <=> pu[s[i]].point # 0
  BY <1>1 DEF Counting
<1>9. gate => /\ \A i \in 1 .. n : pu[s[i]].point # 0 => pu[s[i]].point > 0
              /\ \A i \in old + 1 .. n : pu[s[i]].point # 0 => s[i] \in entered[t] /\ pu[s[i]].point \in Runs[t]
              /\ program.mode = "func" =>
                   \A i, j \in old + 1 .. n : pu[s[i]].point # 0 /\ pu[s[j]].point # 0 /\ i # j => pu[s[i]].point # pu[s[j]].point
  BY <1>1, <1>2, <1>8 DEF ThreadOpen, n, old
<1>10. CASE /\ Ignored /\ UNCHANGED entered
            /\ \/ (~gate \/ pu[w].point = 0) /\ UNCHANGED seen
               \/ gate /\ pu[w].point < 0 /\ seen' = [seen EXCEPT ![t] = {w}]
  <2>1. outcome' = "running" /\ Runs' = Runs
    BY <1>10 DEF Ignored, caliper, Runs
  <2>2. seen' \in [Threads -> SUBSET Units] /\ \A x \in Threads \ {t} : seen'[x] = seen[x]
    BY <1>1, <1>10
  <2>3. ASSUME NEW x \in Threads \ {t} PROVE ThreadUnits(x)' /\ (gate' => ThreadOpen(x)')
    BY <1>1, <1>3, <1>10, <2>1, <2>2, OtherThread
  <2>4. \A u \in seen'[t] : u = w /\ pu[w].point < 0
    BY <1>1, <1>10
  <2>5. ThreadUnits(t)'
    <3>1. \A u \in seen'[t] : calls'[t] # <<>> /\ Callee(t)' = u /\ pu[u].point # 0 /\ ~(pu[u].point > 0)
      BY <1>1, <1>2, <1>3, <1>4, <2>4
    <3>2. /\ total_points[t] <= MaxCalipers /\ \A u \in entered[t] : pu[u].point > 0
          /\ \A r \in Runs[t] \ {0} : \E u \in entered[t] : pu[u].point = r
      BY <1>1 DEF ThreadUnits
    <3> QED
      BY <1>1, <1>3, <1>7, <1>10, <2>1, <3>1, <3>2 DEF ThreadUnits
  <2>6. ASSUME gate, NEW i \in 1 .. Len(q), Counting(t, i)'
        PROVE  i # n + 1 /\ i \in 1 .. n /\ q[i] = s[i] /\ pu[s[i]].point # 0
    <3>1. pu[q[i]].point # 0 /\ ~(i = n + 1 /\ seen'[t] # {})
      BY <1>1, <1>2, <1>3, <2>6 DEF Counting
    <3>2. pu[w].point = 0 \/ seen'[t] # {}
      BY <1>1, <1>10, <2>6
    <3>3. i # n + 1
      BY <1>2, <3>1, <3>2
    <3> QED
      BY <1>2, <1>6, <3>1, <3>3
  <2>7. ASSUME gate PROVE ThreadOpen(t)'
    <3>0. \A i \in old + 1 .. Len(q) : i \in 1 .. Len(q) /\ (i # n + 1 => i \in old + 1 .. n)
      BY <1>2, <1>6
    <3>1. \A i \in 1 .. Len(q) : Counting(t, i)' => pu[q[i]].point > 0
      BY <1>9, <2>6, <2>7
    <3>2. \A i \in old + 1 .. Len(q) : Counting(t, i)' => q[i] \in entered[t] /\ pu[q[i]].point \in Runs[t]
      BY <1>9, <2>6, <2>7, <3>0
    <3>3. program.mode = "func" =>
            \A i, j \in old + 1 .. Len(q) : Counting(t, i)' /\ Counting(t, j)' /\ i # j => pu[q[i]].point # pu[q[j]].point
      BY <1>9, <2>6, <2>7, <3>0
    <3> QED
      BY <1>1, <1>3, <1>10, <2>1, <3>1, <3>2, <3>3 DEF ThreadOpen
  <2>8. \A x \in Threads : ThreadUnits(x)' /\ (gate' => ThreadOpen(x)')
    BY <1>1, <2>3, <2>5, <2>7
  <2> QED
    BY <1>1, <1>3, <1>5, <1>10, <2>1, <2>2, <2>8 DEF UnitsInv
<1>11. CASE /\ gate /\ pu[w].point > 0 /\ papiex_start(t, pu[w].point) /\ UNCHANGED seen
            /\ entered' = [entered EXCEPT ![t] = IF outcome' = "running" THEN @ \cup {w} ELSE @]
  <2> DEFINE p == pu[w].point
  <2>0. CASE ~HasData(t)
    BY <1>11, <2>0 DEF papiex_start, HasData, NoData, Error, UnitEnds
  <2> SUFFICES ASSUME HasData(t) PROVE UnitEnds' /\ (outcome' = "running" => UnitsInv')
    BY <2>0
  <2>1. p \in Point \ {0}
    BY <1>11, UnitPoint
  <2>2. /\ p \in Runs[t] => outcome' = "inUse"
        /\ p \notin Runs[t] => outcome' = "running" /\ Runs' = [Runs EXCEPT ![t] = @ \cup {p}]
    BY <1>11, <2>1, StartRuns
  <2>3. CASE p \in Runs[t]
    <3>1. PICK u \in entered[t] : pu[u].point = p
      BY <1>1, <2>1, <2>3 DEF ThreadUnits
    <3>2. u \in Units /\ entered'[t] = entered[t]
      BY <1>1, <1>11, <2>2, <2>3
    <3>3. CASE u = w
      <4>1. calls'[t] # <<>> /\ Callee(t)' \in entered'[t]
        BY <1>2, <1>3, <1>4, <3>2, <3>3
      <4> QED
        BY <2>2, <2>3, <4>1 DEF UnitEnds
    <3>4. CASE u # w
      <4>1. Shared(w)'
        BY <1>1, <2>1, <3>1, <3>2, <3>4 DEF Shared
      <4>2. calls'[t] # <<>> /\ Shared(Callee(t))'
        BY <1>2, <1>3, <1>4, <4>1 DEF Shared
      <4> QED
        BY <2>2, <2>3, <4>2 DEF UnitEnds
    <3> QED
      BY <3>3, <3>4
  <2>4. CASE p \notin Runs[t]
    <3>1. outcome' = "running" /\ Runs' = [Runs EXCEPT ![t] = @ \cup {p}]
      BY <2>2, <2>4
    <3>2. /\ Runs'[t] = Runs[t] \cup {p} /\ \A x \in Threads \ {t} : Runs'[x] = Runs[x]
          /\ entered' \in [Threads -> SUBSET Units]
          /\ entered'[t] = entered[t] \cup {w} /\ \A x \in Threads \ {t} : entered'[x] = entered[x]
      BY <1>1, <1>11, <3>1, RunsOf
    <3>3. \A x \in Threads : entered[x] \subseteq entered'[x]
      BY <3>2
    <3>4. ASSUME NEW x \in Threads \ {t} PROVE ThreadUnits(x)' /\ (gate' => ThreadOpen(x)')
      BY <1>1, <1>3, <1>11, <3>2, <3>3, OtherThread
    <3>5. \A u \in entered'[t] : pu[u].point > 0
      BY <1>1, <1>11, <3>2 DEF ThreadUnits
    <3>6. \A r \in Runs'[t] \ {0} : \E u \in entered'[t] : pu[u].point = r
      BY <1>1, <3>2 DEF ThreadUnits
    <3>7. ThreadUnits(t)'
      BY <1>1, <1>3, <1>7, <1>11, <3>5, <3>6 DEF ThreadUnits
    <3>8. \A i \in 1 .. Len(q) : Counting(t, i)' => pu[q[i]].point # 0
      BY <1>1, <1>3 DEF Counting
    <3>9. /\ \A i \in 1 .. n : pu[q[i]].point # 0 => pu[q[i]].point > 0
          /\ \A i \in old + 1 .. n : pu[q[i]].point # 0 => q[i] \in entered[t] /\ pu[q[i]].point \in Runs[t] /\ pu[q[i]].point # p
      BY <1>2, <1>9, <1>11, <2>4
    <3>10. pu[q[n + 1]].point = p /\ q[n + 1] = w /\ p > 0
      BY <1>2, <1>11
    <3>11. program.mode = "func" =>
             \A i, j \in old + 1 .. n : pu[q[i]].point # 0 /\ pu[q[j]].point # 0 /\ i # j => pu[q[i]].point # pu[q[j]].point
      BY <1>2, <1>9, <1>11
    <3> HIDE DEF p
    <3>12. /\ \A i \in 1 .. Len(q) : pu[q[i]].point # 0 => pu[q[i]].point > 0
           /\ \A i \in old + 1 .. Len(q) : pu[q[i]].point # 0 => q[i] \in entered'[t] /\ pu[q[i]].point \in Runs'[t]
      BY <1>6, <3>2, <3>9, <3>10
    <3>13. program.mode = "func" =>
             \A i, j \in old + 1 .. Len(q) : pu[q[i]].point # 0 /\ pu[q[j]].point # 0 /\ i # j => pu[q[i]].point # pu[q[j]].point
      BY <1>6, <3>9, <3>10, <3>11
    <3>14. ThreadOpen(t)'
      <4>1. \A i \in old + 1 .. Len(q) : i \in 1 .. Len(q)
        BY <1>2, <1>6
      <4> QED
        BY <1>1, <1>3, <3>8, <3>12, <3>13, <4>1 DEF ThreadOpen
    <3>15. \A x \in Threads : ThreadUnits(x)' /\ (gate' => ThreadOpen(x)')
      BY <3>4, <3>7, <3>14
    <3> QED
      BY <1>1, <1>3, <1>5, <1>11, <3>1, <3>2, <3>15 DEF UnitsInv
  <2> QED
    BY <2>3, <2>4
<1> QED
  BY <1>10, <1>11 DEF UnitEntry

\* FirstEntry: the number of the unit turns positive, and only if another thread has
\* done that already, negative again.
LEMMA FirstEntryOpen ==
  ASSUME CalType, CalType', PathscaleInv, UnitsInv, outcome = "running", NEW t \in Threads, FirstEntry(t)
  PROVE  UnitEnds' /\ (outcome' = "running" => UnitsInv')
<1>1. PICK u \in seen[t] :
        /\ pu' = [pu EXCEPT ![u].point = -@] /\ papiex_start(t, -pu[u].point)
        /\ entered' = [entered EXCEPT ![t] = IF outcome' = "running" THEN @ \cup {u} ELSE @]
  BY DEF FirstEntry
<1>2. /\ calls \in [Threads -> Seq(Units)] /\ entered \in [Threads -> SUBSET Units] /\ seen \in [Threads -> SUBSET Units]
      /\ inherited \in [Threads -> Nat] /\ \A x \in Threads : inherited[x] <= Len(calls[x])
      /\ UNCHANGED <<program, gate, calls, inherited, total_points>> /\ seen' = [seen EXCEPT ![t] = {}] /\ u \in Units
      /\ ThreadUnits(t) /\ (gate => ThreadOpen(t)) /\ pu[u].point \in Int
  <2>1. u \in Units
    BY <1>1 DEF UnitsInv
  <2> QED
    BY <2>1, UnitPoint DEF FirstEntry, UnitsInv
<1>3. /\ calls[t] # <<>> /\ Callee(t) = u /\ pu[u].point # 0
      /\ pu[u].point > 0 => \E o \in Threads \ {t} : u \in entered[o]
  BY <1>1, <1>2 DEF ThreadUnits
<1>4. Callee(t)' = u
  BY <1>2, <1>3 DEF Callee
<1>5. /\ pu'[u].point = -pu[u].point /\ \A v \in Units \ {u} : pu'[v] = pu[v]
      /\ \A v \in Units : pu'[v].by = pu[v].by
  BY <1>1, <1>2 DEF PathscaleInv
<1>6. outcome' = "running" => UnitEnds'
  BY DEF UnitEnds
<1>9. CASE ~HasData(t)
  BY <1>1, <1>9 DEF papiex_start, HasData, NoData, Error, UnitEnds
<1>7. CASE pu[u].point > 0 /\ HasData(t)
  <2>1. outcome' = "range"
    <3>1. -pu[u].point < 0 /\ -pu[u].point \notin Point /\ ~(-pu[u].point >= MaxCalipers)
      BY <1>2, <1>7, NatAssumption DEF Point
    <3> QED
      BY <1>1, <1>7, <3>1 DEF papiex_start, NoData, HasData, Error
  <2>2. entered' = entered
    BY <1>1, <1>2, <2>1
  <2>3. calls'[t] # <<>> /\ pu'[Callee(t)'].point < 0 /\ \E o \in Threads \ {t} : Callee(t)' \in entered'[o]
    BY <1>2, <1>3, <1>4, <1>5, <1>7, <2>2
  <2> QED
    BY <2>1, <2>3 DEF UnitEnds
<1>8. CASE pu[u].point < 0 /\ HasData(t)
  <2> DEFINE p == -pu[u].point
  <2>1. p \in Point \ {0} /\ p > 0 /\ pu'[u].point = p
    BY <1>2, <1>5, <1>8, UnitPoint
  <2>2. /\ p \in Runs[t] => outcome' = "inUse"
        /\ p \notin Runs[t] => outcome' = "running" /\ Runs' = [Runs EXCEPT ![t] = @ \cup {p}]
    BY <1>1, <1>8, <2>1, StartRuns
  <2>3. \A x \in Threads : \A v \in entered[x] : v \in Units \ {u} /\ pu'[v] = pu[v]
    <3>1. \A x \in Threads : \A v \in entered[x] : v \in Units /\ pu[v].point > 0
      BY <1>2 DEF UnitsInv, ThreadUnits
    <3> QED
      BY <1>2, <1>5, <1>8, <3>1
  <2>4. CASE p \in Runs[t]
    <3>1. PICK v \in entered[t] : pu[v].point = p
      BY <1>2, <2>1, <2>4 DEF ThreadUnits
    <3>2. v \in Units \ {u} /\ pu'[v].point = p
      BY <2>3, <3>1
    <3>3. Shared(u)'
      BY <1>2, <2>1, <3>2 DEF Shared
    <3>4. calls'[t] # <<>> /\ Shared(Callee(t))'
      BY <1>2, <1>3, <1>4, <3>3 DEF Shared
    <3> QED
      BY <2>2, <2>4, <3>4 DEF UnitEnds
  <2>5. CASE p \notin Runs[t]
    <3>1. outcome' = "running" /\ Runs' = [Runs EXCEPT ![t] = @ \cup {p}]
      BY <2>2, <2>5
    <3>2. /\ Runs'[t] = Runs[t] \cup {p} /\ \A x \in Threads \ {t} : Runs'[x] = Runs[x]
          /\ entered' \in [Threads -> SUBSET Units]
          /\ entered'[t] = entered[t] \cup {u} /\ \A x \in Threads \ {t} : entered'[x] = entered[x]
          /\ seen' \in [Threads -> SUBSET Units]
          /\ seen'[t] = {} /\ \A x \in Threads \ {t} : seen'[x] = seen[x]
      BY <1>1, <1>2, <3>1, RunsOf
    <3>3. \A x \in Threads : entered[x] \subseteq entered'[x]
      BY <3>2
    <3>4. ASSUME NEW x \in Threads \ {t} PROVE ThreadUnits(x)' /\ (gate' => ThreadOpen(x)')
      <4>1. ThreadUnits(x) /\ (gate => ThreadOpen(x)) /\ calls[x] \in Seq(Units) /\ seen[x] \subseteq Units
        BY <1>2 DEF UnitsInv
      <4>2. \A v \in entered[x] : pu'[v].point = pu[v].point
        BY <2>3
      <4>3. \A i \in 1 .. Len(calls[x]) : calls[x][i] \in Units
        BY <4>1
      <4>4. \A i \in 1 .. Len(calls[x]) : pu'[calls[x][i]].by # {}
        BY <1>5, <4>1, <4>3 DEF ThreadUnits
      <4>5. ASSUME gate, NEW i \in 1 .. Len(calls[x])
            PROVE  pu'[calls[x][i]].point = pu[calls[x][i]].point \/ (~Counting(x, i) /\ ~Counting(x, i)')
        <5>1. CASE calls[x][i] = u
          <6>1. ~Counting(x, i)
            BY <1>2, <1>8, <4>1, <4>5, <5>1 DEF ThreadOpen
          <6>2. ~Counting(x, i)'
            BY <1>2, <1>3, <3>2, <5>1, <6>1 DEF Counting
          <6> QED
            BY <6>1, <6>2
        <5>2. CASE calls[x][i] # u
          BY <1>5, <4>3, <5>2
        <5> QED
          BY <5>1, <5>2
      <4>6. ASSUME NEW v \in seen[x]
            PROVE  pu'[v].point # 0 /\ (pu'[v].point > 0 => \E o \in Threads \ {x} : v \in entered'[o])
        <5>1. CASE v = u
          BY <2>1, <3>2, <5>1
        <5>2. CASE v # u
          <6>1. pu'[v] = pu[v]
            BY <1>5, <4>1, <5>2
          <6>2. pu[v].point # 0 /\ (pu[v].point > 0 => \E o \in Threads \ {x} : v \in entered[o])
            BY <4>1 DEF ThreadUnits
          <6> QED
            BY <3>3, <6>1, <6>2
        <5> QED
          BY <5>1, <5>2
      <4>7. total_points'[x] <= MaxCalipers /\ calls'[x] = calls[x]
        BY <1>2, <4>1 DEF ThreadUnits
      <4> QED
        BY <1>2, <3>2, <4>2, <4>4, <4>5, <4>6, <4>7, ThreadKept
    <3>5. ThreadUnits(t)'
      <4>1. \A v \in entered'[t] : pu'[v].point > 0
        <5>1. \A v \in entered[t] : pu[v].point > 0
          BY <1>2 DEF ThreadUnits
        <5> QED
          BY <2>1, <2>3, <3>2, <5>1
      <4>2. ASSUME NEW r \in Runs'[t] \ {0} PROVE \E v \in entered'[t] : pu'[v].point = r
        <5>1. CASE r = p
          BY <2>1, <3>2, <5>1
        <5>2. CASE r # p
          <6>1. PICK v \in entered[t] : pu[v].point = r
            BY <1>2, <3>2, <5>2 DEF ThreadUnits
          <6> QED
            BY <2>3, <3>2, <6>1
        <5> QED
          BY <5>1, <5>2
      <4>3. \A i \in 1 .. Len(calls[t]) : pu'[calls[t][i]].by # {}
        <5>1. \A i \in 1 .. Len(calls[t]) : pu[calls[t][i]].by # {}
          BY <1>2 DEF ThreadUnits
        <5>2. \A i \in 1 .. Len(calls[t]) : calls[t][i] \in Units
          BY <1>2
        <5> QED
          BY <1>5, <5>1, <5>2
      <4>4. total_points'[t] <= MaxCalipers
        BY <1>2 DEF ThreadUnits
      <4> QED
        BY <1>2, <3>2, <4>1, <4>2, <4>3, <4>4 DEF ThreadUnits
    <3>6. ASSUME gate PROVE ThreadOpen(t)'
      <4> DEFINE s == calls[t]
                 n == Len(s)
                 old == inherited[t]
      <4>1. n \in Nat /\ s[n] = u /\ \A i \in 1 .. n : s[i] \in Units /\ (i # n => i \in 1 .. n - 1)
        BY <1>2, <1>3 DEF Callee
      <4>2. /\ \A i \in 1 .. n : i # n => (Counting(t, i) <=> pu[s[i]].point # 0)
            /\ \A i \in old + 1 .. n : i \in 1 .. n
        BY <1>2 DEF Counting
      <4>3. /\ \A i \in 1 .. n : Counting(t, i) => pu[s[i]].point > 0
            /\ \A i \in old + 1 .. n : Counting(t, i) => s[i] \in entered[t] /\ pu[s[i]].point \in Runs[t]
            /\ program.mode = "func" =>
                 \A i, j \in old + 1 .. n : Counting(t, i) /\ Counting(t, j) /\ i # j => pu[s[i]].point # pu[s[j]].point
        BY <1>2, <3>6 DEF ThreadOpen
      <4>4. \A i \in 1 .. n : Counting(t, i)' => pu'[s[i]].point # 0
        BY <1>2 DEF Counting
      <4> HIDE DEF s, n, old
      <4>5. \A i \in 1 .. n : i # n => s[i] # u
        <5>1. \A i \in 1 .. n : i # n /\ s[i] = u => pu[s[i]].point # 0 /\ ~(pu[s[i]].point > 0)
          BY <1>2, <1>3, <1>8
        <5> QED
          BY <4>2, <4>3, <5>1
      <4>6. \A i \in 1 .. n : i # n => pu'[s[i]] = pu[s[i]]
        BY <1>5, <4>1, <4>5
      <4> HIDE DEF p
      <4>7. ASSUME NEW i \in old + 1 .. n, pu'[s[i]].point # 0
            PROVE  s[i] \in entered'[t] /\ pu'[s[i]].point \in Runs'[t]
        <5>1. CASE i = n
          BY <2>1, <3>2, <4>1, <5>1
        <5>2. CASE i # n
          BY <3>2, <4>2, <4>3, <4>6, <4>7, <5>2
        <5> QED
          BY <5>1, <5>2
      <4>8. ASSUME program.mode = "func", NEW i \in old + 1 .. n, NEW j \in old + 1 .. n, i # j,
                   pu'[s[i]].point # 0, pu'[s[j]].point # 0
            PROVE  pu'[s[i]].point # pu'[s[j]].point
        <5>1. CASE i # n /\ j # n
          BY <4>2, <4>3, <4>6, <4>8, <5>1
        <5>2. CASE i = n
          BY <2>1, <2>5, <4>1, <4>2, <4>3, <4>6, <4>8, <5>2
        <5>3. CASE j = n
          BY <2>1, <2>5, <4>1, <4>2, <4>3, <4>6, <4>8, <5>3
        <5> QED
          BY <5>1, <5>2, <5>3
      <4>9. calls'[t] = s /\ program' = program /\ inherited'[t] = old
        BY <1>2 DEF s, old
      <4>10. \A i \in 1 .. n : pu'[s[i]].point # 0 => pu'[s[i]].point > 0
        BY <2>1, <4>1, <4>2, <4>3, <4>6
      <4> QED
        BY <4>2, <4>4, <4>7, <4>8, <4>9, <4>10 DEF ThreadOpen, n
    <3>7. \A x \in Threads : ThreadUnits(x)' /\ (gate' => ThreadOpen(x)')
      BY <1>2, <3>4, <3>5, <3>6
    <3> QED
      BY <1>2, <1>6, <3>1, <3>2, <3>7 DEF UnitsInv
  <2> QED
    BY <2>4, <2>5
<1> QED
  BY <1>2, <1>3, <1>7, <1>8, <1>9

\* The calls of one thread after a step.
LEMMA OpenAfter ==
  ASSUME NEW t \in Threads, NEW q, calls'[t] = q,
         \A i \in 1 .. Len(q) : Counting(t, i)' => pu'[q[i]].point > 0,
         \A i \in inherited'[t] + 1 .. Len(q) : Counting(t, i)' => q[i] \in entered'[t] /\ pu'[q[i]].point \in Runs'[t],
         program'.mode = "func" =>
           \A i, j \in inherited'[t] + 1 .. Len(q) :
             Counting(t, i)' /\ Counting(t, j)' /\ i # j => pu'[q[i]].point # pu'[q[j]].point
  PROVE  ThreadOpen(t)'
  BY DEF ThreadOpen

\* The innermost call is left; the points of the other ones run on.
LEMMA UnitLeft ==
  ASSUME PathscaleInv, UnitsInv, NEW t \in Threads, seen[t] = {}, calls[t] # <<>>, Return(t),
         UNCHANGED <<program, gate, pu, total_points, seen, entered>>,
         \A x \in Threads \ {t} : Runs'[x] = Runs[x], Runs'[t] \subseteq Runs[t],
         gate => \A i \in inherited[t] + 1 .. Len(calls[t]) - 1 :
                   pu[calls[t][i]].point # 0 => pu[calls[t][i]].point \in Runs'[t]
  PROVE  UnitsInv'
<1> DEFINE s == calls[t]
           q == SubSeq(s, 1, Len(s) - 1)
           old == inherited[t]
<1>1. /\ calls \in [Threads -> Seq(Units)] /\ s \in Seq(Units) /\ entered \in [Threads -> SUBSET Units]
      /\ seen \in [Threads -> SUBSET Units] /\ ThreadUnits(t) /\ (gate => ThreadOpen(t))
      /\ inherited \in [Threads -> Nat] /\ \A x \in Threads : inherited[x] <= Len(calls[x])
      /\ calls' = [calls EXCEPT ![t] = q]
      /\ inherited' = [inherited EXCEPT ![t] = IF @ = Len(s) THEN @ - 1 ELSE @]
  BY DEF UnitsInv, Return
<1>2. /\ q \in Seq(Units) /\ Len(s) \in Nat \ {0} /\ Len(q) = Len(s) - 1 /\ old \in Nat /\ old <= Len(s)
      /\ \A i \in 1 .. Len(s) - 1 : q[i] = s[i] /\ i \in 1 .. Len(s)
  BY <1>1, Popped
<1> DEFINE n == IF old = Len(s) THEN old - 1 ELSE old
<1>3. /\ calls' \in [Threads -> Seq(Units)] /\ calls'[t] = q
      /\ \A x \in Threads \ {t} : calls'[x] = calls[x] /\ inherited'[x] = inherited[x]
      /\ inherited'[t] = n
  BY <1>1, <1>2
<1>8. n \in Nat /\ n <= Len(q) /\ \A i \in n + 1 .. Len(q) : i \in old + 1 .. Len(s) - 1
  <2>1. CASE old = Len(s)
    BY <1>2, <2>1
  <2>2. CASE old # Len(s)
    BY <1>2, <2>2
  <2> QED
    BY <2>1, <2>2
<1>9. inherited' \in [Threads -> Nat] /\ \A x \in Threads : inherited'[x] <= Len(calls'[x])
  <2>1. inherited' \in [Threads -> Nat]
    BY <1>1, <1>8
  <2>2. inherited'[t] <= Len(calls'[t])
    BY <1>3, <1>8
  <2> QED
    BY <1>1, <1>3, <2>1, <2>2
<1> HIDE DEF q, s, n, old
<1>4. ASSUME NEW x \in Threads \ {t} PROVE ThreadUnits(x)' /\ (gate' => ThreadOpen(x)')
  BY <1>3, OtherThread
<1>5. ThreadUnits(t)'
  <2>1. \A i \in 1 .. Len(q) : pu[q[i]].by # {}
    BY <1>1, <1>2 DEF ThreadUnits, s
  <2> QED
    BY <1>1, <1>3, <2>1 DEF ThreadUnits
<1>6. ASSUME gate PROVE ThreadOpen(t)'
  <2>1. \A i \in 1 .. Len(q) : i \in 1 .. Len(s) /\ q[i] = s[i] /\ (Counting(t, i) <=> pu[q[i]].point # 0)
    BY <1>2 DEF Counting, s
  <2>2. \A i \in 1 .. Len(q) : Counting(t, i)' => pu[q[i]].point # 0
    BY <1>3 DEF Counting
  <2>3. \A i \in n + 1 .. Len(q) : i \in 1 .. Len(q) /\ i \in old + 1 .. Len(s) - 1 /\ i \in old + 1 .. Len(s)
    BY <1>2, <1>8
  <2>4. pu' = pu /\ entered' = entered /\ program' = program
    OBVIOUS
  <2>5. \A i \in 1 .. Len(q) : Counting(t, i)' => pu'[q[i]].point > 0
    BY <1>1, <1>6, <2>1, <2>2, <2>4 DEF ThreadOpen, s
  <2>6. \A i \in n + 1 .. Len(q) : Counting(t, i)' => q[i] \in entered'[t] /\ pu'[q[i]].point \in Runs'[t]
    BY <1>1, <1>2, <1>6, <2>1, <2>2, <2>3, <2>4 DEF ThreadOpen, s, old
  <2>7. program'.mode = "func" =>
          \A i, j \in n + 1 .. Len(q) : Counting(t, i)' /\ Counting(t, j)' /\ i # j => pu'[q[i]].point # pu'[q[j]].point
    BY <1>1, <1>6, <2>1, <2>2, <2>3, <2>4 DEF ThreadOpen, s, old
  <2> QED
    BY <1>3, <2>5, <2>6, <2>7, OpenAfter
<1>7. \A x \in Threads : ThreadUnits(x)' /\ (gate' => ThreadOpen(x)')
  BY <1>4, <1>5, <1>6
<1> QED
  BY <1>1, <1>3, <1>7, <1>9 DEF UnitsInv

\* The point of the unit a thread is inside of exists; it runs if the thread entered the
\* unit in this process.
LEMMA CalleeRuns ==
  ASSUME PathscaleInv, UnitsInv, NEW t \in Threads, seen[t] = {}, calls[t] # <<>>, gate, pu[Callee(t)].point # 0
  PROVE  /\ pu[Callee(t)].point \in Point \ {0}
         /\ ~InheritedCall(t) => pu[Callee(t)].point \in Runs[t]
         /\ \A i \in inherited[t] + 1 .. Len(calls[t]) - 1 : pu[calls[t][i]].point # 0 =>
              /\ pu[calls[t][i]].point \in Runs[t]
              /\ program.mode = "func" => pu[calls[t][i]].point # pu[Callee(t)].point
<1>1. calls[t] \in Seq(Units) /\ entered[t] \subseteq Units /\ ThreadUnits(t) /\ ThreadOpen(t) /\ inherited[t] \in Nat
  BY DEF UnitsInv
<1>2. /\ Len(calls[t]) \in 1 .. Len(calls[t])
      /\ ~InheritedCall(t) => Len(calls[t]) \in inherited[t] + 1 .. Len(calls[t])
      /\ \A i \in inherited[t] + 1 .. Len(calls[t]) - 1 :
           /\ i \in inherited[t] + 1 .. Len(calls[t]) /\ i # Len(calls[t])
           /\ Len(calls[t]) \in inherited[t] + 1 .. Len(calls[t])
  BY <1>1, Popped DEF InheritedCall
<1>3. \A i \in 1 .. Len(calls[t]) : Counting(t, i) <=> pu[calls[t][i]].point # 0
  BY DEF Counting
<1>4. \A i \in inherited[t] + 1 .. Len(calls[t]) : i \in 1 .. Len(calls[t])
  BY <1>1
<1>5. Callee(t) \in Units /\ pu[Callee(t)].point > 0
  BY <1>1, <1>2, <1>3, Popped DEF Callee, ThreadOpen
<1>6. pu[Callee(t)].point \in Point \ {0}
  BY <1>5, UnitPoint
<1>7. \A i \in inherited[t] + 1 .. Len(calls[t]) - 1 : pu[calls[t][i]].point # 0 =>
        /\ pu[calls[t][i]].point \in Runs[t]
        /\ program.mode = "func" => pu[calls[t][i]].point # pu[Callee(t)].point
  BY <1>1, <1>2, <1>3, <1>4 DEF Callee, ThreadOpen
<1>8. ~InheritedCall(t) => pu[Callee(t)].point \in Runs[t]
  BY <1>1, <1>2, <1>3, <1>4 DEF Callee, ThreadOpen
<1> QED
  BY <1>6, <1>7, <1>8

\* ProfileLoopIter, LoopLeft, ProfileCallExit: the point that is used runs, unless the
\* call is one the parent made.
LEMMA UnitExits ==
  ASSUME CalType, CalType', PathscaleInv, UnitsInv, outcome = "running", NEW t \in Threads,
         ProfileLoopIter(t) \/ LoopLeft(t) \/ ProfileCallExit(t)
  PROVE  UnitEnds' /\ (outcome' = "running" => UnitsInv')
<1>1. calls[t] # <<>> /\ seen[t] = {} /\ UNCHANGED <<program, gate, pu, total_points, seen, entered>>
  BY DEF ProfileLoopIter, LoopLeft, ProfileCallExit, Pathscale, hooks
<1>2. outcome' = "running" => UnitEnds'
  BY DEF UnitEnds
<1>3. gate => \A i \in inherited[t] + 1 .. Len(calls[t]) - 1 :
                pu[calls[t][i]].point # 0 => pu[calls[t][i]].point \in Runs[t]
  <2> SUFFICES ASSUME gate, NEW i \in inherited[t] + 1 .. Len(calls[t]) - 1, pu[calls[t][i]].point # 0
               PROVE  pu[calls[t][i]].point \in Runs[t]
    OBVIOUS
  <2>1. ThreadOpen(t) /\ calls[t] \in Seq(Units) /\ inherited[t] \in Nat
    BY DEF UnitsInv
  <2>2. i \in inherited[t] + 1 .. Len(calls[t]) /\ i \in 1 .. Len(calls[t]) /\ Counting(t, i)
    BY <1>1, <2>1 DEF Counting
  <2> QED
    BY <2>1, <2>2 DEF ThreadOpen
<1>4. CASE ProfileLoopIter(t)
  <2>1. /\ gate /\ pu[Callee(t)].point # 0 /\ papiex_accum(t, pu[Callee(t)].point)
        /\ UNCHANGED <<calls, inherited>>
    BY <1>4 DEF ProfileLoopIter, hooks
  <2>2. CASE ~HasData(t)
    BY <2>1, <2>2 DEF papiex_accum, HasData, NoData, Error, UnitEnds
  <2>3. CASE HasData(t) /\ pu[Callee(t)].point \in Runs[t]
    <3>1. outcome' = "running" /\ Runs' = Runs
      BY <1>1, <2>1, <2>3, CalleeRuns, AccumRuns
    <3> QED
      BY <1>1, <1>2, <2>1, <3>1, UnitsSame
  <2>4. CASE HasData(t) /\ pu[Callee(t)].point \notin Runs[t]
    <3>1. outcome' = "notInUse" /\ InheritedCall(t)
      BY <1>1, <2>1, <2>4, CalleeRuns, NotRunning
    <3> QED
      BY <2>1, <3>1 DEF UnitEnds, InheritedCall
  <2> QED
    BY <2>2, <2>3, <2>4
<1>5. CASE LoopLeft(t)
  <2>1. outcome' = "running" /\ UNCHANGED cal /\ Return(t)
    BY <1>5 DEF LoopLeft, caliper
  <2>2. Runs' = Runs
    BY <2>1 DEF Runs
  <2> QED
    BY <1>1, <1>2, <1>3, <2>1, <2>2, UnitLeft
<1>6. CASE ProfileCallExit(t)
  <2>1. /\ IF ~gate \/ pu[Callee(t)].point = 0 THEN Ignored ELSE papiex_stop(t, pu[Callee(t)].point)
        /\ IF outcome' = "running" THEN Return(t) ELSE UNCHANGED <<calls, inherited>>
        /\ program.mode = "func"
    BY <1>6 DEF ProfileCallExit, CallReturns
  <2>2. CASE Ignored
    <3>1. outcome' = "running" /\ UNCHANGED cal
      BY <2>2 DEF Ignored, caliper
    <3>2. Runs' = Runs
      BY <3>1 DEF Runs
    <3> QED
      BY <1>1, <1>2, <1>3, <2>1, <3>1, <3>2, UnitLeft
  <2>3. CASE ~Ignored
    <3>1. gate /\ pu[Callee(t)].point # 0 /\ papiex_stop(t, pu[Callee(t)].point)
      BY <2>1, <2>3
    <3>2. /\ pu[Callee(t)].point \in Point \ {0} /\ (~InheritedCall(t) => pu[Callee(t)].point \in Runs[t])
          /\ \A i \in inherited[t] + 1 .. Len(calls[t]) - 1 : pu[calls[t][i]].point # 0 =>
               pu[calls[t][i]].point \in Runs[t] \ {pu[Callee(t)].point}
      BY <1>1, <2>1, <3>1, CalleeRuns
    <3>3. CASE ~HasData(t)
      BY <3>1, <3>3 DEF papiex_stop, HasData, NoData, Error, UnitEnds
    <3>4. CASE HasData(t) /\ pu[Callee(t)].point \in Runs[t]
      <4>1. outcome' = "running" /\ Runs' = [Runs EXCEPT ![t] = @ \ {pu[Callee(t)].point}]
        BY <3>1, <3>2, <3>4, StopRuns
      <4>2. Runs'[t] = Runs[t] \ {pu[Callee(t)].point} /\ \A x \in Threads \ {t} : Runs'[x] = Runs[x]
        BY <4>1, RunsOf
      <4> QED
        BY <1>1, <1>2, <2>1, <3>2, <4>1, <4>2, UnitLeft
    <3>5. CASE HasData(t) /\ pu[Callee(t)].point \notin Runs[t]
      <4>1. outcome' = "notInUse" /\ InheritedCall(t)
        BY <3>1, <3>2, <3>5, NotRunning
      <4> QED
        BY <2>1, <4>1 DEF UnitEnds, InheritedCall
    <3> QED
      BY <3>3, <3>4, <3>5
  <2> QED
    BY <2>2, <2>3
<1> QED
  BY <1>4, <1>5, <1>6

\* ThreadShutdown, ForkChild: point 0 is nobody's unit; a child has entered none.
LEMMA UnitEnd ==
  ASSUME CalType, CalType', PathscaleInv, UnitsInv, outcome = "running", NEW t \in Threads,
         \/ ThreadShutdown(t) /\ 0 \in Runs[t]
         \/ ForkChild(t)
  PROVE  UnitEnds' /\ (outcome' = "running" => UnitsInv')
<1>1. CASE ThreadShutdown(t) /\ 0 \in Runs[t]
  <2>1. /\ HasData(t) /\ papiex_stop(t, 0)
        /\ UNCHANGED <<program, gate, calls, inherited, entered, seen, total_points, pu>>
    BY <1>1 DEF ThreadShutdown, HasData
  <2>2. outcome' = "running" /\ Runs' = [Runs EXCEPT ![t] = @ \ {0}]
    BY <1>1, <2>1, PointFacts, StopRuns
  <2>3. \A x \in Threads : Runs'[x] \ {0} = Runs[x] \ {0}
    BY <2>2, RunsOf
  <2> QED
    BY <2>1, <2>2, <2>3, UnitsSame DEF UnitEnds
<1>2. CASE ForkChild(t)
  <2>1. /\ outcome' = "running" /\ UNCHANGED <<program, gate, pu, total_points>>
        /\ calls' = [o \in Threads |-> IF o = t THEN calls[t] ELSE <<>>]
        /\ inherited' = [o \in Threads |-> IF o = t THEN Len(calls[t]) ELSE 0]
        /\ entered' = [o \in Threads |-> {}] /\ seen' = [o \in Threads |-> {}] /\ cal' = Started
        /\ gate /\ seen[t] = {}
    BY <1>2 DEF ForkChild
  <2>2. /\ calls[t] \in Seq(Units) /\ Len(calls[t]) \in Nat /\ ThreadUnits(t) /\ ThreadOpen(t)
        /\ \A x \in Threads : ThreadUnits(x)
    BY <2>1 DEF UnitsInv
  <2>3. /\ calls' \in [Threads -> Seq(Units)] /\ inherited' \in [Threads -> Nat]
        /\ \A o \in Threads : inherited'[o] = Len(calls'[o]) /\ Len(calls'[o]) \in Nat
        /\ entered' \in [Threads -> SUBSET Units] /\ seen' \in [Threads -> SUBSET Units]
    BY <2>1, <2>2
  <2>4. \A o \in Threads : Runs'[o] \subseteq {0}
    BY <2>1 DEF Runs, Started, Unused
  <2>5. ASSUME NEW o \in Threads PROVE ThreadUnits(o)' /\ ThreadOpen(o)'
    <3>1. \A i \in 1 .. Len(calls'[o]) : o = t /\ calls'[o][i] = calls[t][i] /\ i \in 1 .. Len(calls[t])
      BY <2>1
    <3>2. \A i \in 1 .. Len(calls'[o]) : pu[calls'[o][i]].by # {}
      BY <2>2, <3>1 DEF ThreadUnits
    <3>3. ThreadUnits(o)'
      BY <2>1, <2>2, <2>4, <3>2 DEF ThreadUnits
    <3>4. \A i \in 1 .. Len(calls'[o]) : Counting(o, i)' => pu'[calls'[o][i]].point > 0
      BY <2>1, <2>2, <3>1 DEF ThreadOpen, Counting
    <3>5. \A i \in inherited'[o] + 1 .. Len(calls'[o]) : FALSE
      BY <2>3
    <3>6. ThreadOpen(o)'
      BY <3>4, <3>5 DEF ThreadOpen
    <3> QED
      BY <3>3, <3>6
  <2>6. UnitsInv'
    BY <2>3, <2>5 DEF UnitsInv
  <2> QED
    BY <2>1, <2>6 DEF UnitEnds
<1> QED
  BY <1>1, <1>2

\* Which hook a step of a thread runs.
LEMMA HookOf ==
  ASSUME NEW t \in Threads, Step(t)
  PROVE  /\ outcome = "running" /\ program' = program
         /\ \/ UNCHANGED <<stage, gate, outcome, cal, max_used, htab, table, calls, inherited, pu, total_points, seen, entered>>
            \/ ThreadShutdown(t) \/ ForkChild(t) \/ UserCall(t)
            \/ program.mode = "gnu" /\ ((\E f \in Functions : __cyg_profile_func_enter(t, f)) \/ __cyg_profile_func_exit(t))
            \/ program.mode \in {"loop", "func"} /\ (\E u \in Units : UnitInit(t, u) \/ UnitEntry(t, u))
            \/ program.mode \in {"loop", "func"} /\ (ProfileLoopIter(t) \/ LoopLeft(t) \/ ProfileCallExit(t))
            \/ FirstEntry(t)
<1>1. CASE Tick(t)
  BY <1>1 DEF Tick, caliper, hooks
<1>2. CASE UserCall(t)
  BY <1>2 DEF UserCall, Mode
<1>3. CASE (\E f \in Functions : __cyg_profile_func_enter(t, f)) \/ __cyg_profile_func_exit(t)
  BY <1>3 DEF __cyg_profile_func_enter, __cyg_profile_func_exit, Mode
<1>4. CASE \E u \in Units : LoopInit(t, u) \/ CallInit(t, u) \/ ProfileLoop(t, u) \/ ProfileCallEntry(t, u)
  BY <1>4 DEF LoopInit, CallInit, ProfileLoop, ProfileCallEntry, UnitInit, UnitEntry, Pathscale
<1>5. CASE FirstEntry(t)
  BY <1>5 DEF FirstEntry
<1>6. CASE ProfileLoopIter(t) \/ LoopLeft(t) \/ ProfileCallExit(t)
  BY <1>6 DEF ProfileLoopIter, LoopLeft, ProfileCallExit, Pathscale
<1>7. CASE IoEnter(t) \/ IoLeave(t) \/ MpiCall(t)
  BY <1>7 DEF IoEnter, IoLeave, MpiCall, OtherMpiCall, MPI_Barrier, MPI_Wait, MPI_Waitall, MPI_Waitany,
              MPI_Waitsome, MpiEnter, Enter, MpiLeave, Mode, caliper, hooks
<1>8. CASE ThreadShutdown(t) \/ ForkChild(t)
  BY <1>8 DEF ThreadShutdown, ForkChild
<1> QED
  BY <1>1, <1>2, <1>3, <1>4, <1>5, <1>6, <1>7, <1>8 DEF Step

\* What the operations do in any program: point 0 goes on, and a thread with data does not
\* meet the error for none.
LEMMA AnyOperation ==
  ASSUME CalType, CalType', AnyProgram, outcome = "running", program.mode # "io", NEW t \in Threads,
         UNCHANGED <<program, stage>>,
         \/ UNCHANGED <<outcome, cal>>
         \/ outcome' \in {"notFound", "noTable"}
         \/ NoData(t)
         \/ \E p : papiex_start(t, p) \/ (papiex_stop(t, p) /\ p # 0) \/ papiex_accum(t, p),
         program.mode \notin {"loop", "func"} => UNCHANGED seen
  PROVE  AnyProgram'
<1>1. outcome' = "noData" => stage[t] = "stranger"
  <2>1. CASE \E p : papiex_start(t, p) \/ papiex_stop(t, p) \/ papiex_accum(t, p)
    BY <2>1, OnlyStrangers
  <2> QED
    BY <2>1 DEF NoData
<1>2. ASSUME outcome' = "running" PROVE \A u \in Threads : 0 \in Runs[u] => 0 \in Runs'[u]
  <2>1. CASE \E p : papiex_start(t, p) \/ (papiex_stop(t, p) /\ p # 0) \/ papiex_accum(t, p)
    BY <2>1, ZeroRuns
  <2>2. CASE cal' = cal
    BY <2>2 DEF Runs
  <2> QED
    BY <1>2, <2>1, <2>2 DEF NoData, Error
<1> QED
  BY <1>1, <1>2 DEF AnyProgram

\* Every step of any program.
LEMMA AnyStep ==
  ASSUME CalType, CalType', GccInv, PathscaleInv, HooksInv, AnyProgram, [Next]_vars
  PROVE  AnyProgram'
<1> USE DEF NoTable, Error, Ignored, caliper, hooks
<1>1. CASE UNCHANGED <<program, stage, outcome, cal, seen>>
  <2>1. Runs' = Runs
    BY <1>1 DEF Runs
  <2> QED
    BY <1>1, <2>1 DEF AnyProgram
<1>2. ASSUME NEW t \in Threads, Step(t) PROVE AnyProgram'
  <2>1. outcome = "running" /\ program' = program
    BY <1>2, HookOf
  <2>2. CASE UserCall(t)
    <3>1. \E p : papiex_start(t, p) \/ (papiex_stop(t, p) /\ p # 0) \/ papiex_accum(t, p)
      BY <2>2 DEF UserCall, UserPoint
    <3>2. program.mode # "io" /\ UNCHANGED <<program, stage, seen>>
      BY <2>2 DEF UserCall, Mode
    <3> QED
      BY <2>1, <3>1, <3>2, AnyOperation
  <2>3. ASSUME NEW f \in Functions, __cyg_profile_func_enter(t, f) PROVE AnyProgram'
    <3>1. program.mode # "io" /\ UNCHANGED <<program, stage, seen>>
      BY <2>3 DEF __cyg_profile_func_enter, Mode
    <3>2. \/ UNCHANGED <<outcome, cal>> \/ outcome' = "noTable" \/ NoData(t) \/ \E p : papiex_start(t, p)
      BY <2>3 DEF __cyg_profile_func_enter
    <3> QED
      BY <2>1, <3>1, <3>2, AnyOperation
  <2>4. CASE __cyg_profile_func_exit(t)
    <3>1. program.mode # "io" /\ UNCHANGED <<program, stage, seen>>
      BY <2>4 DEF __cyg_profile_func_exit, Mode
    <3>2. \/ UNCHANGED <<outcome, cal>> \/ outcome' \in {"notFound", "noTable"} \/ NoData(t)
          \/ \E p : papiex_stop(t, p) /\ p # 0
      BY <2>4 DEF __cyg_profile_func_exit
    <3> QED
      BY <2>1, <3>1, <3>2, AnyOperation
  <2>5. ASSUME NEW u \in Units, UnitInit(t, u) \/ UnitEntry(t, u) PROVE AnyProgram'
    <3>1. program.mode \in {"loop", "func"} /\ UNCHANGED <<program, stage>>
      BY <2>5 DEF UnitInit, UnitEntry, Pathscale
    <3>2. \/ UNCHANGED <<outcome, cal>> \/ NoData(t) \/ \E p : papiex_start(t, p)
      BY <2>5 DEF UnitInit, UnitEntry
    <3> QED
      BY <2>1, <3>1, <3>2, AnyOperation
  <2>6. CASE FirstEntry(t)
    <3>1. program.mode \in {"loop", "func"}
      BY <2>6 DEF FirstEntry, AnyProgram
    <3>2. UNCHANGED <<program, stage>> /\ \E p : papiex_start(t, p)
      BY <2>6 DEF FirstEntry
    <3> QED
      BY <2>1, <3>1, <3>2, AnyOperation
  <2>7. CASE ProfileLoopIter(t) \/ LoopLeft(t) \/ ProfileCallExit(t)
    <3>1. program.mode \in {"loop", "func"} /\ UNCHANGED <<program, stage>>
      BY <2>7 DEF ProfileLoopIter, LoopLeft, ProfileCallExit, Pathscale
    <3>2. \/ UNCHANGED <<outcome, cal>> \/ \E p : (papiex_stop(t, p) /\ p # 0) \/ papiex_accum(t, p)
      BY <2>7 DEF ProfileLoopIter, LoopLeft, ProfileCallExit
    <3> QED
      BY <2>1, <3>1, <3>2, AnyOperation
  <2>8. CASE ThreadShutdown(t)
    <3>1. /\ HasData(t) /\ 0 \in Runs[t] /\ papiex_stop(t, 0) /\ UNCHANGED seen
          /\ stage' = [stage EXCEPT ![t] = "shut"]
      BY <2>1, <2>8 DEF ThreadShutdown, HasData, AnyProgram
    <3>2. outcome' = "running" /\ Runs' = [Runs EXCEPT ![t] = @ \ {0}]
      BY <2>1, <3>1, PointFacts, StopRuns
    <3>3. \A u \in Threads \ {t} : Runs'[u] = Runs[u]
      BY <3>2, RunsOf
    <3>4. /\ stage' \in [Threads -> {"stranger", "counted", "shut", "gone"}] /\ stage'[t] = "shut"
          /\ \A u \in Threads \ {t} : stage'[u] = stage[u]
      BY <3>1 DEF AnyProgram
    <3> QED
      BY <2>1, <3>1, <3>2, <3>3, <3>4 DEF AnyProgram
  <2>9. CASE ForkChild(t)
    <3>1. /\ outcome' = "running" /\ stage' = [o \in Threads |-> IF o = t THEN "counted" ELSE "gone"]
          /\ cal' = Started /\ seen' = [o \in Threads |-> {}]
      BY <2>1, <2>9 DEF ForkChild
    <3>2. \A u \in Threads : 0 \in Runs'[u]
      BY <3>1, PointFacts DEF Runs, Started, Unused
    <3> QED
      BY <2>1, <3>1, <3>2 DEF AnyProgram
  <2> QED
    BY <1>1, <1>2, <2>1, <2>2, <2>3, <2>4, <2>5, <2>6, <2>7, <2>8, <2>9, HookOf
<1> QED
  BY <1>1, <1>2 DEF Next, CloseGate, vars

\* Nothing the hooks depend on changes.
LEMMA HooksSame ==
  ASSUME CalType, CalType', PathscaleInv, HooksInv, gate' => gate,
         UNCHANGED <<program, stage, outcome, cal, max_used, htab, table, calls, inherited, pu, total_points, seen, entered>>
  PROVE  HooksInv'
<1>1. Runs' = Runs
  BY DEF Runs
<1>2. UnitsInv => UnitsInv'
  BY <1>1, UnitsSame
<1>3. GnuInv => GnuInv'
  BY <1>1 DEF GnuInv, GnuThread, GnuFrames, HasRoom
<1>4. GnuEnds => GnuEnds'
  BY DEF GnuEnds, Twice, Callee, HasRoom, InheritedCall
<1>5. UnitEnds => UnitEnds'
  BY DEF UnitEnds, Callee, Shared, InheritedCall
<1> QED
  BY <1>2, <1>3, <1>4, <1>5 DEF HooksInv

\* Every step keeps what the hooks know of the functions and units a thread is inside of.
LEMMA HooksStep ==
  ASSUME CalType, CalType', GccInv, PathscaleInv, AnyProgram, HooksInv, [Next]_vars
  PROVE  HooksInv'
<1>1. CASE CloseGate
  BY <1>1, HooksSame DEF CloseGate, caliper, hooks
<1>2. CASE UNCHANGED vars
  BY <1>2, HooksSame DEF vars, caliper, hooks
<1>3. ASSUME NEW t \in Threads, Step(t) PROVE HooksInv'
  <2>1. outcome = "running" /\ program' = program
    BY <1>3, HookOf
  <2>2. CASE UNCHANGED <<stage, gate, outcome, cal, max_used, htab, table, calls, inherited, pu, total_points, seen, entered>>
    BY <2>1, <2>2, HooksSame
  <2>3. CASE program.mode = "gnu" /\ ((\E f \in Functions : __cyg_profile_func_enter(t, f)) \/ __cyg_profile_func_exit(t))
    BY <2>1, <2>3, GnuEnter, GnuExit DEF HooksInv
  <2>4. CASE program.mode \in {"loop", "func"} /\ \E u \in Units : UnitInit(t, u) \/ UnitEntry(t, u)
    <3>1. PICK u \in Units : UnitInit(t, u) \/ UnitEntry(t, u)
      BY <2>4
    <3>2. UnitInit(t, u) => UnitEnds'
      BY <2>1 DEF UnitInit, UnitEnds, NoData, Error, Ignored, caliper
    <3>3. UnitsInv
      BY <2>1, <2>4 DEF HooksInv
    <3>4. UnitEnds' /\ (outcome' = "running" => UnitsInv')
      BY <2>1, <3>1, <3>2, <3>3, UnitInitOpen, UnitEntryOpen
    <3> QED
      BY <2>1, <2>4, <3>4 DEF HooksInv
  <2>5. CASE program.mode \in {"loop", "func"} /\ (ProfileLoopIter(t) \/ LoopLeft(t) \/ ProfileCallExit(t))
    <3>1. UnitsInv
      BY <2>1, <2>5 DEF HooksInv
    <3>2. UnitEnds' /\ (outcome' = "running" => UnitsInv')
      BY <2>1, <2>5, <3>1, UnitExits
    <3> QED
      BY <2>1, <2>5, <3>2 DEF HooksInv
  <2>6. CASE FirstEntry(t)
    <3>1. program.mode \in {"loop", "func"}
      BY <2>6 DEF FirstEntry, AnyProgram
    <3>2. UnitsInv
      BY <2>1, <3>1 DEF HooksInv
    <3>3. UnitEnds' /\ (outcome' = "running" => UnitsInv')
      BY <2>1, <2>6, <3>2, FirstEntryOpen
    <3> QED
      BY <2>1, <3>1, <3>3 DEF HooksInv
  <2>7. CASE UserCall(t)
    BY <2>1, <2>7 DEF UserCall, Mode, HooksInv
  <2>8. CASE ThreadShutdown(t) \/ ForkChild(t)
    <3>1. ThreadShutdown(t) => 0 \in Runs[t]
      BY <2>1 DEF ThreadShutdown, AnyProgram
    <3>2. GnuInv => GnuEnds' /\ (outcome' = "running" => GnuInv')
      BY <2>1, <2>8, <3>1, GnuEnd
    <3>3. UnitsInv => UnitEnds' /\ (outcome' = "running" => UnitsInv')
      BY <2>1, <2>8, <3>1, UnitEnd
    <3> QED
      BY <2>1, <3>2, <3>3 DEF HooksInv
  <2> QED
    BY <1>3, <2>2, <2>3, <2>4, <2>5, <2>6, <2>7, <2>8, HookOf
<1> QED
  BY <1>1, <1>2, <1>3 DEF Next

\* gcc.c and pathscale.c: instrumentation ends the program only for the reasons that
\* KilledOnlyKnown lists, in any program, with any nesting of functions and units in any
\* number of threads, with fork children and threads that are shut down in the middle of
\* their calls; and no thread's shutdown ever fails to stop its point 0.
THEOREM EndedForKnownReasons == Spec => []KilledOnlyKnown
<1> DEFINE Inv == CaliperInv /\ GccInv /\ PathscaleInv /\ AnyProgram /\ HooksInv
<1>1. Init => Inv
  <2> SUFFICES ASSUME Init PROVE AnyProgram /\ HooksInv
    BY CaliperInit, PointsInit
  <2>1. /\ outcome = "running"
        /\ \A t \in Threads : calls[t] = <<>> /\ inherited[t] = 0 /\ seen[t] = {} /\ entered[t] = {} /\ total_points[t] = 1
        /\ calls = [t \in Threads |-> <<>>] /\ seen = [t \in Threads |-> {}] /\ entered = [t \in Threads |-> {}]
        /\ inherited = [t \in Threads |-> 0] /\ table = [t \in Threads |-> "none"]
    BY DEF Init, Zero
  <2>2. \A t \in Threads : Runs[t] = {0} /\ \A k \in Key : htab[t][k] = 0
    BY PointFacts DEF Init, Started, NoKey, Runs, Unused
  <2>3. GnuEnds /\ UnitEnds
    BY <2>1 DEF GnuEnds, UnitEnds
  <2>4. GnuInv
    <3>1. \A f \in Functions : f \in Key
      BY DEF Key
    <3>2. calls \in [Threads -> Seq(Functions)] /\ inherited \in [Threads -> Nat]
      BY <2>1
    <3>3. \A t \in Threads : GnuThread(t)
      BY <2>1, <2>2, <3>1 DEF GnuThread, GnuFrames
    <3> QED
      BY <2>1, <3>2, <3>3 DEF GnuInv
  <2>5. UnitsInv
    <3>1. /\ calls \in [Threads -> Seq(Units)] /\ entered \in [Threads -> SUBSET Units] /\ seen \in [Threads -> SUBSET Units]
          /\ inherited \in [Threads -> Nat]
      BY <2>1
    <3>2. 1 <= MaxCalipers
      BY NatAssumption
    <3>3. \A t \in Threads : ThreadUnits(t) /\ ThreadOpen(t)
      BY <2>1, <2>2, <3>2 DEF ThreadUnits, ThreadOpen
    <3> QED
      BY <2>1, <3>1, <3>3 DEF UnitsInv
  <2>6. AnyProgram
    BY <2>1, <2>2 DEF Init, AnyProgram
  <2> QED
    BY <2>3, <2>4, <2>5, <2>6 DEF HooksInv
<1>2. Inv /\ [Next]_vars => Inv'
  BY TypesKept, GccStep, PathscaleStep, AnyStep, HooksStep
<1>3. Inv => KilledOnlyKnown
  <2> SUFFICES ASSUME Inv PROVE KilledOnlyKnown
    OBVIOUS
  <2>1. program.mode \in {"user", "io", "gnu", "loop", "func"}
    BY DEF CaliperInv, CalType, Program
  <2> QED
    BY <2>1 DEF KilledOnlyKnown, AnyProgram, HooksInv, GnuEnds, UnitEnds
<1> QED
  BY <1>1, <1>2, <1>3, PTL DEF Spec
=============================================================================
