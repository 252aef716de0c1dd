-------------------------- MODULE MonitorMpiProofs --------------------------
(***************************************************************************)
(* Proofs about MonitorMpi for every set of threads, every set of          *)
(* communicators and every depth of nesting.                               *)
(***************************************************************************)
EXTENDS MonitorMpi, SequenceTheorems, TLAPS

CallOf(s) == IF s = <<>> THEN "none" ELSE Kind(s[1].fn)

\* The first wrapper of a call is the one that makes its callbacks; the others are
\* of the same call and inside the real function of the one before.
StackInv ==
  /\ \A i \in 1 .. Len(stack) :
       /\ stack[i].outer <=> i = 1
       /\ Kind(stack[i].fn) = Kind(stack[1].fn)
       /\ i > 1 => stack[i].at = "real"
  /\ stack # <<>> /\ stack[1].at # "real" => Len(stack) = 1

\* The counters count the wrappers of the call in progress.
CountInv ==
  /\ mpi_init_count = (IF CallOf(stack) = "init" THEN Len(stack) ELSE 0)
  /\ mpi_fini_count = (IF CallOf(stack) = "fini" THEN Len(stack) ELSE 0)

\* The callbacks made are those the first wrapper has come to.
MadeInv ==
  made = IF stack = <<>> THEN <<>>
         ELSE IF stack[1].at = "after"
              THEN <<PerApplicationCall!Before[CallOf(stack)], PerApplicationCall!After[CallOf(stack)]>>
              ELSE <<PerApplicationCall!Before[CallOf(stack)]>>

PhaseInv ==
  /\ CallOf(stack) = "init" => phase = "start"
  /\ CallOf(stack) = "fini" => phase = "initialized"

\* A communicator of the library itself is seen only from MPI_Finalize on.
InternalInv ==
  "internal" \in {mpi_size, mpi_rank} \/ (\E t \in Threads : pub[t].comm = "internal")
     => CallOf(stack) = "fini" \/ phase = "finalized"

\* As long as no two threads were in monitor_set_size_rank at once there is one
\* writer, and what is stored agrees with where it is.
WriterInv ==
  /\ \A t, u \in Threads : Writing(t) /\ Writing(u) => t = u
  /\ \A t \in Threads : Writing(t) => set_first
  /\ set_first /\ (\A t \in Threads : ~Writing(t)) => mpi_size = "unset" /\ mpi_rank = "unset"
  /\ \A t \in Threads :
       /\ pub[t].at = "size" => mpi_size = "unset" /\ mpi_rank = "unset"
       /\ pub[t].at = "rank" => mpi_size = pub[t].comm /\ mpi_rank = "unset"
       /\ pub[t].at = "clear" => mpi_size = pub[t].comm /\ mpi_rank = pub[t].comm
  /\ ~set_first => mpi_size = mpi_rank

MpiInv ==
  TypeOK /\ StackInv /\ CountInv /\ MadeInv /\ PhaseInv /\ InternalInv /\ (raced \/ WriterInv)

-----------------------------------------------------------------------------
(* The stack *)

LEMMA EmptyStack ==
  ASSUME NEW s \in Seq(Frame) PROVE s = <<>> <=> Len(s) = 0
  OBVIOUS

LEMMA AppendToOne ==
  ASSUME NEW a, NEW b PROVE Append(<<a>>, b) = <<a, b>>
<1>1. <<a>> \in Seq({a, b}) /\ <<a, b>> \in Seq({a, b}) /\ b \in {a, b}
  OBVIOUS
<1>2. /\ Append(<<a>>, b) \in Seq({a, b}) /\ Len(Append(<<a>>, b)) = 2
      /\ Append(<<a>>, b)[1] = a /\ Append(<<a>>, b)[2] = b
  <2>1. Len(<<a>>) = 1 /\ <<a>>[1] = a
    OBVIOUS
  <2> QED
    BY <1>1, <2>1, AppendProperties
<1>3. Len(<<a, b>>) = 2 /\ <<a, b>>[1] = a /\ <<a, b>>[2] = b
  OBVIOUS
<1>4. \A i \in 1 .. 2 : i = 1 \/ i = 2
  OBVIOUS
<1> QED
  BY <1>1, <1>2, <1>3, <1>4, SeqEqual

Pushed(fr) ==
  /\ stack' \in Seq(Frame) /\ Len(stack') = Len(stack) + 1
  /\ \A i \in 1 .. Len(stack) : stack'[i] = stack[i]
  /\ stack'[Len(stack) + 1] = fr

Popped ==
  /\ stack' \in Seq(Frame) /\ Len(stack') = Len(stack) - 1
  /\ \A i \in 1 .. Len(stack) - 1 : stack'[i] = stack[i]

TopWith(at) == [fn |-> Top.fn, at |-> at, outer |-> Top.outer]

TopSet(at) ==
  /\ stack' \in Seq(Frame) /\ Len(stack') = Len(stack)
  /\ \A i \in 1 .. Len(stack) - 1 : stack'[i] = stack[i]
  /\ stack'[Len(stack)] = TopWith(at)

NewFrame(f) == [fn |-> f, at |-> IF stack = <<>> THEN "before" ELSE "real", outer |-> stack = <<>>]

LEMMA KindFacts ==
  /\ \A f \in InitWrapper : f \in Wrapper /\ Kind(f) = "init"
  /\ \A f \in FiniWrapper : f \in Wrapper /\ Kind(f) = "fini"
  /\ \A f \in Wrapper : Kind(f) \in {"init", "fini"}
  BY DEF InitWrapper, FiniWrapper, Wrapper, Kind

\* A wrapper is entered at the start of a call or inside one of the same kind, and
\* its counter is then the depth it is entered at.
LEMMA EnterStep ==
  ASSUME TypeOK, StackInv, CountInv, NEW f \in Wrapper, NEW count,
         count = (IF Kind(f) = "init" THEN mpi_init_count ELSE mpi_fini_count) + 1,
         EnterWrapper(f, count)
  PROVE  /\ stack = <<>> \/ (stack # <<>> /\ Top.at = "real" /\ CallOf(stack) = Kind(f))
         /\ count = Len(stack) + 1
         /\ IsOuter(count) <=> stack = <<>>
         /\ Pushed(NewFrame(f))
<1>1. stack \in Seq(Frame) /\ Len(stack) \in Nat /\ (stack = <<>> <=> Len(stack) = 0)
  BY EmptyStack DEF TypeOK
<1>2. stack # <<>> => At("real") /\ Kind(Top.fn) = Kind(f)
  BY DEF EnterWrapper, MayCall
<1>3. stack # <<>> => Len(stack) \in 1 .. Len(stack) /\ Kind(Top.fn) = CallOf(stack)
  BY <1>1 DEF StackInv, CallOf, Top
<1>4. stack = <<>> \/ (stack # <<>> /\ Top.at = "real" /\ CallOf(stack) = Kind(f))
  BY <1>2, <1>3 DEF At
<1>5. count = Len(stack) + 1
  BY <1>1, <1>4, KindFacts DEF CountInv, CallOf
<1>6. IsOuter(count) <=> stack = <<>>
  BY <1>1, <1>5 DEF IsOuter
<1>7. NewFrame(f) \in Frame
  BY DEF NewFrame, Frame
<1>8. stack' = Append(stack, NewFrame(f))
  <2>1. CASE stack = <<>>
    <3>1. IsOuter(count) = TRUE /\ (stack = <<>>) = TRUE
      BY <1>6, <2>1 DEF IsOuter
    <3> QED
      BY <2>1, <3>1 DEF EnterWrapper, NewFrame
  <2>2. CASE stack # <<>>
    <3>1. IsOuter(count) = FALSE /\ (stack = <<>>) = FALSE
      BY <1>6, <2>2 DEF IsOuter
    <3> QED
      BY <2>2, <3>1 DEF EnterWrapper, NewFrame
  <2> QED
    BY <2>1, <2>2
<1>9. Pushed(NewFrame(f))
  BY <1>1, <1>7, <1>8, AppendProperties DEF Pushed
<1> QED
  BY <1>4, <1>5, <1>6, <1>9

LEMMA SetTopStep ==
  ASSUME TypeOK, stack # <<>>, NEW at \in {"before", "real", "after"}, SetTop(at)
  PROVE  TopSet(at)
<1>1. stack \in Seq(Frame) /\ Len(stack) \in 1 .. Len(stack)
  BY EmptyStack DEF TypeOK
<1>2. Top \in Frame /\ TopWith(at) \in Frame
  <2>1. Top \in Frame
    BY <1>1, ElementOfSeq DEF Top
  <2> QED
    BY <2>1 DEF TopWith, Frame
<1>3. stack' = [stack EXCEPT ![Len(stack)] = TopWith(at)]
  <2>1. [Top EXCEPT !.at = at] = TopWith(at)
    BY <1>2 DEF TopWith, Frame
  <2> QED
    BY <2>1 DEF SetTop, Top
<1> QED
  BY <1>1, <1>2, <1>3, ExceptSeq DEF TopSet

LEMMA LeaveStep ==
  ASSUME TypeOK, StackInv, CountInv, LeaveWrapper
  PROVE  /\ Popped
         /\ (IF CallOf(stack) = "init" THEN mpi_init_count ELSE mpi_fini_count) = Len(stack)
         /\ Kind(Top.fn) = CallOf(stack) /\ CallOf(stack) \in {"init", "fini"}
         /\ Len(stack) \in Nat \ {0}
         /\ Top.outer <=> Len(stack) = 1
<1>1. stack \in Seq(Frame) /\ Len(stack) \in 1 .. Len(stack) /\ Len(stack) \in Nat \ {0}
  BY EmptyStack DEF TypeOK, LeaveWrapper
<1>2. stack' = SubSeq(stack, 1, Len(stack) - 1)
  BY DEF LeaveWrapper
<1>3. \A i \in 1 .. Len(stack) - 1 : stack[i] \in Frame
  BY <1>1
<1>4. Popped
  <2> DEFINE n == Len(stack) - 1
  <2>1. n \in Nat /\ 1 \in Int /\ n \in Int
    BY <1>1
  <2>2. \A i \in 1 .. n : stack[i] \in Frame
    BY <1>3
  <2>3. stack' = SubSeq(stack, 1, n)
    BY <1>2
  <2> HIDE DEF n
  <2>4. /\ SubSeq(stack, 1, n) \in Seq(Frame)
        /\ Len(SubSeq(stack, 1, n)) = (IF 1 <= n THEN n - 1 + 1 ELSE 0)
        /\ \A i \in 1 .. n - 1 + 1 : SubSeq(stack, 1, n)[i] = stack[1 + i - 1]
    BY <2>1, <2>2, SubSeqProperties
  <2>5. Len(stack') = n
    BY <2>1, <2>3, <2>4
  <2>6. \A i \in 1 .. n : stack'[i] = stack[i]
    <3> TAKE i \in 1 .. n
    <3>1. i \in 1 .. n - 1 + 1 /\ 1 + i - 1 = i
      BY <2>1
    <3> QED
      BY <2>3, <2>4, <3>1
  <2> QED
    BY <2>3, <2>4, <2>5, <2>6 DEF Popped, n
<1>5. /\ Kind(Top.fn) = CallOf(stack) /\ CallOf(stack) \in {"init", "fini"}
      /\ Top.outer <=> Len(stack) = 1
  <2>1. stack[1] \in Frame /\ stack # <<>>
    BY <1>1 DEF LeaveWrapper
  <2>2. CallOf(stack) = Kind(stack[1].fn)
    BY <2>1 DEF CallOf
  <2> QED
    BY <1>1, <2>1, <2>2, KindFacts DEF StackInv, Top, Frame
<1> QED
  BY <1>1, <1>4, <1>5 DEF CountInv

\* What the three changes of the stack make of the call in progress.
LEMMA CallOfPushed ==
  ASSUME TypeOK, StackInv, NEW f \in Wrapper, Pushed(NewFrame(f)),
         stack = <<>> \/ CallOf(stack) = Kind(f)
  PROVE  CallOf(stack') = Kind(f) /\ stack' # <<>>
<1>1. stack \in Seq(Frame) /\ Len(stack) \in Nat /\ (stack = <<>> <=> Len(stack) = 0) /\ stack' # <<>>
  BY EmptyStack DEF TypeOK, Pushed
<1>2. CASE stack = <<>>
  BY <1>1, <1>2 DEF Pushed, NewFrame, CallOf
<1>3. CASE stack # <<>>
  <2>1. stack'[1] = stack[1]
    BY <1>1, <1>3 DEF Pushed
  <2> QED
    BY <1>1, <1>3, <2>1 DEF CallOf
<1> QED
  BY <1>2, <1>3

LEMMA CallOfTopSet ==
  ASSUME TypeOK, stack # <<>>, NEW at \in {"before", "real", "after"}, TopSet(at)
  PROVE  CallOf(stack') = CallOf(stack) /\ stack' # <<>>
<1>1. stack \in Seq(Frame) /\ Len(stack) \in Nat \ {0} /\ stack' # <<>>
  BY EmptyStack DEF TypeOK, TopSet
<1>2. CASE Len(stack) = 1
  BY <1>1, <1>2 DEF TopSet, TopWith, Top, CallOf
<1>3. CASE Len(stack) # 1
  <2>1. stack'[1] = stack[1]
    BY <1>1, <1>3 DEF TopSet
  <2> QED
    BY <1>1, <2>1 DEF CallOf
<1> QED
  BY <1>2, <1>3

LEMMA CallOfPopped ==
  ASSUME TypeOK, stack # <<>>, Popped
  PROVE  /\ stack' = <<>> <=> Len(stack) = 1
         /\ CallOf(stack') = (IF Len(stack) = 1 THEN "none" ELSE CallOf(stack))
<1>1. stack \in Seq(Frame) /\ Len(stack) \in Nat \ {0} /\ (stack' = <<>> <=> Len(stack) = 1)
  BY EmptyStack DEF TypeOK, Popped
<1>2. CASE Len(stack) = 1
  BY <1>1, <1>2 DEF CallOf
<1>3. CASE Len(stack) # 1
  <2>1. stack'[1] = stack[1]
    BY <1>1, <1>3 DEF Popped
  <2> QED
    BY <1>1, <1>3, <2>1 DEF CallOf
<1> QED
  BY <1>2, <1>3

-----------------------------------------------------------------------------
(* The steps of MPI_Init and MPI_Finalize *)

Stacks == StackInv /\ CountInv /\ MadeInv /\ PhaseInv

MpiVars == <<counts, stack, phase, made>>

\* The abstract call begins, goes on or is over.
CallStep == PerApplicationCall!Next \/ UNCHANGED <<CallOf(stack), made>>

LEMMA EnterKeeps ==
  ASSUME TypeOK, Stacks, NEW f \in Wrapper,
         (Kind(f) = "init" /\ EnterInit(f)) \/ (Kind(f) = "fini" /\ EnterFini(f))
  PROVE  Stacks' /\ stack' \in Seq(Frame) /\ counts' \in Nat \X Nat \X Nat
<1> DEFINE count == (IF Kind(f) = "init" THEN mpi_init_count ELSE mpi_fini_count) + 1
<1> USE DEF Stacks
<1>1. EnterWrapper(f, count)
  BY DEF EnterInit, EnterFini
<1>2. /\ stack = <<>> \/ (stack # <<>> /\ Top.at = "real" /\ CallOf(stack) = Kind(f))
      /\ count = Len(stack) + 1
      /\ IsOuter(count) <=> stack = <<>>
      /\ Pushed(NewFrame(f))
  BY <1>1, EnterStep
<1>3. stack \in Seq(Frame) /\ Len(stack) \in Nat /\ (stack = <<>> <=> Len(stack) = 0)
  BY EmptyStack DEF TypeOK
<1>4. CallOf(stack') = Kind(f) /\ stack' # <<>> /\ Kind(f) \in {"init", "fini"}
  BY <1>2, CallOfPushed, KindFacts
<1>5. stack # <<>> => stack'[1] = stack[1] /\ CallOf(stack) = Kind(stack[1].fn) /\ CallOf(stack) = Kind(f)
  BY <1>2, <1>3 DEF Pushed, CallOf
<1>6. CallOf(stack) = "none" <=> stack = <<>>
  BY <1>2, <1>4 DEF CallOf
<1>7. counts' \in Nat \X Nat \X Nat /\ CountInv'
  <2>1. CASE Kind(f) = "init"
    BY <1>2, <1>3, <1>4, <1>5, <1>6, <2>1 DEF EnterInit, EnterFini, InitCount, CountInv, TypeOK, counts, Pushed
  <2>2. CASE Kind(f) = "fini"
    BY <1>2, <1>3, <1>4, <1>5, <1>6, <2>2 DEF EnterInit, EnterFini, FiniCount, CountInv, TypeOK, counts, Pushed
  <2> QED
    BY <1>4, <2>1, <2>2
<1>8. StackInv'
  <2>1. CASE stack = <<>>
    <3>1. stack'[1] = [fn |-> f, at |-> "before", outer |-> TRUE] /\ Len(stack') = 1
      <4>1. (stack = <<>>) = TRUE
        BY <2>1
      <4> QED
        <5>1. NewFrame(f) = [fn |-> f, at |-> "before", outer |-> TRUE]
          BY <2>1, <4>1 DEF NewFrame
        <5>2. Len(stack) = 0 /\ Len(stack) + 1 = 1
          BY <1>3, <2>1
        <5> QED
          BY <1>2, <5>1, <5>2 DEF Pushed
    <3> QED
      BY <3>1 DEF StackInv
  <2>2. CASE stack # <<>>
    <3>1. stack'[Len(stack) + 1] = [fn |-> f, at |-> "real", outer |-> FALSE]
      BY <1>2, <2>2 DEF Pushed, NewFrame
    <3>2. \A i \in 1 .. Len(stack') :
            /\ stack'[i].outer <=> i = 1
            /\ Kind(stack'[i].fn) = Kind(stack'[1].fn)
            /\ i > 1 => stack'[i].at = "real"
      BY <1>2, <1>3, <1>5, <2>2, <3>1 DEF Pushed, StackInv
    <3>3. stack[1].at = "real"
      <4>1. CASE Len(stack) = 1
        BY <1>2, <2>2, <4>1 DEF Top
      <4>2. CASE Len(stack) # 1
        BY <2>2, <4>2 DEF StackInv
      <4> QED
        BY <4>1, <4>2
    <3> QED
      BY <1>5, <2>2, <3>2, <3>3 DEF StackInv
  <2> QED
    BY <2>1, <2>2
<1>9. MadeInv'
  <2>1. CASE stack = <<>>
    <3>1. stack'[1].at = "before"
      BY <1>2, <1>3, <2>1 DEF Pushed, NewFrame
    <3>2. made = <<>>
      BY <2>1 DEF MadeInv
    <3>3. made' = <<PerApplicationCall!Before[Kind(f)]>>
      BY <1>1, <1>2, <1>4, <2>1, <3>2 DEF EnterWrapper, PerApplicationCall!Before
    <3> QED
      BY <1>4, <3>1, <3>3 DEF MadeInv
  <2>2. CASE stack # <<>>
    <3>1. made' = made
      BY <1>1, <1>2, <2>2 DEF EnterWrapper
    <3> QED
      BY <1>4, <1>5, <2>2, <3>1 DEF MadeInv
  <2> QED
    BY <2>1, <2>2
<1>10. PhaseInv'
  <2>1. phase' = phase
    BY <1>1 DEF EnterWrapper
  <2>2. CASE stack = <<>>
    BY <1>1, <1>3, <1>4, <2>1, <2>2 DEF EnterWrapper, MayCall, PhaseInv, At
  <2>3. CASE stack # <<>>
    BY <1>4, <1>5, <2>1, <2>3 DEF PhaseInv
  <2> QED
    BY <2>2, <2>3
<1> QED
  BY <1>2, <1>7, <1>8, <1>9, <1>10 DEF Pushed

LEMMA EnterRefines ==
  ASSUME TypeOK, Stacks, NEW f \in Wrapper,
         (Kind(f) = "init" /\ EnterInit(f)) \/ (Kind(f) = "fini" /\ EnterFini(f))
  PROVE  CallStep
<1> DEFINE count == (IF Kind(f) = "init" THEN mpi_init_count ELSE mpi_fini_count) + 1
<1> USE DEF Stacks
<1>1. EnterWrapper(f, count)
  BY DEF EnterInit, EnterFini
<1>2. /\ stack = <<>> \/ (stack # <<>> /\ Top.at = "real" /\ CallOf(stack) = Kind(f))
      /\ IsOuter(count) <=> stack = <<>>
      /\ Pushed(NewFrame(f))
  BY <1>1, EnterStep
<1>3. CallOf(stack') = Kind(f) /\ stack' # <<>> /\ Kind(f) \in {"init", "fini"}
  BY <1>2, CallOfPushed, KindFacts
<1>4. CASE stack = <<>>
  <2>1. made = <<>>
    BY <1>4 DEF MadeInv
  <2>2. made' = <<PerApplicationCall!Before[Kind(f)]>>
    BY <1>1, <1>2, <1>3, <1>4, <2>1 DEF EnterWrapper, PerApplicationCall!Before
  <2>3. PerApplicationCall!Begin(Kind(f))
    BY <1>3, <1>4, <2>2 DEF PerApplicationCall!Begin, CallOf
  <2> QED
    BY <1>3, <2>3 DEF CallStep, PerApplicationCall!Next, PerApplicationCall!Calls
<1>5. CASE stack # <<>>
  <2>1. made' = made
    BY <1>1, <1>2, <1>5 DEF EnterWrapper
  <2> QED
    BY <1>2, <1>3, <1>5, <2>1 DEF CallStep
<1> QED
  BY <1>4, <1>5

LEMMA CallRealKeeps ==
  ASSUME TypeOK, Stacks, CallReal
  PROVE  Stacks' /\ stack' \in Seq(Frame) /\ CallStep
<1> USE DEF Stacks
<1>1. /\ stack \in Seq(Frame) /\ Len(stack) \in Nat \ {0} /\ stack # <<>>
      /\ Top.at = "before"
  BY EmptyStack DEF TypeOK, CallReal, At
<1>2. TopSet("real")
  BY <1>1, SetTopStep DEF CallReal
<1>3. CallOf(stack') = CallOf(stack) /\ stack' # <<>>
  BY <1>1, <1>2, CallOfTopSet
<1>4. Len(stack) = 1
  BY <1>1 DEF StackInv, Top
<1>5. /\ Len(stack') = 1
      /\ stack'[1] = [fn |-> stack[1].fn, at |-> "real", outer |-> stack[1].outer]
      /\ stack[1].at = "before"
  BY <1>1, <1>2, <1>4 DEF TopSet, TopWith, Top
<1>6. StackInv'
  BY <1>4, <1>5 DEF StackInv
<1>7. CountInv' /\ PhaseInv'
  BY <1>3, <1>4, <1>5 DEF CountInv, PhaseInv, CallReal, counts
<1>8. MadeInv'
  BY <1>1, <1>3, <1>5 DEF MadeInv, CallReal
<1> QED
  BY <1>2, <1>3, <1>6, <1>7, <1>8 DEF TopSet, CallStep, CallReal

LEMMA CallbackAfterKeeps ==
  ASSUME TypeOK, Stacks, CallbackAfter
  PROVE  Stacks' /\ stack' \in Seq(Frame) /\ CallStep
<1> USE DEF Stacks
<1>1. /\ stack \in Seq(Frame) /\ Len(stack) \in Nat \ {0} /\ stack # <<>>
      /\ Top.at = "real" /\ Top.outer
  BY EmptyStack DEF TypeOK, CallbackAfter, At
<1>2. TopSet("after")
  BY <1>1, SetTopStep DEF CallbackAfter
<1>3. CallOf(stack') = CallOf(stack) /\ stack' # <<>>
  BY <1>1, <1>2, CallOfTopSet
<1>4. Len(stack) = 1
  <2>1. Len(stack) \in 1 .. Len(stack)
    BY <1>1
  <2>2. stack[Len(stack)].outer <=> Len(stack) = 1
    BY <2>1 DEF StackInv
  <2> QED
    BY <1>1, <2>2, Zenon DEF Top
<1>5. /\ Len(stack') = 1
      /\ stack'[1] = [fn |-> stack[1].fn, at |-> "after", outer |-> stack[1].outer]
      /\ stack[1].at = "real"
  BY <1>1, <1>2, <1>4 DEF TopSet, TopWith, Top
<1>6. StackInv'
  BY <1>4, <1>5 DEF StackInv
<1>7. CountInv' /\ PhaseInv'
  BY <1>3, <1>4, <1>5 DEF CountInv, PhaseInv, CallbackAfter, counts
<1> DEFINE k == CallOf(stack)
<1>8. Kind(Top.fn) = k /\ k \in {"init", "fini"}
  <2>1. stack[1] \in Frame
    BY <1>1, <1>4
  <2> QED
    BY <1>1, <1>4, <2>1, KindFacts DEF CallOf, Top, Frame
<1>9. made = <<PerApplicationCall!Before[k]>>
  BY <1>1, <1>5 DEF MadeInv
<1>10. made' = <<PerApplicationCall!Before[k], PerApplicationCall!After[k]>>
  <2> DEFINE first == PerApplicationCall!Before[k]
             second == PerApplicationCall!After[k]
  <2>1. made' = Append(made, second)
    BY <1>8 DEF CallbackAfter, PerApplicationCall!After
  <2>2. made = <<first>>
    BY <1>9
  <2> HIDE DEF first, second
  <2>3. made' = <<first, second>>
    BY <2>1, <2>2, AppendToOne
  <2> QED
    BY <2>3 DEF first, second
<1>11. MadeInv'
  BY <1>3, <1>5, <1>10 DEF MadeInv
<1>12. CallStep
  <2>1. PerApplicationCall!Finish(k)
    BY <1>1, <1>3, <1>9, <1>10 DEF PerApplicationCall!Finish, CallOf
  <2> QED
    BY <1>8, <2>1 DEF CallStep, PerApplicationCall!Next, PerApplicationCall!Calls
<1> QED
  BY <1>2, <1>6, <1>7, <1>11, <1>12 DEF TopSet

LEMMA LeaveKeeps ==
  ASSUME TypeOK, Stacks, LeaveWrapper
  PROVE  Stacks' /\ stack' \in Seq(Frame) /\ counts' \in Nat \X Nat \X Nat /\ CallStep
<1> USE DEF Stacks
<1> DEFINE k == CallOf(stack)
<1>1. /\ Popped
      /\ (IF k = "init" THEN mpi_init_count ELSE mpi_fini_count) = Len(stack)
      /\ Kind(Top.fn) = k /\ k \in {"init", "fini"}
      /\ Len(stack) \in Nat \ {0} /\ stack # <<>>
      /\ Top.outer <=> Len(stack) = 1
  BY LeaveStep DEF LeaveWrapper
<1>2. /\ stack' = <<>> <=> Len(stack) = 1
      /\ CallOf(stack') = (IF Len(stack) = 1 THEN "none" ELSE k)
  BY <1>1, CallOfPopped
<1>3. Len(stack) # 1 => stack'[1] = stack[1] /\ stack[1].at = "real" /\ Len(stack) > 1
  BY <1>1 DEF Popped, StackInv
<1>4. StackInv'
  <2>1. \A i \in 1 .. Len(stack') : i \in 1 .. Len(stack) /\ stack'[i] = stack[i] /\ stack'[1] = stack[1]
    BY <1>1 DEF Popped
  <2>2. stack' # <<>> => stack'[1].at = "real"
    BY <1>2, <1>3
  <2> QED
    BY <2>1, <2>2 DEF StackInv
<1>5. counts' \in Nat \X Nat \X Nat /\ CountInv'
  <2>1. CASE k = "init"
    BY <1>1, <1>2, <2>1 DEF LeaveWrapper, InitCount, CountInv, TypeOK, counts, Popped
  <2>2. CASE k = "fini"
    BY <1>1, <1>2, <2>2 DEF LeaveWrapper, FiniCount, CountInv, TypeOK, counts, Popped
  <2> QED
    BY <1>1, <2>1, <2>2
<1>6. MadeInv' /\ PhaseInv'
  <2>1. CASE Len(stack) = 1
    BY <1>2, <2>1 DEF LeaveWrapper, MadeInv, PhaseInv
  <2>2. CASE Len(stack) # 1
    <3>1. made' = made /\ phase' = phase
      BY <1>1, <1>3, <2>2 DEF LeaveWrapper
    <3>2. made' = <<PerApplicationCall!Before[k]>>
      BY <1>1, <1>3, <2>2, <3>1 DEF MadeInv
    <3> QED
      BY <1>2, <1>3, <2>2, <3>1, <3>2 DEF MadeInv, PhaseInv
  <2> QED
    BY <2>1, <2>2
<1>7. CallStep
  <2>1. CASE Len(stack) = 1
    <3>1. stack[1].at = "after"
      BY <1>1, <2>1 DEF LeaveWrapper, Top
    <3>2. made = <<PerApplicationCall!Before[k], PerApplicationCall!After[k]>>
      BY <1>1, <3>1 DEF MadeInv
    <3>3. made' = <<>>
      BY <2>1 DEF LeaveWrapper
    <3>4. PerApplicationCall!Return(k)
      BY <1>1, <1>2, <2>1, <3>2, <3>3 DEF PerApplicationCall!Return, CallOf
    <3> QED
      BY <1>1, <3>4 DEF CallStep, PerApplicationCall!Next, PerApplicationCall!Calls
  <2>2. CASE Len(stack) # 1
    BY <1>1, <1>2, <1>3, <2>2 DEF LeaveWrapper, CallStep
  <2> QED
    BY <2>1, <2>2
<1> QED
  BY <1>1, <1>4, <1>5, <1>6, <1>7 DEF Popped

\* All of the four invariants of the stack, for any step.
LEMMA StacksStep ==
  ASSUME TypeOK, Stacks, [Next]_vars
  PROVE  Stacks' /\ stack' \in Seq(Frame) /\ counts' \in Nat \X Nat \X Nat /\ CallStep
<1>1. ASSUME NEW f \in InitWrapper, EnterInit(f)
      PROVE  Stacks' /\ stack' \in Seq(Frame) /\ counts' \in Nat \X Nat \X Nat /\ CallStep
  BY <1>1, KindFacts, EnterKeeps, EnterRefines
<1>2. ASSUME NEW f \in FiniWrapper, EnterFini(f)
      PROVE  Stacks' /\ stack' \in Seq(Frame) /\ counts' \in Nat \X Nat \X Nat /\ CallStep
  BY <1>2, KindFacts, EnterKeeps, EnterRefines
<1>3. counts \in Nat \X Nat \X Nat
  BY DEF counts, TypeOK
<1>4. CASE CallReal
  BY <1>3, <1>4, CallRealKeeps DEF CallReal
<1>5. CASE CallbackAfter
  BY <1>3, <1>5, CallbackAfterKeeps DEF CallbackAfter
<1>6. CASE LeaveWrapper
  BY <1>6, LeaveKeeps
<1>7. ASSUME UNCHANGED MpiVars
      PROVE  Stacks' /\ stack' \in Seq(Frame) /\ counts' \in Nat \X Nat \X Nat /\ CallStep
  <2>1. stack' = stack /\ phase' = phase /\ made' = made /\ counts' = counts
    BY <1>7 DEF MpiVars
  <2>2. StackInv' /\ MadeInv' /\ PhaseInv' /\ CountInv'
    BY <2>1 DEF Stacks, StackInv, MadeInv, PhaseInv, CountInv, CallOf, counts
  <2> QED
    BY <1>3, <2>1, <2>2 DEF Stacks, CallStep, CallOf, TypeOK
<1>8. ASSUME NEW t \in Threads, SizeRank(t) PROVE UNCHANGED MpiVars
  BY <1>8 DEF SizeRank, CommRank, ClientSetSizeRank, TestFirst, StoreSize, StoreRank, ClearFirst,
              SetReturns, MpiVars
<1>9. CASE UNCHANGED vars
  BY <1>7, <1>9 DEF vars, MpiVars
<1>10. CASE InitFini
  <2>1. CASE FortranInit \/ FortranInitThread \/ MPI_Init \/ MPI_Init_thread \/ PmpiFortranInit \/ PmpiFortranInitThread
              \/ PMPI_Init \/ PMPI_Init_thread
    BY <1>1, <2>1 DEF FortranInit, FortranInitThread, MPI_Init, MPI_Init_thread,
         PmpiFortranInit, PmpiFortranInitThread, PMPI_Init, PMPI_Init_thread, InitWrapper
  <2>2. CASE FortranFinalize \/ MPI_Finalize \/ PmpiFortranFinalize \/ PMPI_Finalize
    BY <1>2, <2>2 DEF FortranFinalize, MPI_Finalize, PmpiFortranFinalize, PMPI_Finalize, FiniWrapper
  <2> QED
    BY <1>4, <1>5, <1>6, <1>10, <2>1, <2>2 DEF InitFini
<1> QED
  BY <1>7, <1>8, <1>9, <1>10 DEF Next

-----------------------------------------------------------------------------
(* The types *)

\* InitFini touches nothing of the answer; SizeRank nothing of the calls.
LEMMA InitFiniFrame ==
  ASSUME InitFini PROVE UNCHANGED <<answer, set_first, mpi_first, pub, raced>>
  BY DEF InitFini, FortranInit, FortranInitThread, MPI_Init, MPI_Init_thread,
         PmpiFortranInit, PmpiFortranInitThread, PMPI_Init, PMPI_Init_thread,
         FortranFinalize, MPI_Finalize, PmpiFortranFinalize, PMPI_Finalize,
         EnterInit, EnterFini, EnterWrapper, CallReal, CallbackAfter, LeaveWrapper

LEMMA SizeRankFrame ==
  ASSUME NEW t \in Threads, SizeRank(t) PROVE UNCHANGED <<stack, phase, counts>>
  BY DEF SizeRank, CommRank, ClientSetSizeRank, TestFirst, StoreSize, StoreRank, ClearFirst, SetReturns

PubType == [at : {"idle", "test", "size", "rank", "clear", "own"}, comm : Source \cup {"unset"}]

LEMMA ReachableFacts ==
  ASSUME NEW t \in Threads PROVE Reachable(t) \subseteq Comms \cup {"internal"}
  BY DEF Reachable

LEMMA AnswerTypes ==
  ASSUME TypeOK, NEW t \in Threads, SizeRank(t)
  PROVE  /\ mpi_size' \in Source \cup {"unset"} /\ mpi_rank' \in Source \cup {"unset"}
         /\ set_first' \in BOOLEAN /\ mpi_first' \in BOOLEAN /\ raced' \in BOOLEAN
         /\ pub' \in [Threads -> PubType]
<1> USE DEF TypeOK, PubType, answer
<1>1. ASSUME NEW c \in Comms \cup {"internal"}, CommRank(t, c)
      PROVE  pub' \in [Threads -> PubType]
  BY <1>1 DEF CommRank, Call, Source
<1>2. CASE ClientSetSizeRank(t)
  BY <1>2 DEF ClientSetSizeRank, Call, Source
<1>3. CASE TestFirst(t)
  <2>1. raced' \in BOOLEAN
    BY <1>3 DEF TestFirst
  <2> QED
    BY <1>3, <2>1 DEF TestFirst
<1>4. CASE StoreSize(t)
  BY <1>4 DEF StoreSize
<1>5. CASE StoreRank(t)
  BY <1>5 DEF StoreRank
<1>6. CASE ClearFirst(t)
  BY <1>6 DEF ClearFirst
<1>7. CASE SetReturns(t)
  BY <1>7 DEF SetReturns, Idle
<1>8. ASSUME NEW c \in Comms \cup {"internal"}, CommRank(t, c)
      PROVE  UNCHANGED <<answer, set_first, mpi_first, raced>>
  BY <1>8 DEF CommRank
<1> QED
  BY <1>1, <1>2, <1>3, <1>4, <1>5, <1>6, <1>7, <1>8 DEF SizeRank

LEMMA TypeStep ==
  ASSUME TypeOK, Stacks, [Next]_vars PROVE TypeOK'
<1>1. stack' \in Seq(Frame) /\ counts' \in Nat \X Nat \X Nat
  BY StacksStep
<1>2. phase' \in {"start", "initialized", "finalized"}
  <2>1. CASE LeaveWrapper
    BY <2>1 DEF LeaveWrapper, TypeOK
  <2>2. CASE InitFini /\ ~LeaveWrapper
    BY <2>2 DEF TypeOK, InitFini, FortranInit, FortranInitThread, MPI_Init, MPI_Init_thread,
         PmpiFortranInit, PmpiFortranInitThread, PMPI_Init, PMPI_Init_thread,
         FortranFinalize, MPI_Finalize, PmpiFortranFinalize, PMPI_Finalize,
         EnterInit, EnterFini, EnterWrapper, CallReal, CallbackAfter
  <2> QED
    BY <2>1, <2>2, SizeRankFrame DEF Next, vars, TypeOK
<1>3. /\ mpi_size' \in Source \cup {"unset"} /\ mpi_rank' \in Source \cup {"unset"}
      /\ set_first' \in BOOLEAN /\ mpi_first' \in BOOLEAN /\ raced' \in BOOLEAN
      /\ pub' \in [Threads -> PubType]
  <2>1. CASE InitFini
    BY <2>1, InitFiniFrame DEF TypeOK, PubType, answer
  <2>2. CASE UNCHANGED vars
    BY <2>2 DEF vars, TypeOK, PubType, answer
  <2> QED
    BY <2>1, <2>2, AnswerTypes DEF Next
<1>4. mpi_init_count' \in Nat /\ max_init_count' \in Nat /\ mpi_fini_count' \in Nat
  BY <1>1 DEF counts
<1> QED
  BY <1>1, <1>2, <1>3, <1>4 DEF TypeOK, PubType

-----------------------------------------------------------------------------
(* What is published *)

FiniOrOver == CallOf(stack) = "fini" \/ phase = "finalized"

\* Once the application has come to MPI_Finalize it does not come back.
LEMMA FiniOrOverStays ==
  ASSUME TypeOK, Stacks, FiniOrOver, [Next]_vars PROVE FiniOrOver'
<1>1. CASE LeaveWrapper
  <2>1. /\ Popped /\ Kind(Top.fn) = CallOf(stack) /\ stack # <<>> /\ Len(stack) \in Nat \ {0}
        /\ CallOf(stack) \in {"init", "fini"}
    BY <1>1, LeaveStep DEF LeaveWrapper, Stacks
  <2>2. CallOf(stack) = "fini"
    BY <2>1 DEF FiniOrOver, Stacks, PhaseInv
  <2>3. CASE Len(stack) = 1
    BY <1>1, <2>1, <2>2, <2>3 DEF LeaveWrapper, FiniOrOver
  <2>4. CASE Len(stack) # 1
    BY <2>1, <2>2, <2>4, CallOfPopped DEF FiniOrOver
  <2> QED
    BY <2>3, <2>4
<1>2. CASE CallReal
  <2>1. stack # <<>> /\ TopSet("real") /\ phase' = phase
    BY <1>2, SetTopStep DEF CallReal, At
  <2> QED
    BY <2>1, CallOfTopSet DEF FiniOrOver
<1>3. CASE CallbackAfter
  <2>1. stack # <<>> /\ TopSet("after") /\ phase' = phase
    BY <1>3, SetTopStep DEF CallbackAfter, At
  <2> QED
    BY <2>1, CallOfTopSet DEF FiniOrOver
<1>4. ASSUME NEW f \in Wrapper, NEW count,
             count = (IF Kind(f) = "init" THEN mpi_init_count ELSE mpi_fini_count) + 1, EnterWrapper(f, count)
      PROVE  FiniOrOver'
  <2>1. /\ stack = <<>> \/ CallOf(stack) = Kind(f)
        /\ Pushed(NewFrame(f)) /\ phase' = phase
    BY <1>4, EnterStep DEF Stacks, EnterWrapper
  <2>2. CallOf(stack') = Kind(f)
    BY <2>1, CallOfPushed DEF Stacks
  <2> QED
    BY <2>1, <2>2 DEF FiniOrOver, CallOf
<1>5. CASE FortranInit \/ FortranInitThread \/ MPI_Init \/ MPI_Init_thread \/ PmpiFortranInit \/ PmpiFortranInitThread
              \/ PMPI_Init \/ PMPI_Init_thread
  BY <1>4, <1>5, KindFacts DEF FortranInit, FortranInitThread, MPI_Init, MPI_Init_thread,
         PmpiFortranInit, PmpiFortranInitThread, PMPI_Init, PMPI_Init_thread,
                              InitWrapper, EnterInit
<1>6. CASE FortranFinalize \/ MPI_Finalize \/ PmpiFortranFinalize \/ PMPI_Finalize
  BY <1>4, <1>6, KindFacts DEF FortranFinalize, MPI_Finalize, PmpiFortranFinalize, PMPI_Finalize,
                              FiniWrapper, EnterFini
<1>7. CASE InitFini
  BY <1>1, <1>2, <1>3, <1>5, <1>6, <1>7 DEF InitFini
<1>8. ASSUME UNCHANGED <<stack, phase>> PROVE FiniOrOver'
  BY <1>8 DEF FiniOrOver, CallOf
<1>9. CASE UNCHANGED vars
  BY <1>8, <1>9 DEF vars
<1> QED
  BY <1>7, <1>8, <1>9, SizeRankFrame DEF Next

Internal == "internal" \in {mpi_size, mpi_rank} \/ (\E t \in Threads : pub[t].comm = "internal")

\* Only a wrapper of MPI_Finalize lets a communicator of the library through: in
\* MPI_Init the counter is not zero.
LEMMA InternalStep ==
  ASSUME TypeOK, Stacks, InternalInv, [Next]_vars PROVE InternalInv'
<1>1. Internal => FiniOrOver
  BY DEF InternalInv, Internal, FiniOrOver
<1>2. ASSUME NEW t \in Threads, SizeRank(t), Internal' PROVE FiniOrOver \/ Internal
  <2> USE <1>2 DEF Internal, TypeOK, answer
  <2>1. ASSUME NEW c \in Comms \cup {"internal"}, CommRank(t, c), ~Internal PROVE FiniOrOver
    <3>1. c = "internal"
      BY <2>1 DEF CommRank, Call
    <3>2. stack # <<>> /\ At("real")
      <4>1. "internal" \notin Comms
        BY CommsAssumption
      <4>2. "internal" \in Reachable(t)
        BY <2>1, <3>1 DEF CommRank
      <4> QED
        BY <4>1, <4>2 DEF Reachable, At
    <3>3. CallOf(stack) \in {"init", "fini"}
      <4>1. stack[1] \in Frame
        BY <3>2, EmptyStack
      <4> QED
        BY <3>2, <4>1, KindFacts DEF CallOf, Frame
    <3>4. mpi_init_count = 0
      BY <2>1 DEF CommRank, AfterInit
    <3>5. Len(stack) # 0
      BY <3>2, EmptyStack
    <3> QED
      BY <3>3, <3>4, <3>5 DEF Stacks, CountInv, FiniOrOver
  <2>2. CASE ClientSetSizeRank(t)
    BY <2>2 DEF ClientSetSizeRank, Call
  <2>3. CASE TestFirst(t)
    BY <2>3 DEF TestFirst
  <2>4. CASE StoreSize(t)
    BY <2>4 DEF StoreSize
  <2>5. CASE StoreRank(t)
    BY <2>5 DEF StoreRank
  <2>6. CASE ClearFirst(t)
    BY <2>6 DEF ClearFirst
  <2>7. CASE SetReturns(t)
    BY <2>7 DEF SetReturns, Idle
  <2> QED
    BY <2>1, <2>2, <2>3, <2>4, <2>5, <2>6, <2>7 DEF SizeRank
<1>3. ASSUME UNCHANGED <<answer, pub>>, Internal' PROVE Internal
  BY <1>3 DEF Internal, answer
<1>4. Internal' => Internal \/ FiniOrOver
  BY <1>2, <1>3, InitFiniFrame DEF Next, vars
<1>5. Internal' => FiniOrOver'
  BY <1>1, <1>4, FiniOrOverStays
<1> QED
  BY <1>5 DEF InternalInv, Internal, FiniOrOver

-----------------------------------------------------------------------------
(* One writer *)

\* A step of thread t leaves the others where they are.
LEMMA OthersStay ==
  ASSUME TypeOK, NEW t \in Threads, SizeRank(t)
  PROVE  \A u \in Threads : u # t => pub'[u] = pub[u] /\ Writing(u)' = Writing(u)
<1> USE DEF TypeOK, Writing
<1>1. ASSUME NEW c \in Comms \cup {"internal"}, CommRank(t, c)
      PROVE  \A u \in Threads : u # t => pub'[u] = pub[u]
  BY <1>1 DEF CommRank
<1> QED
  BY <1>1 DEF SizeRank, ClientSetSizeRank, TestFirst, StoreSize, StoreRank, ClearFirst, SetReturns

LEMMA WriterStep ==
  ASSUME TypeOK, raced \/ WriterInv, [Next]_vars PROVE raced' \/ WriterInv'
<1>1. ASSUME UNCHANGED <<answer, set_first, pub, raced>> PROVE raced' \/ WriterInv'
  BY <1>1 DEF WriterInv, Writing, answer
<1>2. ASSUME NEW t \in Threads, SizeRank(t), WriterInv, ~raced' PROVE WriterInv'
  <2> USE DEF answer
  <2>0. \A u \in Threads : u # t => pub'[u] = pub[u] /\ Writing(u)' = Writing(u)
    BY <1>2, OthersStay
  <2>1. ASSUME UNCHANGED <<answer, set_first>>, ~Writing(t), ~Writing(t)' PROVE WriterInv'
    <3>1. \A u \in Threads : pub'[u].at \in {"size", "rank", "clear"} => u # t /\ pub'[u] = pub[u]
      BY <2>0, <2>1 DEF Writing
    <3>2. \A u \in Threads : pub[u].at \in {"size", "rank", "clear"} => u # t /\ pub'[u] = pub[u]
      BY <2>0, <2>1 DEF Writing
    <3>3. mpi_size' = mpi_size /\ mpi_rank' = mpi_rank /\ set_first' = set_first
      BY <2>1
    <3> QED
      BY <1>2, <3>1, <3>2, <3>3 DEF WriterInv, Writing
  <2>2. ASSUME NEW c \in Comms \cup {"internal"}, CommRank(t, c) PROVE WriterInv'
    <3>1. UNCHANGED <<answer, set_first>> /\ ~Writing(t) /\ ~Writing(t)'
      BY <2>2 DEF CommRank, Call, Writing, Idle, TypeOK
    <3> QED
      BY <2>1, <3>1
  <2>3. CASE ClientSetSizeRank(t)
    <3>1. UNCHANGED <<answer, set_first>> /\ ~Writing(t) /\ ~Writing(t)'
      BY <2>3 DEF ClientSetSizeRank, Call, Writing, Idle, TypeOK
    <3> QED
      BY <2>1, <3>1
  <2>4. CASE TestFirst(t)
    <3>1. CASE set_first
      <4>1. \A u \in Threads : ~Writing(u)
        BY <1>2, <2>4, <3>1 DEF TestFirst
      <4>2. pub'[t].at = "size" /\ UNCHANGED <<answer, set_first>>
        BY <2>4, <3>1 DEF TestFirst, TypeOK
      <4>3. mpi_size = "unset" /\ mpi_rank = "unset"
        BY <1>2, <3>1, <4>1 DEF WriterInv
      <4>4. \A u \in Threads : u # t => pub'[u].at \notin {"size", "rank", "clear"}
        BY <2>0, <4>1 DEF Writing
      <4> QED
        BY <3>1, <4>2, <4>3, <4>4 DEF WriterInv, Writing
    <3>2. CASE ~set_first
      <4>1. UNCHANGED <<answer, set_first>> /\ ~Writing(t) /\ ~Writing(t)'
        BY <2>4, <3>2 DEF TestFirst, Writing, TypeOK
      <4> QED
        BY <2>1, <4>1
    <3> QED
      BY <3>1, <3>2
  <2>5. CASE StoreSize(t)
    <3>1. /\ pub'[t].at = "rank" /\ pub'[t].comm = pub[t].comm
          /\ mpi_size' = pub[t].comm /\ UNCHANGED <<mpi_rank, set_first>> /\ pub[t].at = "size"
      BY <2>5 DEF StoreSize, TypeOK
    <3>2. \A u \in Threads : u # t => ~Writing(u) /\ ~Writing(u)'
      BY <1>2, <2>0, <3>1 DEF WriterInv, Writing
    <3> QED
      BY <1>2, <3>1, <3>2 DEF WriterInv, Writing
  <2>6. CASE StoreRank(t)
    <3>1. /\ pub'[t].at = "clear" /\ pub'[t].comm = pub[t].comm
          /\ mpi_rank' = pub[t].comm /\ UNCHANGED <<mpi_size, set_first>> /\ pub[t].at = "rank"
      BY <2>6 DEF StoreRank, TypeOK
    <3>2. \A u \in Threads : u # t => ~Writing(u) /\ ~Writing(u)'
      BY <1>2, <2>0, <3>1 DEF WriterInv, Writing
    <3> QED
      BY <1>2, <3>1, <3>2 DEF WriterInv, Writing
  <2>7. CASE ClearFirst(t)
    <3>1. /\ pub'[t].at = "own" /\ ~set_first' /\ UNCHANGED answer /\ pub[t].at = "clear"
      BY <2>7 DEF ClearFirst, TypeOK
    <3>2. \A u \in Threads : ~Writing(u)'
      BY <1>2, <2>0, <3>1 DEF WriterInv, Writing
    <3>3. mpi_size = mpi_rank
      BY <1>2, <3>1 DEF WriterInv
    <3> QED
      BY <3>1, <3>2, <3>3 DEF WriterInv, Writing
  <2>8. CASE SetReturns(t)
    <3>1. UNCHANGED <<answer, set_first>> /\ ~Writing(t) /\ ~Writing(t)'
      BY <2>8 DEF SetReturns, Writing, Idle, TypeOK
    <3> QED
      BY <2>1, <3>1
  <2> QED
    BY <1>2, <2>2, <2>3, <2>4, <2>5, <2>6, <2>7, <2>8 DEF SizeRank
<1>3. ASSUME NEW t \in Threads, SizeRank(t), raced PROVE raced'
  BY <1>3 DEF SizeRank, CommRank, ClientSetSizeRank, TestFirst, StoreSize, StoreRank, ClearFirst, SetReturns
<1> QED
  BY <1>1, <1>2, <1>3, InitFiniFrame DEF Next, vars

\* Under the same invariant a stored answer is not written again.
LEMMA AnswerStep ==
  ASSUME TypeOK, raced \/ WriterInv, [Next]_vars, ~raced', "unset" \notin {mpi_size, mpi_rank}
  PROVE  answer' = answer /\ mpi_size = mpi_rank
<1>1. ASSUME NEW t \in Threads, SizeRank(t), WriterInv PROVE UNCHANGED answer
  <2>1. ASSUME NEW c \in Comms \cup {"internal"}, CommRank(t, c) PROVE UNCHANGED answer
    BY <2>1 DEF CommRank
  <2>2. ~StoreSize(t) /\ ~StoreRank(t)
    BY <1>1 DEF WriterInv, StoreSize, StoreRank
  <2> QED
    BY <1>1, <2>1, <2>2 DEF SizeRank, ClientSetSizeRank, TestFirst, ClearFirst, SetReturns
<1>2. ASSUME NEW t \in Threads, SizeRank(t), raced PROVE FALSE
  BY <1>2 DEF SizeRank, CommRank, ClientSetSizeRank, TestFirst, StoreSize, StoreRank, ClearFirst, SetReturns
<1>3. WriterInv
  BY <1>2, InitFiniFrame DEF Next, vars
<1>4. UNCHANGED answer
  BY <1>1, <1>3, InitFiniFrame DEF Next, vars
<1>5. mpi_size = mpi_rank
  <2>1. CASE \E t \in Threads : Writing(t)
    BY <1>3, <2>1 DEF WriterInv, Writing
  <2>2. CASE \A t \in Threads : ~Writing(t)
    BY <1>3, <2>2 DEF WriterInv, TypeOK
  <2> QED
    BY <2>1, <2>2
<1> QED
  BY <1>4, <1>5

-----------------------------------------------------------------------------
(* The theorems *)

LEMMA InitInv == Init => MpiInv
<1> SUFFICES ASSUME Init PROVE MpiInv
  OBVIOUS
<1> USE DEF Init
<1>1. TypeOK
  BY EmptySeq DEF TypeOK, Idle, Source
<1>2. StackInv /\ CountInv /\ MadeInv /\ PhaseInv
  <2>1. stack = <<>> /\ Len(stack) = 0
    OBVIOUS
  <2> QED
    BY <2>1 DEF StackInv, CountInv, MadeInv, PhaseInv, CallOf
<1>3. InternalInv
  BY DEF InternalInv, Idle
<1>4. WriterInv
  BY DEF WriterInv, Writing, Idle
<1> QED
  BY <1>1, <1>2, <1>3, <1>4 DEF MpiInv

LEMMA Invariance == Spec => []MpiInv
<1>1. MpiInv /\ [Next]_vars => MpiInv'
  BY StacksStep, TypeStep, InternalStep, WriterStep DEF MpiInv, Stacks
<1> QED
  BY <1>1, InitInv, PTL DEF Spec

\* The counters, the stack and the stored answer keep their types (mpi.c:46-124).
THEOREM TypeCorrect == Spec => []TypeOK
  BY Invariance, PTL DEF MpiInv

\* NoInternalRank: what is published before MPI_Finalize is never a communicator of
\* the MPI library itself (the counter test of mpi.c:99-106 and 115-124).
THEOREM NoInternalRankHolds == Spec => []NoInternalRank
<1>1. MpiInv => NoInternalRank
  BY DEF MpiInv, InternalInv, NoInternalRank, CallOf
<1> QED
  BY <1>1, Invariance, PTL

\* AnswerStays: unless two threads made the first call at once, a stored size and rank
\* belong to one communicator and stay (mpi.c:92-103).
THEOREM AnswerStaysHolds == Spec => AnswerStays
<1>1. MpiInv /\ [Next]_vars
        => [~raced' /\ "unset" \notin {mpi_size, mpi_rank} => answer' = answer /\ mpi_size = mpi_rank]_vars
  BY AnswerStep DEF MpiInv
<1> QED
  BY <1>1, Invariance, PTL DEF Spec, AnswerStays

\* OncePerApplicationCall: however the wrappers of pmpi.c and mpi_*.c nest, the client
\* gets one callback before and one after each application call.
THEOREM CallsRefined == Spec => OncePerApplicationCall
<1>1. Init => PerApplicationCall!Init
  BY DEF Init, PerApplicationCall!Init
<1>2. MpiInv /\ [Next]_vars => [PerApplicationCall!Next]_<<IF stack = <<>> THEN "none" ELSE Kind(stack[1].fn), made>>
  BY StacksStep DEF MpiInv, Stacks, CallStep, CallOf
<1> QED
  BY <1>1, <1>2, Invariance, PTL DEF Spec, OncePerApplicationCall, PerApplicationCall!Spec

=============================================================================
