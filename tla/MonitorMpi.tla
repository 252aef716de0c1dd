----------------------------- MODULE MonitorMpi -----------------------------
(***************************************************************************)
(* The MPI overrides of libmonitor in one process: the nested wrappers of  *)
(* MPI_Init and MPI_Finalize and the size and rank that MPI_Comm_rank      *)
(* publishes for the client.                                               *)
(*                                                                         *)
(* One thread calls MPI_Init and MPI_Finalize, as MPI demands, and every   *)
(* thread may call MPI_Comm_rank between the two.                          *)
(***************************************************************************)
EXTENDS Naturals, Sequences

CONSTANTS
  Threads,       \* the threads of the process
  MpiThread,     \* the one that initialises and finalises MPI
  Comms          \* the communicators the application asks about

ASSUME ThreadsAssumption == MpiThread \in Threads
ASSUME CommsAssumption == Comms \cap {"unset", "internal", "client"} = {}

VARIABLES
  mpi_init_count, max_init_count, mpi_fini_count,
  mpi_size, mpi_rank,    \* the communicator whose size and rank were stored, "unset" for -1
  set_first, mpi_first,  \* the two static variables "first"
  stack,                 \* the wrappers MpiThread is inside of
  phase,                 \* how far the application is: before, between or after the two calls
  made,                  \* the callbacks made in the present application call
  pub,                   \* what each thread does in monitor_set_size_rank
  raced                  \* two threads found "first" set at once

counts == <<mpi_init_count, max_init_count, mpi_fini_count>>
answer == <<mpi_size, mpi_rank>>
vars == <<counts, answer, set_first, mpi_first, stack, phase, made, pub, raced>>

\* The wrappers, outermost first. The real function behind one may call any
\* later one: mpi_init_ calls MPI_Init, MPI_Init calls PMPI_Init_thread, ...
\* The three spellings of a Fortran name count as one.
Level == [mpi_init |-> 1, mpi_init_thread |-> 1, MPI_Init |-> 2, MPI_Init_thread |-> 3,
          pmpi_init |-> 4, pmpi_init_thread |-> 4, PMPI_Init |-> 5, PMPI_Init_thread |-> 6,
          mpi_finalize |-> 1, MPI_Finalize |-> 2, pmpi_finalize |-> 3, PMPI_Finalize |-> 4]
InitWrapper == {"mpi_init", "mpi_init_thread", "MPI_Init", "MPI_Init_thread",
                "pmpi_init", "pmpi_init_thread", "PMPI_Init", "PMPI_Init_thread"}
FiniWrapper == {"mpi_finalize", "MPI_Finalize", "pmpi_finalize", "PMPI_Finalize"}
Wrapper == InitWrapper \cup FiniWrapper
Frame == [fn : Wrapper, at : {"before", "real", "after"}, outer : BOOLEAN]
Kind(f) == IF f \in InitWrapper THEN "init" ELSE "fini"

Idle == [at |-> "idle", comm |-> "unset"]
Call(at, comm) == [at |-> at, comm |-> comm]

Init ==
  /\ mpi_init_count = 0 /\ max_init_count = 0 /\ mpi_fini_count = 0
  /\ mpi_size = "unset" /\ mpi_rank = "unset"
  /\ set_first = TRUE /\ mpi_first = TRUE
  /\ stack = <<>> /\ phase = "start" /\ made = <<>>
  /\ pub = [t \in Threads |-> Idle]
  /\ raced = FALSE

Top == stack[Len(stack)]
At(at) == stack # <<>> /\ Top.at = at
SetTop(at) == stack' = [stack EXCEPT ![Len(stack)].at = at]

-----------------------------------------------------------------------------
(* MPI_Init and MPI_Finalize *)

\* Who may call wrapper f now: the application at the start of a call, or the
\* real function of an enclosing wrapper of the same call.
MayCall(f) ==
  /\ pub[MpiThread] = Idle
  /\ \/ stack = <<>> /\ Kind(f) = "init" /\ phase = "start"
     \/ stack = <<>> /\ Kind(f) = "fini" /\ phase = "initialized" /\ \A t \in Threads : pub[t] = Idle
     \/ At("real") /\ Kind(Top.fn) = Kind(f) /\ Level[Top.fn] < Level[f]

\* monitor_mpi_init_count(inc), monitor_mpi_fini_count(inc)
InitCount(n) ==
  /\ mpi_init_count' = n
  /\ max_init_count' = IF n > max_init_count THEN n ELSE max_init_count
  /\ UNCHANGED mpi_fini_count
FiniCount(n) == mpi_fini_count' = n /\ UNCHANGED <<mpi_init_count, max_init_count>>

\* The outermost wrapper of a call makes the callbacks.
IsOuter_Always(count) == TRUE
IsOuter(count) == count = 1

EnterWrapper(f, count) ==
  /\ MayCall(f)
  /\ stack' = Append(stack, [fn |-> f, at |-> IF IsOuter(count) THEN "before" ELSE "real",
                             outer |-> IsOuter(count)])
  /\ made' = IF IsOuter(count)
             THEN Append(made, IF Kind(f) = "init" THEN "monitor_mpi_pre_init" ELSE "monitor_fini_mpi")
             ELSE made
  /\ UNCHANGED <<answer, set_first, mpi_first, phase, pub, raced>>

EnterInit(f) == EnterWrapper(f, mpi_init_count + 1) /\ InitCount(mpi_init_count + 1)
EnterFini(f) == EnterWrapper(f, mpi_fini_count + 1) /\ FiniCount(mpi_fini_count + 1)

FortranInit == EnterInit("mpi_init")
FortranInitThread == EnterInit("mpi_init_thread")
MPI_Init == EnterInit("MPI_Init")
MPI_Init_thread == EnterInit("MPI_Init_thread")
PmpiFortranInit == EnterInit("pmpi_init")
PmpiFortranInitThread == EnterInit("pmpi_init_thread")
PMPI_Init == EnterInit("PMPI_Init")
PMPI_Init_thread == EnterInit("PMPI_Init_thread")
FortranFinalize == EnterFini("mpi_finalize")
MPI_Finalize == EnterFini("MPI_Finalize")
PmpiFortranFinalize == EnterFini("pmpi_finalize")
PMPI_Finalize == EnterFini("PMPI_Finalize")

\* monitor_mpi_pre_init or monitor_fini_mpi returns; the real function is called.
CallReal ==
  /\ At("before") /\ pub[MpiThread] = Idle
  /\ SetTop("real")
  /\ UNCHANGED <<counts, answer, set_first, mpi_first, phase, made, pub, raced>>

\* The real function has returned to the outermost wrapper: the second callback.
CallbackAfter ==
  /\ At("real") /\ Top.outer /\ pub[MpiThread] = Idle
  /\ SetTop("after")
  /\ made' = Append(made, IF Kind(Top.fn) = "init" THEN "monitor_init_mpi" ELSE "monitor_mpi_post_fini")
  /\ UNCHANGED <<counts, answer, set_first, mpi_first, phase, pub, raced>>

LeaveWrapper ==
  /\ stack # <<>> /\ Top.at = (IF Top.outer THEN "after" ELSE "real")
  /\ pub[MpiThread] = Idle
  /\ IF Kind(Top.fn) = "init" THEN InitCount(mpi_init_count - 1) ELSE FiniCount(mpi_fini_count - 1)
  /\ stack' = SubSeq(stack, 1, Len(stack) - 1)
  /\ IF Len(stack) > 1 THEN UNCHANGED <<phase, made>>
     ELSE /\ phase' = IF Kind(Top.fn) = "init" THEN "initialized" ELSE "finalized"
          /\ made' = <<>>
  /\ UNCHANGED <<answer, set_first, mpi_first, pub, raced>>

-----------------------------------------------------------------------------
(* MPI_Comm_rank and monitor_set_size_rank *)

\* Communicators a thread can be asked about: its own between the two calls,
\* the client's in monitor_init_mpi and monitor_fini_mpi, and those the MPI
\* library uses inside the real functions.
Reachable(t) ==
  CASE stack = <<>> /\ phase = "initialized" -> Comms
    [] t = MpiThread /\ At("real") -> {"internal"}
    [] t = MpiThread /\ At("after") /\ Kind(Top.fn) = "init" -> Comms
    [] t = MpiThread /\ At("before") /\ Kind(Top.fn) = "fini" -> Comms
    [] OTHER -> {}

AfterInit_Inside == max_init_count > 0
AfterInit == mpi_init_count = 0 /\ max_init_count > 0

\* MPI_Comm_rank and monitor_set_mpi_size_rank up to its test.
CommRank(t, c) ==
  /\ pub[t] = Idle /\ c \in Reachable(t)
  /\ mpi_first /\ AfterInit
  /\ pub' = [pub EXCEPT ![t] = Call("test", c)]
  /\ UNCHANGED <<counts, answer, set_first, mpi_first, stack, phase, made, raced>>

\* The client publishes a size and rank of its own, without MPI.
ClientSetSizeRank(t) ==
  /\ pub[t] = Idle /\ stack = <<>> /\ phase = "start"
  /\ pub' = [pub EXCEPT ![t] = Call("test", "client")]
  /\ UNCHANGED <<counts, answer, set_first, mpi_first, stack, phase, made, raced>>

Writing(t) == pub[t].at \in {"size", "rank", "clear"}

\* if (first) of monitor_set_size_rank
TestFirst(t) ==
  /\ pub[t].at = "test"
  /\ pub' = [pub EXCEPT ![t].at = IF set_first THEN "size" ELSE "own"]
  /\ raced' = (raced \/ (set_first /\ \E u \in Threads : Writing(u)))
  /\ UNCHANGED <<counts, answer, set_first, mpi_first, stack, phase, made>>

StoreSize(t) ==
  /\ pub[t].at = "size"
  /\ mpi_size' = pub[t].comm
  /\ pub' = [pub EXCEPT ![t].at = "rank"]
  /\ UNCHANGED <<counts, mpi_rank, set_first, mpi_first, stack, phase, made, raced>>

StoreRank(t) ==
  /\ pub[t].at = "rank"
  /\ mpi_rank' = pub[t].comm
  /\ pub' = [pub EXCEPT ![t].at = "clear"]
  /\ UNCHANGED <<counts, mpi_size, set_first, mpi_first, stack, phase, made, raced>>

ClearFirst_Never(t) ==
  /\ pub[t].at = "clear"
  /\ pub' = [pub EXCEPT ![t].at = "own"]
  /\ UNCHANGED <<counts, answer, set_first, mpi_first, stack, phase, made, raced>>
ClearFirst(t) ==
  /\ pub[t].at = "clear"
  /\ set_first' = FALSE
  /\ pub' = [pub EXCEPT ![t].at = "own"]
  /\ UNCHANGED <<counts, answer, mpi_first, stack, phase, made, raced>>

\* Back in monitor_set_mpi_size_rank, or in the client.
SetReturns(t) ==
  /\ pub[t].at = "own"
  /\ mpi_first' = IF pub[t].comm = "client" THEN mpi_first ELSE FALSE
  /\ pub' = [pub EXCEPT ![t] = Idle]
  /\ UNCHANGED <<counts, answer, set_first, stack, phase, made, raced>>

InitFini ==
  \/ FortranInit \/ FortranInitThread \/ MPI_Init \/ MPI_Init_thread
  \/ PmpiFortranInit \/ PmpiFortranInitThread \/ PMPI_Init \/ PMPI_Init_thread
  \/ FortranFinalize \/ MPI_Finalize \/ PmpiFortranFinalize \/ PMPI_Finalize
  \/ CallReal \/ CallbackAfter \/ LeaveWrapper

SizeRank(t) ==
  \/ \E c \in Comms \cup {"internal"} : CommRank(t, c)
  \/ ClientSetSizeRank(t)
  \/ TestFirst(t) \/ StoreSize(t) \/ StoreRank(t) \/ ClearFirst(t) \/ SetReturns(t)

Next == InitFini \/ \E t \in Threads : SizeRank(t)

Spec == Init /\ [][Next]_vars
-----------------------------------------------------------------------------
(* Properties *)

Source == Comms \cup {"internal", "client"}

TypeOK ==
  /\ mpi_init_count \in Nat /\ max_init_count \in Nat /\ mpi_fini_count \in Nat
  /\ mpi_size \in Source \cup {"unset"} /\ mpi_rank \in Source \cup {"unset"}
  /\ set_first \in BOOLEAN /\ mpi_first \in BOOLEAN /\ raced \in BOOLEAN
  /\ stack \in Seq(Frame)
  /\ phase \in {"start", "initialized", "finalized"}
  /\ pub \in [Threads -> [at : {"idle", "test", "size", "rank", "clear", "own"}, comm : Source \cup {"unset"}]]

\* The application call in progress, for the promise of mpi.c:58-62: the
\* wrappers make each callback once per application call, the first before any
\* real function runs and the second after all of them have returned.
PerApplicationCall == INSTANCE MpiCalls WITH
  call <- IF stack = <<>> THEN "none" ELSE Kind(stack[1].fn)
OncePerApplicationCall == PerApplicationCall!Spec

\* mpi.c:99-106 waits "until after MPI_Init() finishes in case it calls
\* MPI_Comm_rank() itself with some other communicator": what is published
\* before MPI_Finalize is never a communicator internal to the library.
NoInternalRank ==
  phase = "initialized" /\ stack = <<>> => "internal" \notin {mpi_size, mpi_rank}

\* The answer the client gets from monitor_mpi_comm_size and _rank: "the first
\* one wins (ensures consistent answers)" (mpi.c:82-83). Once both are stored neither
\* changes, and they belong to one communicator, except where two threads made the
\* first call at the same time: the test of "first" and its reset are not one step
\* (mpi.c:93-97), so that the comment is wrong there (AnswerAlwaysStays).
AnswerStays ==
  [][~raced' /\ "unset" \notin {mpi_size, mpi_rank} => answer' = answer /\ mpi_size = mpi_rank]_vars

\* AnswerAlwaysStays: the comment as it stands (mpi.c:82-83), which two threads break.
AnswerAlwaysStays ==
  [][("unset" \notin {mpi_size, mpi_rank}) => answer' = answer /\ mpi_size = mpi_rank]_vars
=============================================================================
