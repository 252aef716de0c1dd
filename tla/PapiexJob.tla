----------------------------- MODULE PapiexJob -----------------------------
(***************************************************************************)
(* The processes of one MPI job under papiex (papiex.c), which meet in the *)
(* file system: rank 0 publishes the directory of the output in the file   *)
(* .papiex.output, every rank writes its files there and then a            *)
(* placeholder, and rank 0 waits for all placeholders before it starts the *)
(* report script. A fork child of a rank takes part too, without being     *)
(* asked. Steps are single file operations; what one process does between  *)
(* two of them is PapiexProcess.                                           *)
(***************************************************************************)
EXTENDS Integers, FiniteSets

CONSTANTS
  Size,       \* ranks of the job: 0 .. Size - 1
  Child,      \* a process that one of the ranks forks
  Setups      \* the kinds of job checked, each a record (see Setup)

ASSUME SizeAssumption == Size \in Nat /\ Size > 1

Ranks     == 0 .. Size - 1
Processes == Ranks \cup {Child}

ASSUME ChildAssumption == Child \notin Ranks

\* ranked: the ranks that call MPI_Comm_rank; final: those that call
\* MPI_Finalize before they exit; forks, faults: whether a rank forks, and whether
\* processes die, files cannot be made and the script fails; named: the user has
\* named the output file.
Setup == [ranked : SUBSET Ranks, final : SUBSET Ranks, forks : BOOLEAN, faults : BOOLEAN, named : BOOLEAN]

ASSUME SetupsAssumption == Setups \subseteq Setup

VARIABLES
  setup,
  at,          \* where each process is
  is_mpied, myrank, ntasks,
  base,        \* whether the process has base_output_path
  container,   \* .papiex.output: "absent", "empty" or "full"
  complete,    \* the placeholders .rank.N.complete
  waiting,     \* the placeholder a process waits for
  wrote,       \* the processes that have written their files
  scripts      \* the processes that have started the script

globals == <<is_mpied, myrank, ntasks, base>>
fileVars == <<container, complete, wrote>>
vars == <<setup, at, globals, fileVars, waiting, scripts>>

Points == {"unborn", "begin", "app", "base", "create", "fill", "finalized", "poll", "read",
           "files", "mark", "master", "wait", "unlink", "script", "done", "dead"}

Init ==
  /\ setup \in Setups
  /\ at = [p \in Processes |-> IF p = Child THEN "unborn" ELSE "begin"]
  /\ is_mpied = [p \in Processes |-> FALSE]
  /\ myrank = [p \in Processes |-> 0] /\ ntasks = [p \in Processes |-> 1]
  /\ base = [p \in Processes |-> FALSE]
  /\ container \in {"absent", "full"}
  /\ complete = {} /\ waiting = [p \in Processes |-> 0]
  /\ wrote = {} /\ scripts = {}

Goto(p, to) == at' = [at EXCEPT ![p] = to]

-----------------------------------------------------------------------------
(* Before the end *)

\* papiex_process_init_routine removes a stale container, in every process.
ProcessInit(p) ==
  /\ at[p] = "begin"
  /\ container' = "absent"
  /\ Goto(p, "app")
  /\ UNCHANGED <<setup, globals, complete, wrote, waiting, scripts>>

\* MPI_Init returns when every rank has begun; monitor_init_mpi.
monitor_init_mpi(p) ==
  /\ p \in Ranks /\ at[p] = "app" /\ ~is_mpied[p]
  /\ \A q \in Ranks : at[q] # "begin"
  /\ is_mpied' = [is_mpied EXCEPT ![p] = TRUE]
  /\ UNCHANGED <<setup, at, myrank, ntasks, base, fileVars, waiting, scripts>>

\* A rank forks; the child keeps papiex's variables and initialises as a process.
Fork(p) ==
  /\ setup.forks /\ at[Child] = "unborn"
  /\ p \in Ranks /\ at[p] \in {"app", "finalized"}
  /\ is_mpied' = [is_mpied EXCEPT ![Child] = is_mpied[p]]
  /\ myrank' = [myrank EXCEPT ![Child] = myrank[p]]
  /\ ntasks' = [ntasks EXCEPT ![Child] = ntasks[p]]
  /\ base' = [base EXCEPT ![Child] = base[p]]
  /\ Goto(Child, "begin")
  /\ UNCHANGED <<setup, fileVars, waiting, scripts>>

\* What libmonitor tells: -1 in a process that never called MPI_Comm_rank.
RankOf(p) == IF p \in setup.ranked THEN p ELSE -1
SizeOf(p) == IF p \in setup.ranked THEN Size ELSE -1

\* monitor_fini_mpi, before the real MPI_Finalize, which need not synchronise.
monitor_fini_mpi(p) ==
  /\ p \in setup.final /\ at[p] = "app" /\ is_mpied[p]
  /\ ntasks' = [ntasks EXCEPT ![p] = SizeOf(p)]
  /\ myrank' = [myrank EXCEPT ![p] = RankOf(p)]
  /\ Goto(p, IF RankOf(p) = 0 THEN "base" ELSE "finalized")
  /\ UNCHANGED <<setup, is_mpied, base, fileVars, waiting, scripts>>

-----------------------------------------------------------------------------
(* set_base_output_path, in rank 0 or in a process without MPI *)

\* The path is made and the old container removed; a name given by the user is
\* ignored under MPI and taken as it is otherwise.
set_base_output_path(p) ==
  /\ at[p] = "base"
  /\ base' = [base EXCEPT ![p] = TRUE]
  /\ container' = IF setup.named /\ ~is_mpied[p] THEN container ELSE "absent"
  /\ Goto(p, IF is_mpied[p] THEN "create" ELSE "files")
  /\ UNCHANGED <<setup, is_mpied, myrank, ntasks, complete, wrote, waiting, scripts>>

\* fopen makes an empty file, or fails ...
CreateContainer(p) ==
  /\ at[p] = "create"
  /\ \/ container' = "empty" /\ Goto(p, "fill")
     \/ setup.faults /\ Goto(p, "finalized") /\ UNCHANGED container
  /\ UNCHANGED <<setup, globals, complete, wrote, waiting, scripts>>

\* ... and fclose writes the path, into a file that may have lost its name.
FillContainer(p) ==
  /\ at[p] = "fill"
  /\ container' = IF container = "empty" THEN "full" ELSE container
  /\ Goto(p, "finalized")
  /\ UNCHANGED <<setup, globals, complete, wrote, waiting, scripts>>

-----------------------------------------------------------------------------
(* papiex_process_shutdown_routine *)

\* The process exits: after MPI_Finalize, or without it; get_base_output_path.
Exit(p) ==
  /\ \/ at[p] = "finalized"
     \/ at[p] = "app" /\ p \notin setup.final
  /\ Goto(p, IF base[p] THEN "files" ELSE IF is_mpied[p] THEN "poll" ELSE "base")
  /\ UNCHANGED <<setup, globals, fileVars, waiting, scripts>>

\* while (!file_exists(path_container)) sleep(1)
PollContainer(p) ==
  /\ at[p] = "poll" /\ container # "absent"
  /\ Goto(p, "read")
  /\ UNCHANGED <<setup, globals, fileVars, waiting, scripts>>

\* fopen and fscanf: nothing in the file is an error that ends the process; a file
\* that is gone again makes fscanf fault.
ReadContainer(p) ==
  /\ at[p] = "read"
  /\ IF container = "full"
     THEN base' = [base EXCEPT ![p] = TRUE] /\ Goto(p, "files")
     ELSE Goto(p, "dead") /\ UNCHANGED base
  /\ UNCHANGED <<setup, is_mpied, myrank, ntasks, fileVars, waiting, scripts>>

\* make_output_paths and print_process_stats: the process's files.
WriteFiles(p) ==
  /\ at[p] = "files"
  /\ wrote' = wrote \cup {p}
  /\ Goto(p, "mark")
  /\ UNCHANGED <<setup, globals, container, complete, waiting, scripts>>

ReadyToMark(p) == at[p] = "mark"

\* The placeholder, in a job of more than one rank.
MarkComplete(p) ==
  /\ ReadyToMark(p)
  /\ complete' = IF ntasks[p] > 1 THEN complete \cup {myrank[p]} ELSE complete
  /\ Goto(p, "master")
  /\ UNCHANGED <<setup, globals, container, wrote, waiting, scripts>>

IsMaster(p) == myrank[p] = 0

\* if (papiex_nextgen && (myrank==0)): the master waits and runs the script.
MasterOnly(p) ==
  /\ at[p] = "master"
  /\ Goto(p, IF ~IsMaster(p) THEN "done" ELSE IF ntasks[p] > 1 THEN "wait" ELSE "script")
  /\ UNCHANGED <<setup, globals, fileVars, waiting, scripts>>

MoreRanks_SkipsLast(p) == waiting[p] < ntasks[p] - 1
MoreRanks(p) == waiting[p] < ntasks[p]

\* while (!file_exists(placeholder)) sleep(1), for one rank after the other ...
MeetRank(p) ==
  /\ at[p] = "wait" /\ MoreRanks(p)
  /\ waiting[p] \in complete
  /\ Goto(p, "unlink")
  /\ UNCHANGED <<setup, globals, fileVars, waiting, scripts>>

\* ... and the placeholder is removed.
RemovePlaceholder(p) ==
  /\ at[p] = "unlink"
  /\ complete' = complete \ {waiting[p]}
  /\ waiting' = [waiting EXCEPT ![p] = @ + 1]
  /\ Goto(p, "wait")
  /\ UNCHANGED <<setup, globals, container, wrote, scripts>>

MayRemove_Early(p) == at[p] = "wait"
MayRemove(p) == at[p] = "wait" /\ ~MoreRanks(p)

\* All ranks are done: the container is not needed any more.
RemoveContainer(p) ==
  /\ MayRemove(p)
  /\ container' = "absent"
  /\ Goto(p, "script")
  /\ UNCHANGED <<setup, globals, complete, wrote, waiting, scripts>>

\* The script; its failure is monitor_real_exit(1).
RunScript(p) ==
  /\ at[p] = "script"
  /\ scripts' = scripts \cup {p}
  /\ Goto(p, "done") \/ (setup.faults /\ Goto(p, "dead"))
  /\ UNCHANGED <<setup, globals, fileVars, waiting>>

\* A process is killed.
Crash(p) ==
  /\ setup.faults
  /\ at[p] \notin {"unborn", "done", "dead"}
  /\ Goto(p, "dead")
  /\ UNCHANGED <<setup, globals, fileVars, waiting, scripts>>

PapiexStep(p) ==
  \/ ProcessInit(p)
  \/ set_base_output_path(p) \/ CreateContainer(p) \/ FillContainer(p)
  \/ PollContainer(p) \/ ReadContainer(p) \/ WriteFiles(p) \/ MarkComplete(p)
  \/ MasterOnly(p) \/ MeetRank(p) \/ RemovePlaceholder(p) \/ RemoveContainer(p) \/ RunScript(p)

ApplicationStep(p) == monitor_init_mpi(p) \/ monitor_fini_mpi(p) \/ Exit(p)

Next == \E p \in Processes : PapiexStep(p) \/ ApplicationStep(p) \/ Fork(p) \/ Crash(p)

Spec == Init /\ [][Next]_vars

\* Every process goes on, and the application reaches its end.
FairSpec == Spec /\ \A p \in Processes : WF_vars(PapiexStep(p)) /\ WF_vars(ApplicationStep(p))
-----------------------------------------------------------------------------
(* Properties *)

\* Every variable has its type.
TypeOK ==
  /\ setup \in Setups
  /\ at \in [Processes -> Points]
  /\ is_mpied \in [Processes -> BOOLEAN] /\ base \in [Processes -> BOOLEAN]
  /\ myrank \in [Processes -> Ranks \cup {-1}] /\ ntasks \in [Processes -> {-1, 1, Size}]
  /\ container \in {"absent", "empty", "full"} /\ complete \subseteq Ranks
  /\ waiting \in [Processes -> 0 .. Size]
  /\ wrote \subseteq Processes /\ scripts \subseteq Processes

\* A rank that libmonitor has told its number when it reaches its end.
Regular(p) == p \in setup.ranked \cap setup.final

\* papiex.c, "wait until all the other proceses in this MPI job have finished writing
\* their files before aggregate stats": when rank 0 starts the script, every rank
\* has written its files, whichever order they come in, even if some of
\* them die, as long as no fork child writes placeholders of its own.
ScriptSeesAll ==
  0 \in scripts /\ Regular(0) /\ at[Child] = "unborn" => Ranks \subseteq wrote

\* papiex.c, "This script must be launched exactly once for the whole job". No run
\* checks it, for it does not hold: a rank that leaves without MPI_Finalize or
\* MPI_Init, and a fork child, take themselves for rank 0 and start it as well, while
\* the others may still be writing.
ScriptOnce == Cardinality(scripts) <= 1

\* p waits for a container that no process will make any more.
NoContainer(p) ==
  /\ at[p] = "poll" /\ container = "absent"
  /\ Regular(0) => at[0] \notin {"begin", "app", "base", "create", "fill"}
  /\ at[Child] # "begin"

\* p waits for a placeholder that its rank has made already, or never will: the
\* rank is dead, or a fork child of rank 0 has met and removed it.
NoPlaceholder(p) ==
  /\ at[p] = "wait" /\ MoreRanks(p) /\ waiting[p] \notin complete
  /\ at[waiting[p]] \in {"master", "wait", "unlink", "script", "done", "dead"}

\* A process was killed or read the container before it was filled, the container
\* could not be made, a rank has not called MPI_Comm_rank or MPI_Finalize, or a
\* rank forked.
Disturbed ==
  \/ setup.faults \/ at[Child] # "unborn"
  \/ \E q \in Processes : at[q] = "dead"
  \/ \E q \in Ranks : ~Regular(q)

\* Every process of a job comes to its end unless the job is disturbed, and then
\* some process waits for a container or a placeholder that will never be
\* there: there is no other way for a job to hang.
JobEnds ==
  \A p \in Ranks :
    at[p] = "begin" ~>
      (at[p] \in {"done", "dead"} \/ (Disturbed /\ \E q \in Processes : NoContainer(q) \/ NoPlaceholder(q)))
=============================================================================
