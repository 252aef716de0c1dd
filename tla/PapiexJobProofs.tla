-------------------------- MODULE PapiexJobProofs --------------------------
(***************************************************************************)
(* Proofs about PapiexJob, for jobs of any size and any kinds of job: what *)
(* the report script finds.                                                *)
(***************************************************************************)
EXTENDS PapiexJob, TLAPS

\* What a rank knows of its number: nothing before MPI_Finalize, and the truth after
\* it. Who is past that point is known from where it is; a dead one may be anywhere.
RankInv ==
  /\ \A p \in Ranks : at[p] \in {"begin", "app"} \/ p \notin setup.final => myrank[p] = 0 /\ ntasks[p] = 1
  /\ \A p \in Ranks \cap setup.final : at[p] \notin {"begin", "app", "dead"} \/ p \in wrote
       => myrank[p] = RankOf(p) /\ ntasks[p] = SizeOf(p)
  /\ \A p \in Ranks : at[p] # "unborn"
  /\ \A p \in Processes : ntasks[p] > 1 => ntasks[p] = Size /\ myrank[p] \in Ranks

\* A process that has met a placeholder is not past the last one.
MeetInv == \A p \in Processes : at[p] = "unlink" => MoreRanks(p)

\* The files of a process are written between "files" and "mark".
WroteInv ==
  /\ \A p \in Processes : at[p] = "mark" => p \in wrote
  /\ \A p \in wrote : at[p] \in {"mark", "master", "wait", "unlink", "script", "done", "dead"}

\* As long as nobody has forked, a placeholder, on the disk or met by rank 0, stands
\* for the files of its rank, and rank 0 goes on only when it has met them all.
SeenInv ==
  /\ at[Child] = "unborn" =>
       /\ complete \subseteq wrote /\ \A r \in Ranks : r < waiting[0] => r \in wrote
       /\ at[0] = "unlink" => waiting[0] \in wrote
  /\ Regular(0) /\ (at[0] = "script" \/ 0 \in scripts) => waiting[0] >= Size

JobInv == TypeOK /\ RankInv /\ MeetInv /\ WroteInv /\ SeenInv

\* Size and the ranks.
LEMMA RankFacts ==
  /\ Size \in Nat /\ Size > 1 /\ 0 \in Ranks /\ Ranks \subseteq Nat /\ Child \notin Ranks /\ Child # 0
  /\ Ranks \subseteq Processes /\ Child \in Processes
  /\ \A p \in Processes : p \in Ranks \/ p = Child
  /\ \A r \in Ranks : r < Size
  BY SizeAssumption, ChildAssumption DEF Ranks, Processes

\* The ranks that call MPI_Comm_rank and MPI_Finalize are ranks.
LEMMA SetupFacts ==
  ASSUME TypeOK
  PROVE  setup.ranked \subseteq Ranks /\ setup.final \subseteq Ranks
  BY SetupsAssumption DEF TypeOK, Setup

\* The first state satisfies the invariant.
LEMMA JobInit == Init => JobInv
<1> SUFFICES ASSUME Init PROVE JobInv
  OBVIOUS
<1> USE RankFacts DEF Init
<1>1. TypeOK
  BY DEF TypeOK, Points
<1>2. RankInv
  BY DEF RankInv
<1>3. MeetInv /\ WroteInv /\ SeenInv
  BY DEF MeetInv, WroteInv, SeenInv
<1> QED
  BY <1>1, <1>2, <1>3 DEF JobInv

\* Every step keeps the types.
LEMMA TypeStep ==
  ASSUME JobInv, [Next]_vars
  PROVE  TypeOK'
<1> USE RankFacts DEF JobInv, TypeOK, Goto, Points, globals, fileVars, vars
<1>1. ASSUME NEW p \in Processes, ProcessInit(p) PROVE TypeOK'
  BY <1>1 DEF ProcessInit
<1>2. ASSUME NEW p \in Processes, monitor_init_mpi(p) PROVE TypeOK'
  BY <1>2 DEF monitor_init_mpi
<1>3. ASSUME NEW p \in Processes, Fork(p) PROVE TypeOK'
  BY <1>3 DEF Fork
<1>4. ASSUME NEW p \in Processes, monitor_fini_mpi(p) PROVE TypeOK'
  <2>1. RankOf(p) \in Ranks \cup {-1} /\ SizeOf(p) \in {-1, 1, Size}
    BY SetupFacts DEF RankOf, SizeOf
  <2> QED
    BY <1>4, <2>1 DEF monitor_fini_mpi
<1>5. ASSUME NEW p \in Processes, set_base_output_path(p) PROVE TypeOK'
  BY <1>5 DEF set_base_output_path
<1>6. ASSUME NEW p \in Processes, CreateContainer(p) \/ FillContainer(p) PROVE TypeOK'
  BY <1>6 DEF CreateContainer, FillContainer
<1>7. ASSUME NEW p \in Processes, PollContainer(p) \/ ReadContainer(p) PROVE TypeOK'
  BY <1>7 DEF PollContainer, ReadContainer
<1>8. ASSUME NEW p \in Processes, WriteFiles(p) \/ MasterOnly(p) \/ RemoveContainer(p) \/ RunScript(p)
      PROVE  TypeOK'
  BY <1>8 DEF WriteFiles, MasterOnly, RemoveContainer, MayRemove, RunScript
<1>9. ASSUME NEW p \in Processes, MarkComplete(p) PROVE TypeOK'
  BY <1>9 DEF MarkComplete, RankInv
<1>10. ASSUME NEW p \in Processes, RemovePlaceholder(p) PROVE TypeOK'
  <2>1. waiting[p] \in 0 .. Size /\ ntasks[p] \in {-1, 1, Size} /\ waiting[p] < ntasks[p]
    BY <1>10 DEF RemovePlaceholder, MeetInv, MoreRanks
  <2>2. waiting[p] + 1 \in 0 .. Size
    BY <2>1
  <2> QED
    BY <1>10, <2>2 DEF RemovePlaceholder
<1>13. ASSUME NEW p \in Processes, MeetRank(p) PROVE TypeOK'
  BY <1>13 DEF MeetRank
<1>11. ASSUME NEW p \in Processes, Exit(p) \/ Crash(p) PROVE TypeOK'
  BY <1>11 DEF Exit, Crash
<1>12. CASE UNCHANGED vars
  BY <1>12
<1> QED
  BY <1>1, <1>2, <1>3, <1>4, <1>5, <1>6, <1>7, <1>8, <1>9, <1>10, <1>11, <1>12, <1>13
     DEF Next, PapiexStep, ApplicationStep

\* Every step keeps what the processes know of their ranks.
LEMMA RankStep ==
  ASSUME JobInv, [Next]_vars
  PROVE  RankInv'
<1> USE RankFacts DEF JobInv, TypeOK, RankInv, RankOf, SizeOf, Goto, globals, fileVars, vars
<1>1. ASSUME NEW p \in Processes, ProcessInit(p) \/ Exit(p) \/ Crash(p) PROVE RankInv'
  <2>1. UNCHANGED <<setup, myrank, ntasks, wrote>> /\ at[p] # "unborn"
    BY <1>1 DEF ProcessInit, Exit, Crash
  <2>2. CASE ProcessInit(p)
    BY <2>1, <2>2 DEF ProcessInit
  <2>3. CASE Exit(p)
    BY <2>1, <2>3 DEF Exit
  <2>4. CASE Crash(p)
    BY <2>1, <2>4 DEF Crash
  <2> QED
    BY <1>1, <2>2, <2>3, <2>4
<1>2. ASSUME NEW p \in Processes, monitor_init_mpi(p) PROVE RankInv'
  BY <1>2 DEF monitor_init_mpi
<1>3. ASSUME NEW p \in Processes, Fork(p) PROVE RankInv'
  BY <1>3 DEF Fork
<1>4. ASSUME NEW p \in Processes, monitor_fini_mpi(p) PROVE RankInv'
  <2>1. p \in Ranks /\ p \in setup.final /\ (p \in setup.ranked => p # -1)
    BY <1>4, SetupFacts DEF monitor_fini_mpi
  <2>2. /\ UNCHANGED <<setup, wrote>>
        /\ myrank' = [myrank EXCEPT ![p] = RankOf(p)] /\ ntasks' = [ntasks EXCEPT ![p] = SizeOf(p)]
        /\ \/ at' = [at EXCEPT ![p] = "base"]
           \/ at' = [at EXCEPT ![p] = "finalized"]
    BY <1>4 DEF monitor_fini_mpi
  <2> QED
    BY <2>1, <2>2
<1>5. ASSUME NEW p \in Processes, set_base_output_path(p) \/ CreateContainer(p) \/ FillContainer(p)
      PROVE  RankInv'
  BY <1>5 DEF set_base_output_path, CreateContainer, FillContainer
<1>6. ASSUME NEW p \in Processes, PollContainer(p) \/ ReadContainer(p) PROVE RankInv'
  BY <1>6 DEF PollContainer, ReadContainer
<1>7. ASSUME NEW p \in Processes, WriteFiles(p) \/ MarkComplete(p) PROVE RankInv'
  BY <1>7 DEF WriteFiles, MarkComplete, ReadyToMark
<1>8. ASSUME NEW p \in Processes, MasterOnly(p) PROVE RankInv'
  BY <1>8 DEF MasterOnly, IsMaster
<1>9. ASSUME NEW p \in Processes, MeetRank(p) \/ RemovePlaceholder(p) \/ RemoveContainer(p) \/ RunScript(p)
      PROVE  RankInv'
  BY <1>9 DEF MeetRank, RemovePlaceholder, RemoveContainer, MayRemove, RunScript
<1>10. CASE UNCHANGED vars
  BY <1>10
<1> QED
  BY <1>1, <1>2, <1>3, <1>4, <1>5, <1>6, <1>7, <1>8, <1>9, <1>10
     DEF Next, PapiexStep, ApplicationStep

\* Only a process with placeholders to meet meets one.
LEMMA MeetStep ==
  ASSUME JobInv, [Next]_vars
  PROVE  MeetInv'
<1> USE RankFacts DEF JobInv, TypeOK, MeetInv, MoreRanks, Goto, globals, fileVars, vars
<1>1. ASSUME NEW p \in Processes, ProcessInit(p) \/ Exit(p) \/ Crash(p) PROVE MeetInv'
  BY <1>1 DEF ProcessInit, Exit, Crash
<1>2. ASSUME NEW p \in Processes, monitor_init_mpi(p) \/ monitor_fini_mpi(p) \/ Fork(p) PROVE MeetInv'
  BY <1>2 DEF monitor_init_mpi, monitor_fini_mpi, Fork
<1>3. ASSUME NEW p \in Processes, set_base_output_path(p) \/ CreateContainer(p) \/ FillContainer(p)
      PROVE  MeetInv'
  BY <1>3 DEF set_base_output_path, CreateContainer, FillContainer
<1>4. ASSUME NEW p \in Processes, PollContainer(p) \/ ReadContainer(p) PROVE MeetInv'
  BY <1>4 DEF PollContainer, ReadContainer
<1>5. ASSUME NEW p \in Processes, WriteFiles(p) \/ MarkComplete(p) \/ MasterOnly(p) PROVE MeetInv'
  BY <1>5 DEF WriteFiles, MarkComplete, ReadyToMark, MasterOnly
<1>6. ASSUME NEW p \in Processes, MeetRank(p) \/ RemovePlaceholder(p) \/ RemoveContainer(p) \/ RunScript(p)
      PROVE  MeetInv'
  BY <1>6 DEF MeetRank, RemovePlaceholder, RemoveContainer, MayRemove, RunScript
<1>7. CASE UNCHANGED vars
  BY <1>7
<1> QED
  BY <1>1, <1>2, <1>3, <1>4, <1>5, <1>6, <1>7 DEF Next, PapiexStep, ApplicationStep

\* Every step keeps the order of files and placeholder.
LEMMA WroteStep ==
  ASSUME JobInv, [Next]_vars
  PROVE  WroteInv'
<1> USE RankFacts DEF JobInv, TypeOK, WroteInv, Goto, globals, fileVars, vars
<1>1. ASSUME NEW p \in Processes, ProcessInit(p) \/ Exit(p) \/ Crash(p) PROVE WroteInv'
  BY <1>1 DEF ProcessInit, Exit, Crash
<1>2. ASSUME NEW p \in Processes, monitor_init_mpi(p) \/ monitor_fini_mpi(p) \/ Fork(p) PROVE WroteInv'
  BY <1>2 DEF monitor_init_mpi, monitor_fini_mpi, Fork
<1>3. ASSUME NEW p \in Processes, set_base_output_path(p) \/ CreateContainer(p) \/ FillContainer(p)
      PROVE  WroteInv'
  BY <1>3 DEF set_base_output_path, CreateContainer, FillContainer
<1>4. ASSUME NEW p \in Processes, PollContainer(p) \/ ReadContainer(p) PROVE WroteInv'
  BY <1>4 DEF PollContainer, ReadContainer
<1>5. ASSUME NEW p \in Processes, WriteFiles(p) \/ MarkComplete(p) \/ MasterOnly(p) PROVE WroteInv'
  BY <1>5 DEF WriteFiles, MarkComplete, ReadyToMark, MasterOnly
<1>6. ASSUME NEW p \in Processes, MeetRank(p) \/ RemovePlaceholder(p) \/ RemoveContainer(p) \/ RunScript(p)
      PROVE  WroteInv'
  BY <1>6 DEF MeetRank, RemovePlaceholder, RemoveContainer, MayRemove, RunScript
<1>7. CASE UNCHANGED vars
  BY <1>7
<1> QED
  BY <1>1, <1>2, <1>3, <1>4, <1>5, <1>6, <1>7 DEF Next, PapiexStep, ApplicationStep

\* Every step keeps what the placeholders mean.
LEMMA SeenStep ==
  ASSUME JobInv, [Next]_vars
  PROVE  SeenInv'
<1> USE RankFacts DEF JobInv, TypeOK, SeenInv, Regular, Goto, globals, fileVars, vars
<1>1. ASSUME NEW p \in Processes, ProcessInit(p) \/ Exit(p) \/ Crash(p) PROVE SeenInv'
  <2>1. CASE ProcessInit(p)
    BY <2>1 DEF ProcessInit
  <2>2. CASE Exit(p)
    BY <2>2 DEF Exit
  <2>3. CASE Crash(p)
    BY <2>3 DEF Crash
  <2> QED
    BY <1>1, <2>1, <2>2, <2>3
<1>2. ASSUME NEW p \in Processes, monitor_init_mpi(p) \/ monitor_fini_mpi(p) \/ Fork(p) PROVE SeenInv'
  BY <1>2 DEF monitor_init_mpi, monitor_fini_mpi, Fork
<1>3. ASSUME NEW p \in Processes, set_base_output_path(p) \/ CreateContainer(p) \/ FillContainer(p)
      PROVE  SeenInv'
  BY <1>3 DEF set_base_output_path, CreateContainer, FillContainer
<1>4. ASSUME NEW p \in Processes, PollContainer(p) \/ ReadContainer(p) \/ WriteFiles(p) PROVE SeenInv'
  BY <1>4 DEF PollContainer, ReadContainer, WriteFiles
<1>5. ASSUME NEW p \in Processes, MarkComplete(p) PROVE SeenInv'
  <2>1. p \in wrote
    BY <1>5 DEF MarkComplete, ReadyToMark, WroteInv
  <2>2. at[Child] = "unborn" /\ ntasks[p] > 1 => myrank[p] = p
    BY <1>5, <2>1 DEF MarkComplete, ReadyToMark, RankInv, RankOf, SizeOf
  <2> QED
    BY <1>5, <2>1, <2>2 DEF MarkComplete
<1>6. ASSUME NEW p \in Processes, MasterOnly(p) PROVE SeenInv'
  <2>1. p = 0 /\ Regular(0) => ntasks[p] = Size
    BY <1>6 DEF MasterOnly, RankInv, SizeOf
  <2> QED
    BY <1>6, <2>1 DEF MasterOnly
<1>11. ASSUME NEW p \in Processes, MeetRank(p) PROVE SeenInv'
  BY <1>11 DEF MeetRank
<1>7. ASSUME NEW p \in Processes, RemovePlaceholder(p) PROVE SeenInv'
  <2>1. \A r \in Ranks : r < waiting[p] + 1 => r < waiting[p] \/ r = waiting[p]
    BY DEF Ranks
  <2>2. waiting' = [waiting EXCEPT ![p] = @ + 1] /\ at[p] = "unlink" /\ at' = [at EXCEPT ![p] = "wait"]
        /\ complete' \subseteq complete /\ UNCHANGED <<setup, wrote, scripts>>
    BY <1>7 DEF RemovePlaceholder
  <2>3. \A q \in Processes : waiting[q] \in Nat
    OBVIOUS
  <2> QED
    BY <2>1, <2>2, <2>3
<1>8. ASSUME NEW p \in Processes, RemoveContainer(p) PROVE SeenInv'
  <2>1. p = 0 /\ Regular(0) => ntasks[p] = Size
    BY <1>8 DEF RemoveContainer, MayRemove, RankInv, SizeOf
  <2>2. waiting[p] \in Nat
    OBVIOUS
  <2> QED
    BY <1>8, <2>1, <2>2 DEF RemoveContainer, MayRemove, MoreRanks
<1>9. ASSUME NEW p \in Processes, RunScript(p) PROVE SeenInv'
  BY <1>9 DEF RunScript
<1>10. CASE UNCHANGED vars
  BY <1>10
<1> QED
  BY <1>1, <1>2, <1>3, <1>4, <1>5, <1>6, <1>7, <1>8, <1>9, <1>10, <1>11
     DEF Next, PapiexStep, ApplicationStep

\* The invariant holds in every state of every job.
LEMMA JobInvariance == Spec => []JobInv
<1>1. JobInv /\ [Next]_vars => JobInv'
  BY TypeStep, RankStep, MeetStep, WroteStep, SeenStep DEF JobInv
<1> QED
  BY JobInit, <1>1, PTL DEF Spec

\* Ranks, numbers of placeholders and files of the rendezvous keep their types.
THEOREM JobTypes == Spec => []TypeOK
<1>1. JobInv => TypeOK
  BY DEF JobInv
<1> QED
  BY JobInvariance, <1>1, PTL

\* papiex.c, the wait of rank 0: when it starts the script every rank has written its
\* files, whatever the number of ranks and whoever dies.
THEOREM ScriptAfterAll == Spec => []ScriptSeesAll
<1>1. ASSUME JobInv PROVE ScriptSeesAll
  <2> SUFFICES ASSUME 0 \in scripts, Regular(0), at[Child] = "unborn", NEW r \in Ranks
               PROVE  r \in wrote
    BY DEF ScriptSeesAll
  <2>1. waiting[0] >= Size /\ waiting[0] \in Nat /\ r < Size /\ r \in Nat
    BY <1>1, RankFacts DEF JobInv, SeenInv, TypeOK
  <2> QED
    BY <1>1, <2>1, RankFacts DEF JobInv, SeenInv
<1> QED
  BY JobInvariance, <1>1, PTL
=============================================================================
