------------------------ MODULE MonitorSignalsProofs ------------------------
(***************************************************************************)
(* Proofs about MonitorSignals for every set of threads, every list of     *)
(* signals and every environment, calls of sigaction for the same signal   *)
(* that overlap included.                                                  *)
(***************************************************************************)
EXTENDS MonitorSignals, TLAPS

\* The frame of the exit, from its first step to the end.
InShootdown(f) == pc[f] \in {"slock", "choose", "sinstall", "walk"}

\* A call that names a signal is a sigaction, and a sigaction in progress names its
\* signal.
CallInv ==
  /\ \A f \in Frames : call[f].how = "sigaction" <=> call[f].sig # None
  /\ \A f \in Frames : pc[f] = "kern" => call[f].how = "sigaction"

\* A call that is about to install its set has marked it, unless it is a sigaction
\* and another one has rewritten the mask of the signal.
ReadyInv(f) ==
  pc[f] = "install" =>
    IF call[f].how = "sigaction"
    THEN kern_act[call[f].sig] \subseteq blocked \/ Rewritten(f)
    ELSE call[f].set \subseteq blocked

\* Whatever a thread blocks, will block or restores has been marked, but for what
\* the kernel adds for the time of a handler.
MaskInv ==
  /\ \A t \in Threads : mask[t] \subseteq blocked \cup deferred[t] /\ saved[t] \subseteq blocked
  /\ \A t \in Threads : ~terminated /\ pc[<<t, 1>>] = "none" => deferred[t] = {}
  /\ \A s \in Signals \ torn : sa_mask[s] \subseteq blocked
MarkedInv == MaskInv /\ \A f \in Frames : ReadyInv(f)

\* Until the exit has chosen, a signal of the list is left, and one that is
\* chosen already is kept open and not marked.
AvailableInv ==
  /\ \A f \in Frames : InShootdown(f) => exiter = f
  /\ shootdown_signal = None => Available # {}
  /\ \A f \in Frames : pc[f] \in {"slock", "choose"} => Available # {}
  /\ exiter = NoFrame /\ shootdown_signal # None => shootdown_signal \in keep_open \ blocked
  /\ \A f \in Frames : pc[f] \in {"slock", "choose"} /\ shootdown_signal # None
        => shootdown_signal \in keep_open \cap Available

SignalInv == TypeOK /\ CallInv /\ MarkedInv /\ AvailableInv

\* The two places where the library takes its lock.
LockStep(f) == AcquireSignalLock(f, "lock", "remove") \/ AcquireSignalLock(f, "slock", "choose")

\* A frame is a thread and a level; it is never NoFrame.
LEMMA FrameFacts ==
  /\ \A f \in Frames : f[1] \in Threads /\ f # NoFrame
  /\ \A t \in Threads : <<t, 0>> \in Frames /\ <<t, 1>> \in Frames
  BY DEF Frames, NoFrame


\* Every step keeps the types.
LEMMA TypeStep ==
  ASSUME TypeOK, CallInv, MarkedInv, AvailableInv, [Next]_vars
  PROVE  TypeOK'
<1> USE SignalsAssumption, SignalMovesAssumption
    DEF TypeOK, Acts, Calls, NoCall, ShootdownList, Available,
        Called, At, Goto, table, kernel, vars
<1>1. ASSUME NEW f \in Frames, NEW S \in Masks, NEW how \in {"block", "setmask"}, SigmaskCall(f, how, S) PROVE TypeOK'
  BY <1>1 DEF SigmaskCall
<1>2. ASSUME NEW f \in Frames, NEW S \in Masks, SigUnblock(f, S) PROVE TypeOK'
  <2>1. mask' \in [Threads -> SUBSET Signals]
    BY <1>2 DEF SigUnblock
  <2>2. calls' \in 0 .. MaxCalls
    BY <1>2 DEF SigUnblock
  <2> QED
    BY <1>2, <2>1, <2>2 DEF SigUnblock
<1>3. ASSUME NEW f \in Frames, NEW s \in Caught, NEW S \in Masks, NEW act \in Acts, ApplSigaction(f, s, act, S) PROVE TypeOK'
  BY <1>3 DEF ApplSigaction
<1>4. ASSUME NEW f \in Frames, NEW s \in Caught, NEW S \in Masks, NEW hasAct \in BOOLEAN, ClientSigaction(f, s, hasAct, S) PROVE TypeOK'
  <2>1. calls' \in 0 .. MaxCalls
    BY <1>4 DEF ClientSigaction
  <2>2. keep_open' \subseteq Signals /\ client' \subseteq Signals
    BY <1>4 DEF ClientSigaction
  <2>3. [how |-> "sigaction", sig |-> s, set |-> S] \in Calls
    OBVIOUS
  <2>4. call' \in [Frames -> Calls]
    <3>1. CASE hasAct
      BY <1>4, <2>3, <3>1 DEF ClientSigaction
    <3>2. CASE ~hasAct
      BY <1>4, <3>2 DEF ClientSigaction
    <3> QED
      BY <3>1, <3>2
  <2>5. pc' \in [Frames -> {"none", "idle", "kern", "lock", "remove", "install",
                            "slock", "choose", "sinstall", "walk", "lose"}]
    BY <1>4 DEF ClientSigaction
  <2> QED
    BY <1>4, <2>1, <2>2, <2>4, <2>5 DEF ClientSigaction
<1>5. ASSUME NEW f \in Frames, ExitProcess(f) PROVE TypeOK'
  BY <1>5 DEF ExitProcess, ShootdownEntry
<1>6. ASSUME NEW f \in Frames, RealSigmask(f) PROVE TypeOK'
  BY <1>6 DEF RealSigmask
<1>7. ASSUME NEW f \in Frames, WriteKernAct(f) PROVE TypeOK'
  BY <1>7 DEF WriteKernAct
<1>8. ASSUME NEW f \in Frames, RealSigaction(f) PROVE TypeOK'
  <2>1. call[f].sig \in Signals /\ torn' \subseteq Signals
    BY <1>8 DEF RealSigaction, CallInv
  <2>2. sa_mask' \in [Signals -> SUBSET Signals] /\ handler' \in [Signals -> {"monitor", "shootdown"}]
    BY <1>8, <2>1 DEF RealSigaction
  <2> QED
    BY <1>8, <2>1, <2>2 DEF RealSigaction
<1>9. ASSUME NEW f \in Frames, LockStep(f) PROVE TypeOK'
  BY <1>9 DEF LockStep, AcquireSignalLock
<1>10. ASSUME NEW f \in Frames, RemoveClientSignals(f) PROVE TypeOK'
  <2>1. call[f] \in Calls /\ (call[f].how = "sigaction" => call[f].sig \in Signals)
    BY DEF CallInv
  <2>2. CallSet(f) \subseteq Signals
    BY <2>1 DEF CallSet
  <2>3. shootdown_signal' \in Signals \cup {None} /\ keep_open' \subseteq Signals
    BY <1>10 DEF RemoveClientSignals, First, KeepOpen
  <2>4. blocked' \subseteq Signals
    BY <1>10, <2>2 DEF RemoveClientSignals, MarkBlocked
  <2>5. kern_act' \in [Signals -> SUBSET Signals]
    BY <1>10, <2>2 DEF RemoveClientSignals
  <2>6. call' \in [Frames -> Calls]
    <3> DEFINE S == CallSet(f) \ keep_open'
    <3>1. call' = call \/ call' = [call EXCEPT ![f].set = S]
      BY <1>10 DEF RemoveClientSignals
    <3>2. S \in SUBSET Signals /\ call \in [Frames -> Calls]
      BY <2>2
    <3> HIDE DEF S
    <3>3. CASE call' = [call EXCEPT ![f].set = S]
      BY ONLY <3>2, <3>3, Zenon DEF Calls
    <3>4. pc' = pc => \A t \in Threads : pc'[<<t, 1>>] = pc[<<t, 1>>]
      OBVIOUS
    <3>5. pc' = [pc EXCEPT ![f] = "kern"]
             => \A t \in Threads : pc'[<<t, 1>>] \in {pc[<<t, 1>>], "kern"}
      BY ONLY <3>3, FrameFacts
    <3> QED
      BY ONLY <3>1, <3>2, <3>4, <3>5
  <2>7. pc' \in [Frames -> {"none", "idle", "kern", "lock", "remove", "install",
                            "slock", "choose", "sinstall", "walk", "lose"}]
    BY <1>10 DEF RemoveClientSignals
  <2> QED
    BY <1>10, <2>3, <2>4, <2>5, <2>6, <2>7 DEF RemoveClientSignals
<1>11. ASSUME NEW f \in Frames, ChooseShootdownSignal(f) PROVE TypeOK'
  BY <1>11 DEF ChooseShootdownSignal, First, Preferred, Available
<1>12. ASSUME NEW f \in Frames, InstallShootdown(f) PROVE TypeOK'
  BY <1>12 DEF InstallShootdown
<1>13. ASSUME NEW f \in Frames, EndProcess(f) PROVE TypeOK'
  BY <1>13 DEF EndProcess
<1>14. ASSUME NEW t \in Threads, HandlerReturn(t) PROVE TypeOK'
  BY <1>14 DEF HandlerReturn
<1>15. ASSUME NEW t \in Threads, NEW s \in Signals, NEW accepts \in BOOLEAN, RunHandler(t, s, accepts) PROVE TypeOK'
  <2>1. /\ mask' \in [Threads -> SUBSET Signals] /\ saved' \in [Threads -> SUBSET Signals]
        /\ deferred' \in [Threads -> SUBSET Signals]
    <3>1. sa_mask[s] \in SUBSET Signals /\ {s} \in SUBSET Signals
      OBVIOUS
    <3>2. {s} \cup (IF s \in torn THEN sa_mask[s] ELSE {}) \in SUBSET Signals
      BY <3>1
    <3> QED
      BY <1>15, <3>1, <3>2 DEF RunHandler, EnterHandler
  <2> QED
    BY <1>15, <2>1 DEF RunHandler
<1>16. ASSUME NEW t \in Threads, NEW s \in Signals, NEW accepts \in BOOLEAN, DefaultEnd(t, s, accepts) PROVE TypeOK'
  <2>1. /\ mask' \in [Threads -> SUBSET Signals] /\ saved' \in [Threads -> SUBSET Signals]
        /\ deferred' \in [Threads -> SUBSET Signals]
    <3>1. sa_mask[s] \in SUBSET Signals /\ {s} \in SUBSET Signals
      OBVIOUS
    <3>2. {s} \cup (IF s \in torn THEN sa_mask[s] ELSE {}) \in SUBSET Signals
      BY <3>1
    <3> QED
      BY <1>16, <3>1, <3>2 DEF DefaultEnd, EnterHandler
  <2>2. exiter' \in Frames \cup {NoFrame}
    <3>1. exiter' = exiter \/ exiter' = <<t, 1>>
      BY <1>16 DEF DefaultEnd
    <3>2. <<t, 1>> \in Frames
      BY FrameFacts
    <3>3. exiter \in Frames \cup {NoFrame}
      BY DEF TypeOK
    <3> QED
      BY ONLY <3>1, <3>2, <3>3, Zenon
  <2>4. terminated' \in BOOLEAN
    BY <1>16 DEF DefaultEnd
  <2>3. pc' \in [Frames -> {"none", "idle", "kern", "lock", "remove", "install",
                            "slock", "choose", "sinstall", "walk", "lose"}]
    BY <1>16 DEF DefaultEnd, ShootdownEntry
  <2> QED
    BY <1>16, <2>1, <2>2, <2>3, <2>4 DEF DefaultEnd
<1>17. ASSUME UNCHANGED vars PROVE TypeOK'
  BY <1>17
<1> HIDE DEF TypeOK, Acts, Calls, NoCall, ShootdownList, Available,
         Called, At, Goto, table, kernel, vars
<1>18. ASSUME NEW f \in Frames, LibraryStep(f) PROVE TypeOK'
  BY <1>18, <1>6, <1>7, <1>8, <1>9, <1>10, <1>11, <1>12, <1>13 DEF LibraryStep, LockStep
<1>19. ASSUME NEW f \in Frames, EnvironmentStep(f) PROVE TypeOK'
  BY <1>19, <1>1, <1>2, <1>3, <1>4, <1>5 DEF EnvironmentStep
<1> QED
  BY <1>14, <1>15, <1>16, <1>17, <1>18, <1>19 DEF Next

\* Every step keeps the calls apart.
LEMMA CallStep ==
  ASSUME TypeOK, CallInv, [Next]_vars
  PROVE  CallInv'
<1> USE SignalsAssumption
    DEF CallInv, Calls, NoCall, Acts, TypeOK,
        Called, At, Goto, table, kernel, vars
<1>1. ASSUME NEW f \in Frames, NEW S \in Masks, NEW how \in {"block", "setmask"}, SigmaskCall(f, how, S) PROVE CallInv'
  BY <1>1 DEF SigmaskCall
<1>2. ASSUME NEW f \in Frames, NEW S \in Masks, SigUnblock(f, S) PROVE CallInv'
  BY <1>2 DEF SigUnblock
<1>3. ASSUME NEW f \in Frames, NEW s \in Caught, NEW S \in Masks, NEW act \in Acts, ApplSigaction(f, s, act, S) PROVE CallInv'
  <2>1. /\ call' = [call EXCEPT ![f] = [how |-> "sigaction", sig |-> s, set |-> S]]
        /\ pc' = [pc EXCEPT ![f] = "kern"]
    BY <1>3 DEF ApplSigaction
  <2>2. s # None
    BY DEF None
  <2> QED
    BY <2>1, <2>2
<1>4. ASSUME NEW f \in Frames, NEW s \in Caught, NEW S \in Masks, NEW hasAct \in BOOLEAN, ClientSigaction(f, s, hasAct, S) PROVE CallInv'
  <2>1. CASE hasAct
    <3>1. /\ call' = [call EXCEPT ![f] = [how |-> "sigaction", sig |-> s, set |-> S]]
          /\ pc' = [pc EXCEPT ![f] = "kern"]
      BY <1>4, <2>1 DEF ClientSigaction
    <3>2. s # None
      BY DEF None
    <3> QED
      BY <3>1, <3>2
  <2>2. CASE ~hasAct
    BY <1>4, <2>2 DEF ClientSigaction
  <2> QED
    BY <2>1, <2>2
<1>5. ASSUME NEW f \in Frames, ExitProcess(f) PROVE CallInv'
  BY <1>5 DEF ExitProcess, ShootdownEntry
<1>6. ASSUME NEW f \in Frames, RealSigmask(f) PROVE CallInv'
  BY <1>6 DEF RealSigmask
<1>7. ASSUME NEW f \in Frames, WriteKernAct(f) PROVE CallInv'
  BY <1>7 DEF WriteKernAct
<1>8. ASSUME NEW f \in Frames, RealSigaction(f) PROVE CallInv'
  BY <1>8 DEF RealSigaction
<1>9. ASSUME NEW f \in Frames, LockStep(f) PROVE CallInv'
  BY <1>9 DEF LockStep, AcquireSignalLock
<1>10. ASSUME NEW f \in Frames, RemoveClientSignals(f) PROVE CallInv'
  <2>1. \A g \in Frames : call'[g].how = call[g].how /\ call'[g].sig = call[g].sig
    <3> DEFINE S == CallSet(f) \ keep_open'
    <3>1. call' = call \/ call' = [call EXCEPT ![f].set = S]
      BY <1>10 DEF RemoveClientSignals
    <3>2. call \in [Frames -> Calls]
      OBVIOUS
    <3> HIDE DEF S
    <3>3. CASE call' = [call EXCEPT ![f].set = S]
      BY ONLY <3>2, <3>3 DEF Calls
    <3> QED
      BY ONLY <3>1, <3>3
  <2>2. \A g \in Frames : pc'[g] = "kern" => pc[g] = "kern"
    BY <1>10 DEF RemoveClientSignals
  <2> QED
    BY ONLY <2>1, <2>2, CallInv DEF CallInv
<1>11. ASSUME NEW f \in Frames, ChooseShootdownSignal(f) PROVE CallInv'
  BY <1>11 DEF ChooseShootdownSignal, First, Preferred, Available
<1>12. ASSUME NEW f \in Frames, InstallShootdown(f) PROVE CallInv'
  BY <1>12 DEF InstallShootdown
<1>13. ASSUME NEW f \in Frames, EndProcess(f) PROVE CallInv'
  BY <1>13 DEF EndProcess
<1>14. ASSUME NEW t \in Threads, HandlerReturn(t) PROVE CallInv'
  BY <1>14 DEF HandlerReturn
<1>15. ASSUME NEW t \in Threads, NEW s \in Signals, NEW accepts \in BOOLEAN, RunHandler(t, s, accepts) PROVE CallInv'
  BY <1>15 DEF RunHandler, EnterHandler
<1>16. ASSUME NEW t \in Threads, NEW s \in Signals, NEW accepts \in BOOLEAN, DefaultEnd(t, s, accepts) PROVE CallInv'
  <2>1. call' = call
    BY <1>16 DEF DefaultEnd
  <2>2. pc' = pc \/ \E p \in {"slock", "sinstall", "lose"} : pc' = [pc EXCEPT ![<<t, 1>>] = p]
    BY <1>16 DEF DefaultEnd, ShootdownEntry
  <2>3. \A g \in Frames : pc'[g] = "kern" => pc[g] = "kern"
    BY <2>2
  <2> QED
    BY ONLY <2>1, <2>3, CallInv DEF CallInv
<1>17. ASSUME UNCHANGED vars PROVE CallInv'
  BY <1>17
<1> HIDE DEF CallInv, Calls, NoCall, Acts, TypeOK,
         Called, At, Goto, table, kernel, vars
<1>18. ASSUME NEW f \in Frames, LibraryStep(f) PROVE CallInv'
  BY <1>18, <1>6, <1>7, <1>8, <1>9, <1>10, <1>11, <1>12, <1>13 DEF LibraryStep, LockStep
<1>19. ASSUME NEW f \in Frames, EnvironmentStep(f) PROVE CallInv'
  BY <1>19, <1>1, <1>2, <1>3, <1>4, <1>5 DEF EnvironmentStep
<1> QED
  BY <1>14, <1>15, <1>16, <1>17, <1>18, <1>19 DEF Next

\* A step that rewrites no mask of the table and reduces none leaves every call as
\* ready as it was.
LEMMA ReadyKept ==
  ASSUME \A f \in Frames : ReadyInv(f),
         UNCHANGED <<blocked, kern_act>>,
         \A g \in Frames : pc'[g] = "install" => pc[g] = "install" /\ call'[g] = call[g],
         \A g \in Frames : pc[g] \in {"lock", "remove"}
                            => pc'[g] \in {"lock", "remove"} /\ call'[g] = call[g]
  PROVE  \A f \in Frames : ReadyInv(f)'
<1> SUFFICES ASSUME NEW f \in Frames, pc'[f] = "install" PROVE ReadyInv(f)'
  BY DEF ReadyInv
<1>1. pc[f] = "install" /\ call'[f] = call[f]
  OBVIOUS
<1>2. Rewritten(f) => Rewritten(f)'
  BY <1>1 DEF Rewritten
<1> QED
  BY <1>1, <1>2 DEF ReadyInv

\* Neither does a step that leaves the masks alone and ends no handler change what
\* they hold.
LEMMA MaskKept ==
  ASSUME MaskInv, UNCHANGED <<mask, saved, sa_mask, torn, deferred>>, blocked \subseteq blocked',
         \A t \in Threads : ~terminated' /\ pc'[<<t, 1>>] = "none"
                         => ~terminated /\ pc[<<t, 1>>] = "none"
  PROVE  MaskInv'
  BY DEF MaskInv

\* Every step marks what it blocks.
LEMMA MarkedStep ==
  ASSUME TypeOK, CallInv, MarkedInv, [Next]_vars
  PROVE  MarkedInv'
<1> USE SignalsAssumption
    DEF CallInv, TypeOK, Calls, NoCall, Called, At, Goto, table, kernel, vars
<1>0. MaskInv /\ \A f \in Frames : ReadyInv(f)
  BY DEF MarkedInv
<1>a. SUFFICES MaskInv' /\ \A f \in Frames : ReadyInv(f)'
  BY DEF MarkedInv
<1> DEFINE Ready == \A f \in Frames : ReadyInv(f)'
           Kept == /\ UNCHANGED <<blocked, kern_act>>
                   /\ \A g \in Frames : pc'[g] = "install"
                                        => pc[g] = "install" /\ call'[g] = call[g]
                   /\ \A g \in Frames : pc[g] \in {"lock", "remove"}
                        => pc'[g] \in {"lock", "remove"} /\ call'[g] = call[g]
<1>b. Kept => Ready
  BY <1>0, ReadyKept
<1> HIDE DEF Ready
<1>1. ASSUME NEW f \in Frames, NEW S \in Masks, NEW how \in {"block", "setmask"}, SigmaskCall(f, how, S) PROVE MaskInv' /\ Ready
  <2>1. MaskInv'
    BY <1>0, <1>1 DEF MaskInv, SigmaskCall
  <2>2. Kept
    BY <1>1 DEF SigmaskCall
  <2> QED
    BY <1>b, <2>1, <2>2
<1>2. ASSUME NEW f \in Frames, NEW S \in Masks, SigUnblock(f, S) PROVE MaskInv' /\ Ready
  <2>1. MaskInv'
    BY <1>0, <1>2 DEF MaskInv, SigUnblock
  <2>2. Kept
    BY <1>2 DEF SigUnblock
  <2> QED
    BY <1>b, <2>1, <2>2
<1>3. ASSUME NEW f \in Frames, NEW s \in Caught, NEW S \in Masks, NEW act \in Acts, ApplSigaction(f, s, act, S) PROVE MaskInv' /\ Ready
  <2>1. MaskInv'
    BY <1>0, <1>3 DEF MaskInv, ApplSigaction
  <2>2. Kept
    BY <1>3 DEF ApplSigaction
  <2> QED
    BY <1>b, <2>1, <2>2
<1>4. ASSUME NEW f \in Frames, NEW s \in Caught, NEW S \in Masks, NEW hasAct \in BOOLEAN, ClientSigaction(f, s, hasAct, S) PROVE MaskInv' /\ Ready
  <2>a. \A t \in Threads : ~terminated' /\ pc'[<<t, 1>>] = "none"
                          => ~terminated /\ pc[<<t, 1>>] = "none"
    <3>1. pc' = pc \/ pc' = [pc EXCEPT ![f] = "kern"]
      BY <1>4 DEF ClientSigaction
    <3>2. terminated' = terminated
      BY <1>4 DEF ClientSigaction
    <3>3. pc \in [Frames -> {"none", "idle", "kern", "lock", "remove", "install",
                            "slock", "choose", "sinstall", "walk", "lose"}]
      OBVIOUS
    <3>4. pc' = pc => \A t \in Threads : pc'[<<t, 1>>] = pc[<<t, 1>>]
      OBVIOUS
    <3>5. pc' = [pc EXCEPT ![f] = "kern"]
             => \A t \in Threads : pc'[<<t, 1>>] \in {pc[<<t, 1>>], "kern"}
      BY ONLY <3>3, FrameFacts
    <3> QED
      BY ONLY <3>1, <3>2, <3>4, <3>5
  <2>b. UNCHANGED <<mask, saved, sa_mask, torn, deferred, blocked>>
    BY <1>4 DEF ClientSigaction
  <2>1. MaskInv'
    BY <1>0, <2>a, <2>b, MaskKept
  <2>2. Kept
    BY <1>4 DEF ClientSigaction
  <2> QED
    BY <1>b, <2>1, <2>2
<1>5. ASSUME NEW f \in Frames, ExitProcess(f) PROVE MaskInv' /\ Ready
  <2>1. MaskInv'
    BY <1>0, <1>5 DEF MaskInv, ExitProcess, ShootdownEntry
  <2>2. Kept
    BY <1>5 DEF ExitProcess, ShootdownEntry
  <2> QED
    BY <1>b, <2>1, <2>2
<1>6. ASSUME NEW f \in Frames, RealSigmask(f) PROVE MaskInv' /\ Ready
  <2>1. ReadyInv(f) /\ pc[f] = "install" /\ call[f].how # "sigaction"
    BY <1>0, <1>6 DEF RealSigmask
  <2>2. call[f].set \subseteq blocked
    BY <2>1 DEF ReadyInv
  <2>3. f[1] \in Threads
    BY FrameFacts
  <2>4. MaskInv'
    <3>1. /\ UNCHANGED <<blocked, saved, sa_mask, torn>>
          /\ mask' = [mask EXCEPT ![f[1]] = IF call[f].how = "block" THEN @ \cup call[f].set
                                            ELSE call[f].set]
          /\ deferred' = [deferred EXCEPT ![f[1]] = IF call[f].how = "block"
                                                    THEN @ \ call[f].set ELSE {}]
      BY <1>6 DEF RealSigmask
    <3>2. \A t \in Threads : mask'[t] \subseteq blocked \cup deferred'[t]
      BY <1>0, <2>2, <2>3, <3>1 DEF MaskInv
    <3>3. \A t \in Threads : ~terminated' /\ pc'[<<t, 1>>] = "none" => deferred'[t] = {}
      <4>1. \A t \in Threads : ~terminated' /\ pc'[<<t, 1>>] = "none"
                              => ~terminated /\ pc[<<t, 1>>] = "none"
        BY <1>6 DEF RealSigmask
      <4>2. \A t \in Threads : deferred'[t] \subseteq deferred[t]
        BY <3>1
      <4> QED
        BY <1>0, <4>1, <4>2 DEF MaskInv
    <3> QED
      BY <1>0, <3>1, <3>2, <3>3 DEF MaskInv
  <2>5. Kept
    BY <1>6 DEF RealSigmask
  <2> QED
    BY <1>b, <2>4, <2>5
<1>7. ASSUME NEW f \in Frames, WriteKernAct(f) PROVE MaskInv' /\ Ready
  <2>1. /\ pc[f] = "kern" /\ call[f].how = "sigaction" /\ call[f].sig \in Signals
        /\ UNCHANGED <<blocked, mask, saved, sa_mask, torn, deferred, call>>
        /\ pc' = [pc EXCEPT ![f] = "lock"]
        /\ kern_act' = [kern_act EXCEPT ![call[f].sig] = call[f].set]
        /\ terminated' = terminated
    BY <1>7 DEF WriteKernAct
  <2>2. MaskInv'
    <3>1. \A t \in Threads : ~terminated' /\ pc'[<<t, 1>>] = "none"
                            => ~terminated /\ pc[<<t, 1>>] = "none"
      BY <2>1
    <3> QED
      BY <1>0, <2>1, <3>1, MaskKept
  <2>3. ASSUME NEW g \in Frames PROVE ReadyInv(g)'
    <3>1. CASE g = f
      BY <2>1, <3>1 DEF ReadyInv
    <3>2. CASE g # f /\ pc[g] = "install" /\ call[g].how = "sigaction" /\ call[g].sig = call[f].sig
      <4>1. Rewritten(g)'
        BY <2>1, <3>2 DEF Rewritten
      <4> QED
        BY <2>1, <3>2, <4>1 DEF ReadyInv
    <3>3. CASE g # f /\ pc[g] = "install" /\ call[g].how = "sigaction" /\ call[g].sig # call[f].sig
      <4>1. kern_act'[call[g].sig] = kern_act[call[g].sig]
        BY <2>1, <3>3
      <4>2. Rewritten(g) => Rewritten(g)'
        BY <2>1 DEF Rewritten
      <4> QED
        BY <1>0, <2>1, <3>3, <4>1, <4>2 DEF ReadyInv
    <3>4. CASE g # f /\ (pc[g] # "install" \/ call[g].how # "sigaction")
      BY <1>0, <2>1, <3>4 DEF ReadyInv
    <3> QED
      BY <3>1, <3>2, <3>3, <3>4
  <2> QED
    BY <2>2, <2>3 DEF Ready
<1>8. ASSUME NEW f \in Frames, RealSigaction(f) PROVE MaskInv' /\ Ready
  <2>1. /\ pc[f] = "install" /\ call[f].how = "sigaction" /\ call[f].sig \in Signals
        /\ UNCHANGED <<blocked, mask, saved, deferred>>
        /\ sa_mask' = [sa_mask EXCEPT ![call[f].sig] = kern_act[call[f].sig]]
        /\ torn' = IF Rewritten(f) THEN torn \cup {call[f].sig} ELSE torn \ {call[f].sig}
    BY <1>8 DEF RealSigaction
  <2>2. kern_act[call[f].sig] \subseteq blocked \/ Rewritten(f)
    BY <1>0, <2>1 DEF ReadyInv
  <2>3. \A s \in Signals \ torn' : sa_mask'[s] \subseteq blocked
    BY <1>0, <2>1, <2>2 DEF MaskInv
  <2>4. \A t \in Threads : ~terminated' /\ pc'[<<t, 1>>] = "none"
                          => ~terminated /\ pc[<<t, 1>>] = "none"
    BY <1>8 DEF RealSigaction
  <2>5. MaskInv'
    BY <1>0, <2>1, <2>3, <2>4 DEF MaskInv
  <2>6. Kept
    BY <1>8 DEF RealSigaction
  <2> QED
    BY <1>b, <2>5, <2>6
<1>9. ASSUME NEW f \in Frames, LockStep(f) PROVE MaskInv' /\ Ready
  <2>a. \A t \in Threads : ~terminated' /\ pc'[<<t, 1>>] = "none"
                          => ~terminated /\ pc[<<t, 1>>] = "none"
    <3>1. \E p \in {"remove", "choose"} : pc' = [pc EXCEPT ![f] = p]
      BY <1>9 DEF LockStep, AcquireSignalLock
    <3>2. terminated' = terminated
      BY <1>9 DEF LockStep, AcquireSignalLock
    <3> QED
      BY <3>1, <3>2
  <2>b. UNCHANGED <<mask, saved, sa_mask, torn, deferred, blocked>>
    BY <1>9 DEF LockStep, AcquireSignalLock
  <2>1. MaskInv'
    BY <1>0, <2>a, <2>b, MaskKept
  <2>2. Kept
    BY <1>9 DEF LockStep, AcquireSignalLock
  <2> QED
    BY <1>b, <2>1, <2>2
<1>10. ASSUME NEW f \in Frames, RemoveClientSignals(f) PROVE MaskInv' /\ Ready
  <2>1. /\ pc[f] = "remove" /\ pc' = [pc EXCEPT ![f] = "install"]
        /\ UNCHANGED <<mask, saved, sa_mask, torn, deferred, terminated>>
    BY <1>10 DEF RemoveClientSignals
  <2> DEFINE S == CallSet(f) \ keep_open'
  <2>2. /\ blocked' = blocked \cup S
        /\ call[f].how = "sigaction" => /\ kern_act' = [kern_act EXCEPT ![call[f].sig] = S]
                                        /\ call' = call
        /\ call[f].how # "sigaction" => /\ kern_act' = kern_act
                                        /\ call' = [call EXCEPT ![f].set = S]
    BY <1>10 DEF RemoveClientSignals, MarkBlocked
  <2>3. MaskInv'
    <3>1. \A t \in Threads : ~terminated' /\ pc'[<<t, 1>>] = "none"
                            => ~terminated /\ pc[<<t, 1>>] = "none"
      BY <2>1
    <3> QED
      BY <1>0, <2>1, <2>2, <3>1, MaskKept
  <2> HIDE DEF S
  <2>4. ASSUME NEW g \in Frames, pc'[g] = "install" PROVE ReadyInv(g)'
    <3>1. CASE g = f /\ call[f].how = "sigaction"
      BY <2>2, <3>1 DEF ReadyInv
    <3>2. CASE g = f /\ call[f].how # "sigaction"
      <4>1. call'[f].how = call[f].how /\ call'[f].set = S
        BY <2>2, <3>2
      <4> QED
        BY <2>2, <3>2, <4>1 DEF ReadyInv
    <3>3. CASE g # f
      <4>1. pc[g] = "install" /\ call'[g] = call[g]
        BY <2>1, <2>2, <2>4, <3>3
      <4>2. CASE call[g].how # "sigaction"
        BY <1>0, <2>2, <4>1, <4>2 DEF ReadyInv
      <4>3. CASE call[g].how = "sigaction" /\ call[f].how = "sigaction" /\ call[g].sig = call[f].sig
        BY <2>2, <4>1, <4>3 DEF ReadyInv
      <4>4. CASE call[g].how = "sigaction" /\ ~(call[f].how = "sigaction" /\ call[g].sig = call[f].sig)
        <5>1. kern_act'[call[g].sig] = kern_act[call[g].sig]
          BY <2>2, <4>4
        <5>2. ASSUME Rewritten(g) PROVE Rewritten(g)'
          <6>1. PICK h \in Frames \ {g} : /\ call[h].how = "sigaction" /\ call[h].sig = call[g].sig
                                           /\ pc[h] \in {"lock", "remove"}
            BY <5>2 DEF Rewritten
          <6>2. h # f
            BY <4>4, <6>1
          <6>3. call'[h] = call[h] /\ pc'[h] = pc[h]
            BY <2>1, <2>2, <6>2
          <6> QED
            BY <4>1, <6>1, <6>3 DEF Rewritten
        <5> QED
          BY <1>0, <2>2, <4>1, <4>4, <5>1, <5>2 DEF ReadyInv
      <4> QED
        BY <4>2, <4>3, <4>4
    <3> QED
      BY <3>1, <3>2, <3>3
  <2> QED
    BY <2>3, <2>4 DEF Ready, ReadyInv
<1>11. ASSUME NEW f \in Frames, ChooseShootdownSignal(f) PROVE MaskInv' /\ Ready
  <2>1. MaskInv'
    BY <1>0, <1>11 DEF MaskInv, ChooseShootdownSignal
  <2>2. Kept
    BY <1>11 DEF ChooseShootdownSignal
  <2> QED
    BY <1>b, <2>1, <2>2
<1>12. ASSUME NEW f \in Frames, InstallShootdown(f) PROVE MaskInv' /\ Ready
  <2>1. MaskInv'
    BY <1>0, <1>12 DEF MaskInv, InstallShootdown
  <2>2. Kept
    BY <1>12 DEF InstallShootdown
  <2> QED
    BY <1>b, <2>1, <2>2
<1>13. ASSUME NEW f \in Frames, EndProcess(f) PROVE MaskInv' /\ Ready
  <2>1. MaskInv'
    BY <1>0, <1>13 DEF MaskInv, EndProcess
  <2>2. Kept
    BY <1>13 DEF EndProcess
  <2> QED
    BY <1>b, <2>1, <2>2
<1>14. ASSUME NEW t \in Threads, HandlerReturn(t) PROVE MaskInv' /\ Ready
  <2>1. MaskInv'
    BY <1>0, <1>14 DEF MaskInv, HandlerReturn
  <2>2. Kept
    BY <1>14 DEF HandlerReturn
  <2> QED
    BY <1>b, <2>1, <2>2
<1>15. ASSUME NEW t \in Threads, NEW s \in Signals, NEW accepts \in BOOLEAN, RunHandler(t, s, accepts) PROVE MaskInv' /\ Ready
  <2>1. /\ UNCHANGED <<blocked, sa_mask, torn, call, kern_act, terminated>>
        /\ ~terminated /\ pc[<<t, 1>>] = "none"
        /\ pc' = [pc EXCEPT ![<<t, 1>>] = "idle"]
    BY <1>15 DEF RunHandler, Delivered, EnterHandler
  <2>2. /\ saved' = [saved EXCEPT ![t] = mask[t]]
        /\ mask' = [mask EXCEPT ![t] = @ \cup sa_mask[s] \cup {s}]
        /\ deferred' = [deferred EXCEPT ![t] = {s} \cup IF s \in torn THEN sa_mask[s] ELSE {}]
    BY <1>15 DEF RunHandler, EnterHandler
  <2>3. \A u \in Threads : ~terminated' /\ pc'[<<u, 1>>] = "none"
                          => u # t /\ pc[<<u, 1>>] = "none"
    BY <2>1, FrameFacts
  <2>4. MaskInv'
    BY <1>0, <2>1, <2>2, <2>3 DEF MaskInv
  <2>5. Kept
    BY <2>1
  <2> QED
    BY <1>b, <2>4, <2>5
<1>16. ASSUME NEW t \in Threads, NEW s \in Signals, NEW accepts \in BOOLEAN, DefaultEnd(t, s, accepts) PROVE MaskInv' /\ Ready
  <2>1. /\ UNCHANGED <<blocked, sa_mask, torn, call, kern_act>>
        /\ ~terminated /\ pc[<<t, 1>>] = "none"
        /\ saved' = [saved EXCEPT ![t] = mask[t]]
        /\ mask' = [mask EXCEPT ![t] = @ \cup sa_mask[s] \cup {s}]
        /\ deferred' = [deferred EXCEPT ![t] = {s} \cup IF s \in torn THEN sa_mask[s] ELSE {}]
    BY <1>16 DEF DefaultEnd, EnterHandler, Delivered
  <2>2. \/ terminated' /\ pc' = pc
        \/ \E p \in {"slock", "sinstall", "lose"} : pc' = [pc EXCEPT ![<<t, 1>>] = p]
    BY <1>16 DEF DefaultEnd, ShootdownEntry
  <2>3. \A u \in Threads : ~terminated' /\ pc'[<<u, 1>>] = "none"
                          => u # t /\ pc[<<u, 1>>] = "none"
    BY <2>1, <2>2, FrameFacts
  <2>4. MaskInv'
    BY <1>0, <2>1, <2>3 DEF MaskInv
  <2>5. Kept
    BY <2>1, <2>2
  <2> QED
    BY <1>b, <2>4, <2>5
<1>17. ASSUME UNCHANGED vars PROVE MaskInv' /\ Ready
  <2>1. MaskInv'
    BY <1>0, <1>17 DEF MaskInv
  <2>2. Kept
    BY <1>17
  <2> QED
    BY <1>b, <2>1, <2>2
<1> HIDE DEF CallInv, TypeOK, Calls, NoCall, Called, At, Goto, table, kernel, vars
<1> HIDE DEF Kept
<1>18. ASSUME NEW f \in Frames, LibraryStep(f) PROVE MaskInv' /\ Ready
  BY <1>18, <1>6, <1>7, <1>8, <1>9, <1>10, <1>11, <1>12, <1>13 DEF LibraryStep, LockStep
<1>19. ASSUME NEW f \in Frames, EnvironmentStep(f) PROVE MaskInv' /\ Ready
  BY <1>19, <1>1, <1>2, <1>3, <1>4, <1>5 DEF EnvironmentStep
<1>20. MaskInv' /\ Ready
  BY <1>14, <1>15, <1>16, <1>17, <1>18, <1>19 DEF Next
<1> QED
  BY <1>20 DEF Ready

\* Every step leaves a signal of the list until the exit has chosen.
LEMMA AvailableStep ==
  ASSUME TypeOK, AvailableInv, [Next]_vars
  PROVE  AvailableInv'
<1> USE SignalsAssumption
    DEF AvailableInv, InShootdown, Available, TypeOK,
        Called, At, Goto, table, kernel, vars
<1>1. ASSUME NEW f \in Frames, NEW S \in Masks, NEW how \in {"block", "setmask"}, SigmaskCall(f, how, S) PROVE AvailableInv'
  BY <1>1 DEF SigmaskCall
<1>2. ASSUME NEW f \in Frames, NEW S \in Masks, SigUnblock(f, S) PROVE AvailableInv'
  BY <1>2 DEF SigUnblock
<1>3. ASSUME NEW f \in Frames, NEW s \in Caught, NEW S \in Masks, NEW act \in Acts, ApplSigaction(f, s, act, S) PROVE AvailableInv'
  BY <1>3 DEF ApplSigaction
<1>4. ASSUME NEW f \in Frames, NEW s \in Caught, NEW S \in Masks, NEW hasAct \in BOOLEAN, ClientSigaction(f, s, hasAct, S) PROVE AvailableInv'
  BY <1>4 DEF ClientSigaction
<1>5. ASSUME NEW f \in Frames, ExitProcess(f) PROVE AvailableInv'
  <2>1. exiter = NoFrame /\ exiter' = f /\ UNCHANGED <<shootdown_signal, keep_open, blocked>>
    BY <1>5 DEF ExitProcess
  <2>2. /\ pc'[f] = "slock" => shootdown_signal = None
        /\ pc'[f] \in {"slock", "sinstall"}
        /\ \A g \in Frames \ {f} : pc'[g] = pc[g]
    BY <1>5 DEF ExitProcess, ShootdownEntry
  <2>3. \A g \in Frames : ~InShootdown(g) /\ f # NoFrame
    BY <2>1, FrameFacts
  <2> QED
    BY <2>1, <2>2, <2>3
<1>6. ASSUME NEW f \in Frames, RealSigmask(f) PROVE AvailableInv'
  BY <1>6 DEF RealSigmask
<1>7. ASSUME NEW f \in Frames, WriteKernAct(f) PROVE AvailableInv'
  BY <1>7 DEF WriteKernAct
<1>8. ASSUME NEW f \in Frames, RealSigaction(f) PROVE AvailableInv'
  BY <1>8 DEF RealSigaction
<1>9. ASSUME NEW f \in Frames, LockStep(f) PROVE AvailableInv'
  BY <1>9 DEF LockStep, AcquireSignalLock
<1>10. ASSUME NEW f \in Frames, RemoveClientSignals(f) PROVE AvailableInv'
  BY <1>10 DEF RemoveClientSignals, MarkBlocked, KeepOpen, NeedsReserve, First, CallSet
<1>11. ASSUME NEW f \in Frames, ChooseShootdownSignal(f) PROVE AvailableInv'
  <2>1. /\ pc[f] = "choose" /\ exiter = f /\ exiter' = f /\ f # NoFrame
        /\ pc'[f] = "sinstall" /\ \A g \in Frames \ {f} : pc'[g] = pc[g]
        /\ UNCHANGED <<keep_open, blocked>>
    BY <1>11, FrameFacts DEF ChooseShootdownSignal
  <2>2. \A g \in Frames : pc'[g] \notin {"slock", "choose"}
    BY <2>1
  <2>3. Available # {}
    BY <2>1
  <2>4. shootdown_signal' # None
    <3>1. Preferred # {} /\ Preferred \subseteq Signals
      BY <2>3 DEF Preferred, ShootdownList
    <3> QED
      BY <1>11, <3>1 DEF ChooseShootdownSignal, First, None
  <2> QED
    BY <2>1, <2>2, <2>4
<1>12. ASSUME NEW f \in Frames, InstallShootdown(f) PROVE AvailableInv'
  BY <1>12 DEF InstallShootdown
<1>13. ASSUME NEW f \in Frames, EndProcess(f) PROVE AvailableInv'
  BY <1>13 DEF EndProcess
<1>14. ASSUME NEW t \in Threads, HandlerReturn(t) PROVE AvailableInv'
  BY <1>14 DEF HandlerReturn
<1>15. ASSUME NEW t \in Threads, NEW s \in Signals, NEW accepts \in BOOLEAN, RunHandler(t, s, accepts) PROVE AvailableInv'
  BY <1>15 DEF RunHandler, EnterHandler
<1>16. ASSUME NEW t \in Threads, NEW s \in Signals, NEW accepts \in BOOLEAN, DefaultEnd(t, s, accepts) PROVE AvailableInv'
  <2>1. UNCHANGED <<shootdown_signal, keep_open, blocked>>
    BY <1>16 DEF DefaultEnd
  <2>2. CASE UNCHANGED exiter /\ \A g \in Frames : pc'[g] \in {pc[g], "lose"}
    BY <2>1, <2>2
  <2>3. CASE /\ exiter = NoFrame /\ exiter' = <<t, 1>>
             /\ pc' = [pc EXCEPT ![<<t, 1>>] = ShootdownEntry]
    <3> DEFINE e == <<t, 1>>
    <3>a. e \in Frames
      BY FrameFacts
    <3>b. pc' = [pc EXCEPT ![e] = ShootdownEntry] /\ DOMAIN pc = Frames
      BY <2>3
    <3>c. /\ ShootdownEntry = "slock" => shootdown_signal = None
          /\ ShootdownEntry \in {"slock", "sinstall"}
      BY DEF ShootdownEntry
    <3>1. /\ pc'[<<t, 1>>] = "slock" => shootdown_signal = None
          /\ pc'[<<t, 1>>] \in {"slock", "sinstall"}
          /\ \A g \in Frames \ {<<t, 1>>} : pc'[g] = pc[g]
      <4> HIDE DEF e
      <4>1. pc'[e] = ShootdownEntry /\ \A g \in Frames \ {e} : pc'[g] = pc[g]
        BY ONLY <3>a, <3>b, pc \in [Frames -> {"none", "idle", "kern", "lock", "remove", "install",
                                      "slock", "choose", "sinstall", "walk", "lose"}]
      <4> QED
        BY ONLY <4>1, <3>c DEF e
    <3>2. \A g \in Frames : ~InShootdown(g)
      BY <2>3, FrameFacts
    <3>3. <<t, 1>> \in Frames /\ <<t, 1>> # NoFrame
      BY FrameFacts
    <3> QED
      BY <2>1, <2>3, <3>1, <3>2, <3>3
  <2>4. \/ UNCHANGED exiter /\ \A g \in Frames : pc'[g] \in {pc[g], "lose"}
        \/ /\ exiter = NoFrame /\ exiter' = <<t, 1>>
           /\ pc' = [pc EXCEPT ![<<t, 1>>] = ShootdownEntry]
    BY <1>16 DEF DefaultEnd
  <2> QED
    BY <2>2, <2>3, <2>4
<1>17. ASSUME UNCHANGED vars PROVE AvailableInv'
  BY <1>17
<1> HIDE DEF AvailableInv, InShootdown, Available, TypeOK,
         Called, At, Goto, table, kernel, vars
<1>18. ASSUME NEW f \in Frames, LibraryStep(f) PROVE AvailableInv'
  BY <1>18, <1>6, <1>7, <1>8, <1>9, <1>10, <1>11, <1>12, <1>13 DEF LibraryStep, LockStep
<1>19. ASSUME NEW f \in Frames, EnvironmentStep(f) PROVE AvailableInv'
  BY <1>19, <1>1, <1>2, <1>3, <1>4, <1>5 DEF EnvironmentStep
<1> QED
  BY <1>14, <1>15, <1>16, <1>17, <1>18, <1>19 DEF Next

\* The initial state satisfies all of them.
LEMMA SignalInit == Init => SignalInv
<1> SUFFICES ASSUME Init PROVE SignalInv
  OBVIOUS
<1> USE SignalsAssumption, SignalMovesAssumption DEF Init
<1>1. NoCall \in Calls
  BY DEF NoCall, Calls
<1>2. TypeOK
  <2>1. pc \in [Frames -> {"none", "idle", "kern", "lock", "remove", "install",
                           "slock", "choose", "sinstall", "walk", "lose"}]
    OBVIOUS
  <2>2. keep_open \subseteq Signals /\ shootdown_signal \in Signals \cup {None}
    OBVIOUS
  <2>3. calls \in 0 .. MaxCalls
    OBVIOUS
  <2>4. call \in [Frames -> Calls] /\ appl_act \in [Signals -> Acts]
    BY <1>1 DEF Acts
  <2>5. /\ kern_act \in [Signals -> SUBSET Signals] /\ sa_mask \in [Signals -> SUBSET Signals]
        /\ handler \in [Signals -> {"monitor", "shootdown"}]
        /\ mask \in [Threads -> SUBSET Signals] /\ saved \in [Threads -> SUBSET Signals]
    OBVIOUS
  <2> QED
    BY <2>1, <2>2, <2>3, <2>4, <2>5 DEF TypeOK
<1>3. CallInv
  BY DEF CallInv, NoCall
<1>4. MarkedInv
  BY DEF MarkedInv, MaskInv, ReadyInv
<1>5. LastResort \in Available
  BY DEF Available, ShootdownList
<1>6. AvailableInv
  BY <1>5 DEF AvailableInv, InShootdown
<1> QED
  BY <1>2, <1>3, <1>4, <1>6 DEF SignalInv

\* What the invariant says of masks: every thread leaves an unmarked signal open.
LEMMA UnmarkedIsOpen ==
  ASSUME SignalInv, NEW s, s \notin blocked
  PROVE  ~Shut(s)
  BY DEF SignalInv, MarkedInv, MaskInv, Shut

\* The inductive invariant holds in every reachable state.
THEOREM SignalInductive == Spec => []SignalInv
<1>1. SignalInv /\ [Next]_vars => SignalInv'
  BY TypeStep, CallStep, MarkedStep, AvailableStep DEF SignalInv
<1> QED
  BY SignalInit, <1>1, PTL DEF Spec

\* signal.c: the table of the signals, the masks of the kernel and the calls in
\* progress keep their types.
THEOREM SignalTypes == Spec => []TypeOK
<1>1. SignalInv => TypeOK
  BY DEF SignalInv
<1> QED
  BY SignalInductive, <1>1, PTL

\* signal.c: every thread leaves some signal for the shootdown open until one is
\* chosen, for any number of threads and signals.
THEOREM AlwaysOneOpen == Spec => []OpenUntilChosen
<1>1. SignalInv => OpenUntilChosen
  <2> SUFFICES ASSUME SignalInv, shootdown_signal = None
               PROVE  \E s \in ShootdownList : ~Shut(s)
    BY DEF OpenUntilChosen
  <2>1. PICK s \in ShootdownList : s \notin blocked
    BY DEF SignalInv, AvailableInv, Available
  <2> QED
    BY <2>1, UnmarkedIsOpen
<1> QED
  BY SignalInductive, <1>1, PTL

\* signal.c: every thread leaves a reserved signal open when the exit begins.
THEOREM ReservedIsOpen == Spec => []ReservedStaysOpen
<1>1. SignalInv => ReservedStaysOpen
  BY UnmarkedIsOpen DEF ReservedStaysOpen, SignalInv, AvailableInv
<1> QED
  BY SignalInductive, <1>1, PTL

\* signal.c: whenever the shootdown signal is chosen or changes, every thread leaves
\* the new one open.
THEOREM ChoiceIsOpen == Spec => ChosenIsOpen
<1>1. SignalInv /\ [Next]_vars => [shootdown_signal' # shootdown_signal => ~Shut(shootdown_signal')]_vars
  <2> SUFFICES ASSUME SignalInv, [Next]_vars, shootdown_signal' # shootdown_signal
               PROVE  ~Shut(shootdown_signal')
    OBVIOUS
  <2>1. \/ \E f \in Frames : RemoveClientSignals(f)
        \/ \E f \in Frames : ChooseShootdownSignal(f)
    <3>1. ASSUME NEW f \in Frames, LibraryStep(f)
          PROVE  RemoveClientSignals(f) \/ ChooseShootdownSignal(f)
      BY <3>1 DEF LibraryStep, RealSigmask, WriteKernAct, RealSigaction,
                  AcquireSignalLock, InstallShootdown, EndProcess, table
    <3>2. ASSUME NEW f \in Frames, EnvironmentStep(f) PROVE FALSE
      BY <3>2 DEF EnvironmentStep, SigmaskCall, SigUnblock, ApplSigaction, ClientSigaction,
                  ExitProcess, table
    <3>3. ASSUME NEW t \in Threads, HandlerReturn(t) PROVE FALSE
      BY <3>3 DEF HandlerReturn, table
    <3>4. ASSUME NEW t \in Threads, NEW s \in Signals, NEW accepts \in BOOLEAN,
                 RunHandler(t, s, accepts) \/ DefaultEnd(t, s, accepts)
          PROVE  FALSE
      BY <3>4 DEF RunHandler, DefaultEnd, table
    <3>5. ~UNCHANGED vars
      BY DEF vars, table
    <3> QED
      BY <3>1, <3>2, <3>3, <3>4, <3>5 DEF Next
  <2>2. CASE \E f \in Frames : RemoveClientSignals(f)
    <3>1. shootdown_signal' \in Available
      BY <2>2 DEF RemoveClientSignals, First
    <3> QED
      BY <3>1, UnmarkedIsOpen DEF Available
  <2>3. CASE \E f \in Frames : ChooseShootdownSignal(f)
    <3>1. PICK f \in Frames : ChooseShootdownSignal(f)
      BY <2>3
    <3>2. pc[f] = "choose" /\ Available # {}
      BY <3>1 DEF ChooseShootdownSignal, At, SignalInv, AvailableInv
    <3>3. Preferred # {} /\ Preferred \subseteq Available
      BY <3>2 DEF Preferred
    <3>4. shootdown_signal' \in Available
      BY <3>1, <3>3 DEF ChooseShootdownSignal, First
    <3> QED
      BY <3>4, UnmarkedIsOpen DEF Available
  <2> QED
    BY <2>1, <2>2, <2>3
<1> QED
  BY SignalInductive, <1>1, PTL DEF Spec, ChosenIsOpen
=============================================================================
