--------------------------- MODULE MonitorSignals ---------------------------
(***************************************************************************)
(* signal.c of libmonitor: the table of dispositions that stands between   *)
(* the application's sigaction, signal, sigprocmask and pthread_sigmask    *)
(* and the kernel, the client's monitor_sigaction, the dispatch of signals *)
(* and the choice of the signal that shoots threads down at exit.          *)
(*                                                                         *)
(* A thread runs at two levels: 0 is its normal code, 1 an application's   *)
(* signal handler (or the end of the process) that interrupted it.  Both   *)
(* call the library; a pair of a thread and a level is a frame.            *)
(*                                                                         *)
(* Signals are numbered in the order of monitor_shootdown_list.  Signals   *)
(* on the avoid list and those the kernel refuses are left out: every      *)
(* operation returns early for them.                                       *)
(***************************************************************************)
EXTENDS Integers, FiniteSets

CONSTANTS Threads,      \* the application's threads
          Signals,      \* the signals monitor handles
          Candidates,   \* the real-time signals and monitor_extra_list
          LastResort,   \* last_resort_signal
          OpenList,     \* monitor_signal_open_list, from configure
          NoTerm,       \* monitor_signal_noterm_list
          Stop,         \* monitor_signal_stop_list
          EnvSignal,    \* MONITOR_SHOOTDOWN_SIGNAL, or None
          Caught,       \* the signals for which actions are installed
          Masks,        \* the sets the application passes to the overrides
          Moves,        \* what the application and the client may do
          MaxCalls      \* bound on the calls of the overrides and of the client

\* No signal, the -1 of the code; also no thread's frame.
None == 0
NoFrame == <<>>

ASSUME SignalsAssumption ==
  /\ Signals \subseteq Nat \ {0}
  /\ Candidates \subseteq Signals /\ LastResort \in Signals
  /\ \A s \in Candidates : s < LastResort
  /\ OpenList \subseteq Signals /\ NoTerm \subseteq Signals /\ Stop \subseteq Signals
  /\ EnvSignal \in (Signals \ Stop) \cup {None}
  /\ Caught \subseteq Signals /\ Masks \subseteq SUBSET Signals

MoveKinds == {"client", "catch", "exit", "fatal"}
ASSUME SignalMovesAssumption == Moves \subseteq MoveKinds /\ MaxCalls \in Nat

VARIABLES
  \* monitor_signal_array: the signals with mse_keep_open, mse_blocked,
  \* mse_client_handler and mse_appl_hand set, and per signal mse_appl_act and
  \* the sa_mask of mse_kern_act
  keep_open, blocked, client, appl_hand, appl_act, kern_act,
  shootdown_signal, lock,
  \* the kernel: handler and sa_mask of each signal, each thread's mask, and the
  \* mask a returning handler restores
  handler, sa_mask, mask, saved,
  \* history: the signals whose action was installed while another call had
  \* rewritten its mask, and what a thread's mask holds only because it entered a
  \* handler
  torn, deferred,
  \* each frame's place in the library and its call's arguments
  pc, call,
  exiter, terminated,
  calls

table == <<keep_open, blocked, client, appl_hand, appl_act, kern_act, shootdown_signal>>
kernel == <<handler, sa_mask, mask, saved, torn, deferred>>
vars == <<table, lock, kernel, pc, call, exiter, terminated, calls>>

Frames == Threads \X {0, 1}
Acts == {"dfl", "ign", "hand"}
Calls == [how : {"block", "setmask", "sigaction"}, sig : Signals \cup {None}, set : SUBSET Signals]
NoCall == [how |-> "block", sig |-> None, set |-> {}]

TypeOK ==
  /\ keep_open \subseteq Signals /\ blocked \subseteq Signals
  /\ client \subseteq Signals /\ appl_hand \subseteq Signals
  /\ appl_act \in [Signals -> Acts]
  /\ kern_act \in [Signals -> SUBSET Signals]
  /\ shootdown_signal \in Signals \cup {None}
  /\ lock \in Frames \cup {NoFrame}
  /\ handler \in [Signals -> {"monitor", "shootdown"}]
  /\ sa_mask \in [Signals -> SUBSET Signals]
  /\ mask \in [Threads -> SUBSET Signals] /\ saved \in [Threads -> SUBSET Signals]
  /\ torn \subseteq Signals /\ deferred \in [Threads -> SUBSET Signals]
  /\ pc \in [Frames -> {"none", "idle", "kern", "lock", "remove", "install",
                        "slock", "choose", "sinstall", "walk", "lose"}]
  /\ call \in [Frames -> Calls]
  /\ exiter \in Frames \cup {NoFrame}
  /\ terminated \in BOOLEAN
  /\ calls \in 0 .. MaxCalls

\* monitor_shootdown_list as monitor_signal_init builds it: candidates that may
\* be used, then the last resort.
ShootdownList == (Candidates \ (Stop \cup OpenList)) \cup {LastResort}

\* monitor_signal_init: monitor's handler for every signal, and the shootdown
\* signal of the environment, which is kept open.
Init ==
  /\ keep_open = OpenList \cup (IF EnvSignal = None THEN {} ELSE {EnvSignal})
  /\ shootdown_signal = EnvSignal
  /\ blocked = {} /\ client = {} /\ appl_hand = {}
  /\ appl_act = [s \in Signals |-> "dfl"]
  /\ kern_act = [s \in Signals |-> {}]
  /\ lock = NoFrame
  /\ handler = [s \in Signals |-> "monitor"]
  /\ sa_mask = [s \in Signals |-> {}]
  /\ mask = [t \in Threads |-> {}]
  /\ saved = [t \in Threads |-> {}]
  /\ torn = {} /\ deferred = [t \in Threads |-> {}]
  /\ pc = [f \in Frames |-> IF f[2] = 0 THEN "idle" ELSE "none"]
  /\ call = [f \in Frames |-> NoCall]
  /\ exiter = NoFrame
  /\ terminated = FALSE
  /\ calls = 0

\* Frame f is the one its thread executes, and is at place p.
At(f, p) ==
  /\ ~terminated
  /\ pc[f] = p
  /\ f[2] = 0 => pc[<<f[1], 1>>] = "none"

\* The application or the client, in frame f, calls one of the functions below.
Called(f) == At(f, "idle") /\ calls < MaxCalls /\ calls' = calls + 1

Goto(f, p) == pc' = [pc EXCEPT ![f] = p]

-----------------------------------------------------------------------------
(* sigprocmask and pthread_sigmask *)

\* SIG_BLOCK or SIG_SETMASK with a set: the call works on a copy of the set.
SigmaskCall(f, how, S) ==
  /\ Called(f)
  /\ call' = [call EXCEPT ![f] = [how |-> how, sig |-> None, set |-> S]]
  /\ Goto(f, "lock")
  /\ UNCHANGED <<table, lock, kernel, exiter, terminated>>

\* SIG_UNBLOCK goes straight to the kernel.
SigUnblock(f, S) ==
  /\ Called(f)
  /\ mask' = [mask EXCEPT ![f[1]] = @ \ S]
  /\ deferred' = [deferred EXCEPT ![f[1]] = @ \ S]
  /\ UNCHANGED <<table, lock, handler, sa_mask, saved, torn, pc, call, exiter, terminated>>

\* The kernel installs the reduced set.
RealSigmask(f) ==
  /\ At(f, "install")
  /\ call[f].how # "sigaction"
  /\ mask' = [mask EXCEPT ![f[1]] = IF call[f].how = "block" THEN @ \cup call[f].set
                                    ELSE call[f].set]
  /\ deferred' = [deferred EXCEPT ![f[1]] = IF call[f].how = "block" THEN @ \ call[f].set
                                            ELSE {}]
  /\ call' = [call EXCEPT ![f] = NoCall]
  /\ Goto(f, "idle")
  /\ UNCHANGED <<table, lock, handler, sa_mask, saved, torn, exiter, terminated, calls>>

-----------------------------------------------------------------------------
(* sigaction, signal and the client's monitor_sigaction *)

\* Another call for the signal of f's has written mse_kern_act and has not reduced
\* it yet.
Rewritten(f) ==
  \E g \in Frames \ {f} :
    /\ call[g].how = "sigaction" /\ call[g].sig = call[f].sig
    /\ pc[g] \in {"lock", "remove"}

\* monitor_appl_sigaction with an action: the disposition is recorded ...
ApplSigaction(f, s, act, S) ==
  /\ Called(f)
  /\ appl_hand' = IF act = "hand" THEN appl_hand \cup {s} ELSE appl_hand
  /\ appl_act' = [appl_act EXCEPT ![s] = act]
  /\ call' = [call EXCEPT ![f] = [how |-> "sigaction", sig |-> s, set |-> S]]
  /\ Goto(f, "kern")
  /\ UNCHANGED <<keep_open, blocked, client, kern_act, shootdown_signal, lock, kernel,
                 exiter, terminated>>

\* The client's call marks the signal and records its handler; without an action
\* that is all.
ClientSigaction(f, s, hasAct, S) ==
  /\ Called(f)
  /\ keep_open' = keep_open \cup {s}
  /\ client' = client \cup {s}
  /\ IF hasAct
     THEN /\ call' = [call EXCEPT ![f] = [how |-> "sigaction", sig |-> s, set |-> S]]
          /\ Goto(f, "kern")
     ELSE UNCHANGED <<call, pc>>
  /\ UNCHANGED <<blocked, appl_hand, appl_act, kern_act, shootdown_signal, lock, kernel,
                 exiter, terminated>>

\* ... and the mask written to mse_kern_act, where it is reduced in place.
WriteKernAct(f) ==
  /\ At(f, "kern")
  /\ kern_act' = [kern_act EXCEPT ![call[f].sig] = call[f].set]
  /\ Goto(f, "lock")
  /\ UNCHANGED <<keep_open, blocked, client, appl_hand, appl_act, shootdown_signal, lock,
                 kernel, call, exiter, terminated, calls>>

\* The kernel installs monitor's handler with what mse_kern_act holds now.
RealSigaction(f) ==
  /\ At(f, "install")
  /\ call[f].how = "sigaction"
  /\ sa_mask' = [sa_mask EXCEPT ![call[f].sig] = kern_act[call[f].sig]]
  /\ handler' = [handler EXCEPT ![call[f].sig] = "monitor"]
  /\ torn' = IF Rewritten(f) THEN torn \cup {call[f].sig} ELSE torn \ {call[f].sig}
  /\ call' = [call EXCEPT ![f] = NoCall]
  /\ Goto(f, "idle")
  /\ UNCHANGED <<table, lock, mask, saved, deferred, exiter, terminated, calls>>

-----------------------------------------------------------------------------
(* monitor_remove_client_signals *)

\* MONITOR_SIGNAL_LOCK.
AcquireSignalLock(f, from, to) ==
  /\ At(f, from)
  /\ lock = NoFrame
  /\ lock' = f
  /\ Goto(f, to)
  /\ UNCHANGED <<table, kernel, call, exiter, terminated, calls>>

First_Next(s, S) == s \in {r + 1 : r \in S} /\ \A r \in S : s <= r + 1
\* s is the first of the signals in S in the order of the list.
First(s, S) == s \in S /\ \A r \in S : s <= r

\* The candidates that no mask has covered.
Available == ShootdownList \ blocked

\* The set in a call: the copy of sigprocmask, or the table's own.
CallSet(f) == IF call[f].how = "sigaction" THEN kern_act[call[f].sig] ELSE call[f].set

NeedsReserve_Never(S) == FALSE
\* No shootdown signal is chosen, and the new set covers every available one.
NeedsReserve(S) == shootdown_signal = None /\ Available # {} /\ Available \subseteq S

KeepOpen_Forgotten(s) == keep_open
\* The reserved signal joins the ones that no mask may cover.
KeepOpen(s) == keep_open \cup {s}

MarkBlocked_NoMark(S) == blocked
\* The signals of the set that are not kept open count as blocked from now on.
MarkBlocked(S) == blocked \cup S

\* The whole critical section: reserve a signal if this set would leave none,
\* take the open signals out of the set and mark the others blocked.
RemoveClientSignals(f) ==
  /\ At(f, "remove")
  /\ \/ /\ NeedsReserve(CallSet(f))
        /\ First(shootdown_signal', Available)
        /\ keep_open' = KeepOpen(shootdown_signal')
     \/ /\ ~NeedsReserve(CallSet(f))
        /\ UNCHANGED <<shootdown_signal, keep_open>>
  /\ LET S == CallSet(f) \ keep_open' IN
       /\ blocked' = MarkBlocked(S)
       /\ IF call[f].how = "sigaction"
          THEN kern_act' = [kern_act EXCEPT ![call[f].sig] = S] /\ UNCHANGED call
          ELSE call' = [call EXCEPT ![f].set = S] /\ UNCHANGED kern_act
  /\ lock' = NoFrame
  /\ Goto(f, "install")
  /\ UNCHANGED <<client, appl_hand, appl_act, kernel, exiter, terminated, calls>>

-----------------------------------------------------------------------------
(* monitor_shootdown_signal, and the use monitor_thread_shootdown makes of it *)

\* The walk needs a signal: one that is already chosen is returned without the
\* lock.
ShootdownEntry == IF shootdown_signal = None THEN "slock" ELSE "sinstall"

\* A thread calls exit and wins the race of monitor_end_process_fcn.
ExitProcess(f) ==
  /\ At(f, "idle")
  /\ exiter = NoFrame
  /\ exiter' = f
  /\ Goto(f, ShootdownEntry)
  /\ UNCHANGED <<table, lock, kernel, call, terminated, calls>>

\* The order of preference: available signals without any handler, without a
\* client's handler, any.
Preferred ==
  LET ans3 == Available
      ans2 == ans3 \ client
      ans1 == ans2 \ appl_hand
  IN IF ans1 # {} THEN ans1 ELSE IF ans2 # {} THEN ans2 ELSE ans3

\* The critical section of monitor_shootdown_signal.
ChooseShootdownSignal(f) ==
  /\ At(f, "choose")
  /\ IF Preferred # {} THEN First(shootdown_signal', Preferred)
     ELSE shootdown_signal' = LastResort
  /\ lock' = NoFrame
  /\ Goto(f, "sinstall")
  /\ UNCHANGED <<keep_open, blocked, client, appl_hand, appl_act, kern_act, kernel,
                 call, exiter, terminated, calls>>

\* monitor_thread_shootdown installs its own handler directly in the kernel.
InstallShootdown(f) ==
  /\ At(f, "sinstall")
  /\ handler' = [handler EXCEPT ![shootdown_signal] = "shootdown"]
  /\ sa_mask' = [sa_mask EXCEPT ![shootdown_signal] = {}]
  /\ torn' = torn \ {shootdown_signal}
  /\ Goto(f, "walk")
  /\ UNCHANGED <<table, lock, mask, saved, deferred, call, exiter, terminated, calls>>

\* The walk is over and the process ends.
EndProcess(f) ==
  /\ At(f, "walk")
  /\ terminated' = TRUE
  /\ UNCHANGED <<table, lock, kernel, pc, call, exiter, calls>>

-----------------------------------------------------------------------------
(* monitor_signal_handler *)

\* What the handler does with signal s when the client, if it has a handler for
\* it, accepts it or not.
Disposition(s, accepts) ==
  IF s \in client /\ accepts THEN "client"
  ELSE IF appl_act[s] = "ign" THEN "ignore"
  ELSE IF appl_act[s] = "hand" THEN "handler"
  ELSE IF s \in NoTerm THEN "ignore"
  ELSE IF s \in Stop THEN "stop"
  ELSE "end"

\* A signal for thread t that is not blocked interrupts its normal code.
Delivered(t, s) ==
  /\ At(<<t, 0>>, pc[<<t, 0>>])
  /\ handler[s] = "monitor"
  /\ s \notin mask[t]

\* The kernel runs a handler of s under the mask of the installed action, and
\* defers s itself until the handler returns.  (An application's action may ask for
\* SA_NODEFER, which monitor_adjust_saflags keeps; those are left out.)
EnterHandler(t, s) ==
  /\ saved' = [saved EXCEPT ![t] = mask[t]]
  /\ mask' = [mask EXCEPT ![t] = @ \cup sa_mask[s] \cup {s}]
  /\ deferred' = [deferred EXCEPT ![t] = {s} \cup IF s \in torn THEN sa_mask[s] ELSE {}]

\* The application's handler runs.
RunHandler(t, s, accepts) ==
  /\ Delivered(t, s)
  /\ Disposition(s, accepts) = "handler"
  /\ EnterHandler(t, s)
  /\ Goto(<<t, 1>>, "idle")
  /\ UNCHANGED <<table, lock, handler, sa_mask, torn, call, exiter, terminated, calls>>

\* It returns, and the kernel restores the mask.
HandlerReturn(t) ==
  /\ At(<<t, 1>>, "idle")
  /\ mask' = [mask EXCEPT ![t] = saved[t]]
  /\ saved' = [saved EXCEPT ![t] = {}]
  /\ deferred' = [deferred EXCEPT ![t] = {}]
  /\ Goto(<<t, 1>>, "none")
  /\ UNCHANGED <<table, lock, handler, sa_mask, torn, call, exiter, terminated, calls>>

\* The default action ends the process: the first thread shoots the others down,
\* another one waits for it, and one that interrupts its own exit kills the
\* process at once.
DefaultEnd(t, s, accepts) ==
  /\ Delivered(t, s)
  /\ Disposition(s, accepts) = "end"
  /\ EnterHandler(t, s)
  /\ \/ /\ exiter = NoFrame
        /\ exiter' = <<t, 1>>
        /\ Goto(<<t, 1>>, ShootdownEntry)
        /\ UNCHANGED terminated
     \/ /\ exiter # NoFrame /\ exiter[1] # t
        /\ Goto(<<t, 1>>, "lose")
        /\ UNCHANGED <<exiter, terminated>>
     \/ /\ exiter # NoFrame /\ exiter[1] = t
        /\ terminated' = TRUE
        /\ UNCHANGED <<exiter, pc>>
  /\ UNCHANGED <<table, lock, handler, sa_mask, torn, call, calls>>

-----------------------------------------------------------------------------
(* Specification *)

\* The library's own steps in a frame.
LibraryStep(f) ==
  \/ RealSigmask(f)
  \/ WriteKernAct(f) \/ RealSigaction(f)
  \/ AcquireSignalLock(f, "lock", "remove") \/ RemoveClientSignals(f)
  \/ AcquireSignalLock(f, "slock", "choose") \/ ChooseShootdownSignal(f)
  \/ InstallShootdown(f) \/ EndProcess(f)

\* What the application, the client and the kernel may do.
EnvironmentStep(f) ==
  \/ \E S \in Masks : \E how \in {"block", "setmask"} : SigmaskCall(f, how, S)
  \/ \E S \in Masks : SigUnblock(f, S)
  \/ "catch" \in Moves /\ \E s \in Caught, S \in Masks, act \in Acts :
                             ApplSigaction(f, s, act, S)
  \/ "client" \in Moves /\ \E s \in Caught, S \in Masks, hasAct \in BOOLEAN :
                             ClientSigaction(f, s, hasAct, S)
  \/ "exit" \in Moves /\ ExitProcess(f)

Next ==
  \/ \E f \in Frames : LibraryStep(f) \/ EnvironmentStep(f)
  \/ \E t \in Threads :
       \/ HandlerReturn(t)
       \/ \E s \in Signals, accepts \in BOOLEAN :
            \/ RunHandler(t, s, accepts)
            \/ "fatal" \in Moves /\ DefaultEnd(t, s, accepts)

Spec == Init /\ [][Next]_vars

-----------------------------------------------------------------------------
(* Properties *)

\* Some thread blocks s, now or when its handler returns, and not only because the
\* kernel put s into its mask for the time of the handler it is in: s is the
\* signal that handler is for, or was in a mask that a second sigaction for that
\* signal had just written.
Shut(s) == \E t \in Threads : s \in saved[t] \cup (mask[t] \ deferred[t])

\* signal.c, "Always leave at least one unmasked signal to use for thread
\* shootdown": as long as no signal is chosen, one of the list is left open by every
\* thread, whatever sets the threads and their handlers block at the same time and
\* however their calls of sigaction overlap.  What the kernel adds for the time of
\* one handler is the exception.
OpenUntilChosen == shootdown_signal = None => \E s \in ShootdownList : ~Shut(s)

\* signal.c, "choose the shootdown signal now and keep it open": a signal that was
\* reserved, or came from the environment, is still left open by every thread when
\* the exit begins, whatever the threads block in between.
ReservedStaysOpen ==
  shootdown_signal # None /\ exiter = NoFrame => ~Shut(shootdown_signal)

\* monitor_shootdown_signal, "unblocked": a signal is chosen, or replaces one that
\* was reserved meanwhile, only while every thread leaves it open.
ChosenIsOpen ==
  [][shootdown_signal' # shootdown_signal => ~Shut(shootdown_signal')]_vars

\* monitor_shootdown_signal, "unblocked", without the exception: no thread blocks the
\* signal that is chosen, not even one that runs the handler of that signal.
ChosenIsReceivable ==
  [][shootdown_signal' # shootdown_signal =>
       \A t \in Threads : shootdown_signal' \notin mask[t]]_vars

\* signal.c, "Always leave at least one unmasked signal to use for thread
\* shootdown", while threads are being shot down.
OpenDuringShootdown ==
  \A f \in Frames : pc[f] = "walk" => ~Shut(shootdown_signal)
=============================================================================
