-------------------------- MODULE MonitorCallbacks --------------------------
(***************************************************************************)
(* What libmonitor promises its client about the callbacks of threads and  *)
(* of the end of the process (monitor.h, and the order the functions of    *)
(* pthread.c and main.c keep): which callback may begin when.              *)
(* MonitorThreads implements this module; PapiexProcess is a client of it. *)
(***************************************************************************)
EXTENDS Naturals

CONSTANTS
  Threads,   \* every thread of the process
  Main,      \* the main thread, which has no monitor_fini_thread
  NoThread,
  MayBlock   \* whether the client blocks the shootdown of a thread

VARIABLES
  phase,     \* how far each thread is
  fini,      \* monitor_fini_thread callbacks begun in each thread
  stage,     \* how far the end of the process is
  ender      \* the thread that runs the end-of-process callbacks

callbackVars == <<phase, fini, stage, ender>>

Phases == {"before",    \* not begun
           "init",      \* in monitor_init_thread
           "live",      \* in the application, or on its way out of it
           "ignored",   \* in the application, unknown to monitor
           "over"}
Stages == {"running",
           "ending",    \* some thread has won the right to end the process
           "finishing", \* monitor_fini_process has begun
           "finished",  \* it has returned, or was abandoned
           "gone"}

Init ==
  /\ phase = [t \in Threads |-> "before"]
  /\ fini = [t \in Threads |-> 0]
  /\ stage = "running"
  /\ ender = NoThread

Running == stage # "gone"

\* monitor_init_process has returned in the main thread.
BeginMain ==
  /\ Running /\ phase[Main] = "before"
  /\ phase' = [phase EXCEPT ![Main] = "live"]
  /\ UNCHANGED <<fini, stage, ender>>

\* monitor_init_thread begins: after monitor_init_process has returned and never
\* while monitor_fini_process runs.
BeginThread(t) ==
  /\ Running /\ stage # "finishing" /\ phase[Main] # "before"
  /\ t # Main /\ phase[t] = "before"
  /\ phase' = [phase EXCEPT ![t] = "init"]
  /\ UNCHANGED <<fini, stage, ender>>

\* It returns and the start routine begins.
StartThread(t) ==
  /\ Running /\ phase[t] = "init"
  /\ phase' = [phase EXCEPT ![t] = "live"]
  /\ UNCHANGED <<fini, stage, ender>>

\* A thread created while its creator ignores new threads.
IgnoreThread(t) ==
  /\ Running /\ phase[t] = "before"
  /\ phase' = [phase EXCEPT ![t] = "ignored"]
  /\ UNCHANGED <<fini, stage, ender>>

\* monitor_fini_thread begins: in a thread that runs the application (or that
\* ends the process, dying in its monitor_init_thread), never in the main one,
\* and a second time only while the process ends.
FiniThread(t) ==
  /\ Running /\ t # Main
  /\ phase[t] = "live" \/ (phase[t] = "init" /\ ender = t)
  /\ fini[t] = 0 \/ (fini[t] = 1 /\ stage # "running")
  /\ fini' = [fini EXCEPT ![t] = @ + 1]
  /\ UNCHANGED <<phase, stage, ender>>

\* A thread ends: one that ran the application has had its callback, unless the
\* process is ending or its shootdown was blocked.
ThreadOver(t) ==
  /\ Running /\ phase[t] # "over"
  /\ (phase[t] = "live" /\ t # Main /\ ~MayBlock) => (fini[t] > 0 \/ stage # "running")
  /\ phase' = [phase EXCEPT ![t] = "over"]
  /\ ender' = IF ender = t THEN NoThread ELSE ender
  /\ UNCHANGED <<fini, stage>>

\* The first thread to leave the process.
EndProcess(t) ==
  /\ stage = "running"
  /\ stage' = "ending" /\ ender' = t
  /\ UNCHANGED <<phase, fini>>

\* monitor_fini_process begins, in the thread that won, after its own
\* monitor_fini_thread.
FiniProcess ==
  /\ stage = "ending" /\ ender # NoThread
  /\ (phase[ender] = "live" /\ ender # Main) => fini[ender] > 0
  /\ stage' = "finishing"
  /\ UNCHANGED <<phase, fini, ender>>

\* A fatal signal, or a call of exit, in one of the callbacks abandons them ...
Abandon ==
  /\ stage \in {"ending", "finishing"} /\ ender # NoThread
  /\ ender' = NoThread
  /\ UNCHANGED <<phase, fini, stage>>

\* ... and the end of the process goes on without them, as it does when they
\* have returned.
Finished ==
  /\ stage = "finishing" \/ (stage = "ending" /\ ender = NoThread)
  /\ stage' = "finished" /\ ender' = NoThread
  /\ UNCHANGED <<phase, fini>>

\* The process ends: not before the callbacks are over, unless no thread is left.
Gone ==
  /\ \/ stage = "finished"
     \/ \A t \in Threads : phase[t] \in {"before", "over"}
  /\ Running /\ stage' = "gone" /\ ender' = NoThread
  /\ UNCHANGED <<phase, fini>>

Next ==
  \/ BeginMain
  \/ \E t \in Threads :
       BeginThread(t) \/ StartThread(t) \/ IgnoreThread(t) \/ FiniThread(t)
         \/ ThreadOver(t) \/ EndProcess(t)
  \/ FiniProcess \/ Abandon \/ Finished \/ Gone

Spec == Init /\ [][Next]_callbackVars
=============================================================================
