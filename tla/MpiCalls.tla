------------------------------ MODULE MpiCalls ------------------------------
(***************************************************************************)
(* What libmonitor promises its client about MPI_Init and MPI_Finalize:    *)
(* "call the callback function just once per application call", however    *)
(* many wrapped functions one such call goes through.                      *)
(***************************************************************************)
VARIABLES call, made

Calls == {"init", "fini"}

\* The callbacks of a call: one before the real function, one after it.
Before == [init |-> "monitor_mpi_pre_init", fini |-> "monitor_fini_mpi"]
After == [init |-> "monitor_init_mpi", fini |-> "monitor_mpi_post_fini"]

Init == call = "none" /\ made = <<>>

Begin(c) == call = "none" /\ call' = c /\ made' = <<Before[c]>>

Finish(c) == call = c /\ made = <<Before[c]>> /\ made' = <<Before[c], After[c]>> /\ UNCHANGED call

Return(c) == call = c /\ made = <<Before[c], After[c]>> /\ call' = "none" /\ made' = <<>>

Next == \E c \in Calls : Begin(c) \/ Finish(c) \/ Return(c)

Spec == Init /\ [][Next]_<<call, made>>
=============================================================================
