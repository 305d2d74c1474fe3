------------------------------ MODULE MCSched ------------------------------
(* TLC instance of Sched.  With two CPUs and three PIDs CPU 1 runs two       *)
(* processes and CPU 0 one, next to their idle tasks; two of them fork, so   *)
(* that two forks meet with two PIDs left and with one.                      *)
EXTENDS Sched

MCCalls == [p \in Pid |-> CASE p = 1 -> {"window", "fork", "read"}
                            [] p = 2 -> {"pause", "fork"}
                            [] p = 3 -> {"fault", "window"}]
=============================================================================
