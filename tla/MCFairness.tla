----------------------------- MODULE MCFairness -----------------------------
(***************************************************************************)
(* Liveness of ProcessControl.tla.  The runs start where the shell has     *)
(* created a with execk and b with execk2, and is about to wait for b; it  *)
(* gives no further command.  Nothing else is restricted: any priorities,  *)
(* ticks at any safe point, exits at any time or, for a, never.            *)
(***************************************************************************)
EXTENDS ProcessControl

CONSTANTS idle, init, a, b, none

Created(pa, pb) ==
    /\ pid_map = 0..3 /\ next_pid = 4 % PID_NUM
    /\ pid = [t \in Task |-> CASE t = idle -> 0 [] t = init -> 1
                               [] t = a -> 2 [] t = b -> 3]
    /\ ppid = [t \in Task |-> IF t \in {a, b} THEN 1 ELSE 0]
    /\ state = [t \in Task |->
                    IF t = init THEN TASK_RUNNING ELSE TASK_READY]
    /\ tasks = <<idle, init, a, b>>
    /\ rq = [sched |-> [i \in Lists |->
                            IF i = IdleList THEN <<idle, init>>
                            ELSE IF i = pa THEN IF pa = pb THEN <<a, b>>
                                                ELSE <<a>>
                            ELSE IF i = pb THEN <<b>> ELSE <<>>],
             dyn |-> [t \in Task |-> CASE t = a -> pa [] t = b -> pb
                                       [] OTHER -> -1],
             counter |-> [t \in Task |-> CASE t = a -> pa + 1 [] t = b -> pb + 1
                                       [] OTHER -> MAX_TIMESLICE],
             sleep |-> [t \in Task |-> 0],
             changed |-> {}]
    /\ wait = <<>> /\ terminal = <<>>
    /\ pro_map = {pa, pb}
    /\ current_task = init
    /\ halted = "no"
    /\ shell = [at |-> "check", task |-> NoTask, pid |-> 3, prio |-> pb,
                waits |-> TRUE, byte |-> {}, hit |-> "no"]

QuietNext == Tick \/ TaskExit \/ CommandStep

(* Fairness.  The timer interrupt stays pending until it is taken and the  *)
(* processor executes what init has to do, so ticks and command steps are  *)
(* weakly fair.  The awaited task is a kernel_proc that counts to its end: *)
(* if it keeps being scheduled, it exits.  Task a may run for ever, as the *)
(* task named "loop" does.                                                 *)
QuietSpec ==
    /\ \E pa, pb \in Level : Created(pa, pb)
    /\ [][QuietNext]_vars
    /\ WF_vars(Tick) /\ SF_vars(CommandStep)
    /\ SF_vars(TaskExit /\ current_task = b)

\* Every task on a priority level runs again and again until it is dead,
\* whatever the levels and sleep averages of the tasks are.
NoStarvation ==
    \A t \in Task : t \in Queued(rq) ~> current_task = t

\* wait_pid ends: the shell that waits for a child that exits gets the
\* processor back.
WaitEnds == InitTask \in Range(wait) ~> current_task = InitTask
=============================================================================
