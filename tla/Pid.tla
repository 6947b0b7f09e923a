-------------------------------- MODULE Pid ---------------------------------
(***************************************************************************)
(* kernel/pc/pid.c: the bitmap of used process identifiers and the cursor  *)
(* next_pid of the circular search for a free one.  pid_map is the set of  *)
(* the identifiers whose bit is set.                                       *)
(***************************************************************************)
EXTENDS Integers

CONSTANTS
    PID_NUM     \* 128 in pid.h

ASSUME PidNumAssumption == PID_NUM \in Nat /\ PID_NUM > 1

IDLE_PID == 0
INIT_PID == 1
Pids == 0..PID_NUM-1

VARIABLES
    pid_map,    \* the identifiers in use
    next_pid    \* where the next search starts

pidVars == <<pid_map, next_pid>>

\* init_pid: only the idle task's identifier is used.  The model starts after
\* the boot created the init task, which took identifier 1.
PidBooted == pid_map = {IDLE_PID, INIT_PID} /\ next_pid = 2 % PID_NUM

\* pid_check(p), false for an identifier out of range.
PidUsed(p) == p \in pid_map

\* The k-th identifier the search of pid_alloc looks at.
Probe(k) == (next_pid + k) % PID_NUM

\* The identifier the search of pid_alloc stops at.
NextFit ==
    LET k == CHOOSE k \in 0..PID_NUM-1 :
                /\ ~PidUsed(Probe(k))
                /\ \A j \in 0..k-1 : PidUsed(Probe(j))
    IN  Probe(k)

\* The identifiers whose bit is in the same byte of pid_map as p's.
PidByte(p) == {r \in Pids : r \div 8 = p \div 8}

\* The end of pid_alloc: the byte read before is written back with p's bit
\* set, and the cursor moves past p.
PidStore(p, byte) ==
    /\ pid_map' = (pid_map \ PidByte(p)) \cup byte \cup {p}
    /\ next_pid' = (p + 1) % PID_NUM

\* Mutant: a pid_free that clears no bit.
PidFreeForgets(p) == pid_map' = pid_map /\ UNCHANGED next_pid

\* pid_free(p): clears p's bit, does nothing when it is not set.
PidFree(p) == pid_map' = pid_map \ {p} /\ UNCHANGED next_pid
=============================================================================
