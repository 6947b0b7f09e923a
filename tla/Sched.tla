------------------------------- MODULE Sched --------------------------------
(***************************************************************************)
(* The run queue of kernel/pc/pc.c as a value: the lists sched[0..         *)
(* PRORITY_NUM] (the last one holds the idle and the init task), and the   *)
(* scheduling fields of every task_struct.  Each operator is a C function  *)
(* that rewrites it, so that a handler of ProcessControl.tla composes them *)
(* in the order in which the code calls them.                              *)
(*                                                                         *)
(* A run queue is a record                                                 *)
(*   sched   : list index -> queue of tasks                                *)
(*   dyn     : task -> dynamic_prority, -1 for idle and init               *)
(*   counter : task -> time slices left                                    *)
(*   sleep   : task -> sleep_avg                                           *)
(*   changed : the tasks whose is_changed flag is set                      *)
(***************************************************************************)
EXTENDS Queues

CONSTANTS
    PRORITY_NUM,    \* number of priority levels, 32 in pc.h
    MAX_TIMESLICE   \* 0xffffffff in pc.h, the counter of idle and init

ASSUME SchedAssumption ==
    /\ PRORITY_NUM \in Nat \ {0}
    /\ MAX_TIMESLICE \in Nat

Level == 0..PRORITY_NUM-1
IdleList == PRORITY_NUM
Lists == 0..PRORITY_NUM

\* sched_time[i] of init_pc_list, with MIN_TIMESLICE = 1.
SchedTime(i) == i + 1

\* The run queues of tasks in T.
RunQueue(T) ==
    [sched : [Lists -> Seq(T)], dyn : [T -> -1..PRORITY_NUM-1],
     counter : [T -> Nat], sleep : [T -> Int], changed : SUBSET T]

\* The tasks on some priority level.
Queued(rq) == UNION {Range(rq.sched[i]) : i \in Level}

\* The priority level whose list holds t.
LevelOf(rq, t) == CHOOSE i \in Level : t \in Range(rq.sched[i])

\* add_sched: idle and init go to the last list, any other task to the tail
\* of its level.
AddSched(rq, t) ==
    LET i == IF rq.dyn[t] = -1 THEN IdleList ELSE rq.dyn[t]
    IN  [rq EXCEPT !.sched[i] = Append(@, t)]

\* remove_sched, for a task that is on the run queue.
RemoveSched(rq, t) ==
    [rq EXCEPT !.sched = [i \in Lists |-> Without(rq.sched[i], t)]]

\* Mutant: an update_pro_map that leaves the bits of empty levels set.
ProMapKeepsBits(rq) == Level

\* update_pro_map: the bit of the level of every list's first task.
ProMap(rq) ==
    {rq.dyn[Head(rq.sched[i])] : i \in {j \in Level : rq.sched[j] # <<>>}}

\* Division of C, which truncates towards zero.
Quotient(a, b) == IF a >= 0 THEN a \div b ELSE -((-a) \div b)

\* Mutant: a priority that is not clamped from below.
NewProrityUnclamped(dyn, sleep) ==
    LET p == dyn + Quotient(sleep, PRORITY_NUM)
    IN  IF p >= PRORITY_NUM THEN PRORITY_NUM - 1 ELSE p

\* The dynamic priority after an adjustment by the average sleep.
NewPrority(dyn, sleep) ==
    LET p == dyn + Quotient(sleep, PRORITY_NUM)
    IN  IF p >= PRORITY_NUM THEN PRORITY_NUM - 1 ELSE IF p < 0 THEN 0 ELSE p

\* Mutant: nobody's sleep average changes.
SleepIgnored(rq, cur, t) == rq.sleep[t]

\* update_sleep_avg: what the running task's level costs it, every other
\* queued task gains.
SleepAfter(rq, cur, t) ==
    IF t \notin Queued(rq) THEN rq.sleep[t]
    ELSE IF t = cur THEN rq.sleep[t] - SchedTime(rq.dyn[cur])
    ELSE rq.sleep[t] + SchedTime(rq.dyn[cur])

\* The tasks update_dynamic_prority gives a new priority: the queued ones
\* but the running one and those that had their change.
Adjusted(rq, cur) == Queued(rq) \ ({cur} \cup rq.changed)

\* The priority of t after update_dynamic_prority.
DynAfter(rq, cur, t) ==
    IF t \in Adjusted(rq, cur)
    THEN NewPrority(rq.dyn[t], SleepAfter(rq, cur, t)) ELSE rq.dyn[t]

\* The level whose list holds the queued task t afterwards: the running task
\* is not touched.
LevelAfter(rq, cur, t) ==
    IF t = cur THEN LevelOf(rq, t) ELSE DynAfter(rq, cur, t)

\* The order in which level j is left by the sweep over the levels: the
\* running task is not touched, the other tasks of the level are re-added
\* behind it in their order, those that come from another level are added
\* when the sweep visits their level.
SweepOrder(rq, cur, j) ==
    [t \in Queued(rq) |->
        LET i == LevelOf(rq, t)
            p == Place(rq.sched[i])[t]
        IN  IF t = cur THEN <<-2, 0>> ELSE IF i = j THEN <<-1, p>> ELSE <<i, p>>]

\* Mutant: a sweep that gives an adjusted task its priority but not its slice.
SweepKeepsSlice(rq, cur) ==
    [sched |-> [j \in Lists |->
        IF j = IdleList THEN rq.sched[j]
        ELSE Arrange({t \in Queued(rq) : LevelAfter(rq, cur, t) = j},
                     SweepOrder(rq, cur, j))],
     dyn |-> [t \in DOMAIN rq.dyn |-> DynAfter(rq, cur, t)],
     counter |-> rq.counter,
     sleep |-> [t \in DOMAIN rq.sleep |-> SleepAfter(rq, cur, t)],
     changed |-> rq.changed \cup Adjusted(rq, cur)]

\* update_dynamic_prority: every queued task but the running one is adjusted
\* once, gets the slice of its new level and is re-added to it.
UpdateDynamicPrority(rq, cur) ==
    [sched |-> [j \in Lists |->
        IF j = IdleList THEN rq.sched[j]
        ELSE Arrange({t \in Queued(rq) : LevelAfter(rq, cur, t) = j},
                     SweepOrder(rq, cur, j))],
     dyn |-> [t \in DOMAIN rq.dyn |-> DynAfter(rq, cur, t)],
     counter |-> [t \in DOMAIN rq.counter |->
                    IF t \in Adjusted(rq, cur)
                    THEN SchedTime(DynAfter(rq, cur, t)) ELSE rq.counter[t]],
     sleep |-> [t \in DOMAIN rq.sleep |-> SleepAfter(rq, cur, t)],
     changed |-> rq.changed \cup Adjusted(rq, cur)]

\* Mutant: an update_is_changed that forgets to clear the flags.
KeepChanged(rq, tasks) == rq

\* update_is_changed: clears the flag of every task of the list tasks.
UpdateIsChanged(rq, tasks) == [rq EXCEPT !.changed = @ \ Range(tasks)]

\* Mutant: the task goes back to its old level, then gets its new priority.
RequeueOnOldLevel(rq, cur) ==
    LET r == AddSched(RemoveSched(rq, cur), cur)
        p == NewPrority(r.dyn[cur], r.sleep[cur])
    IN  IF cur \in r.changed THEN r
        ELSE [r EXCEPT !.dyn[cur] = p, !.counter[cur] = SchedTime(p),
                       !.changed = @ \cup {cur}]

\* find_next_task for a priority task: it is adjusted, unless its flag says
\* that it was, and goes to the tail of its new level with a full slice.
RequeueCurrent(rq, cur) ==
    LET r == RemoveSched(rq, cur)
        p == NewPrority(r.dyn[cur], r.sleep[cur])
    IN  AddSched(IF cur \in r.changed THEN r
                 ELSE [r EXCEPT !.dyn[cur] = p,
                                !.counter[cur] = SchedTime(p),
                                !.changed = @ \cup {cur}], cur)

\* Mutant: the first task of the highest level that has one, whatever its bit.
FindInLists(rq, map, none) ==
    IF Queued(rq) = {} THEN Head(rq.sched[IdleList])
    ELSE LET i == CHOOSE i \in Level : /\ rq.sched[i] # <<>>
                                      /\ \A j \in Level :
                                            j > i => rq.sched[j] = <<>>
         IN  Head(rq.sched[i])

\* Mutant: a scan from the lowest level up.
FindInProMapLowest(rq, map, none) ==
    IF map = {} THEN Head(rq.sched[IdleList])
    ELSE LET i == CHOOSE i \in map : \A j \in map : j >= i
         IN  IF rq.sched[i] = <<>> THEN none ELSE Head(rq.sched[i])

\* find_in_pro_map: the first task of the highest level whose bit is set, the
\* idle task when no bit is.  With a bit set for an empty list the code
\* computes a task_struct from the list head: `none'.
FindInProMap(rq, map, none) ==
    IF map = {} THEN Head(rq.sched[IdleList])
    ELSE LET i == CHOOSE i \in map : \A j \in map : j <= i
         IN  IF rq.sched[i] = <<>> THEN none ELSE Head(rq.sched[i])

\* The running task is the last one of the idle list: find_next_task goes to
\* the priority levels.
LastOfIdleList(rq, cur) ==
    LET q == rq.sched[IdleList] IN q # <<>> /\ q[Len(q)] = cur

\* The task behind the running one on the idle list.
NextOfIdleList(rq, cur) ==
    LET q == rq.sched[IdleList] IN q[Place(q)[cur] + 1]

\* find_next_task: the task to run, the run queue and the bitmap it leaves.
FindNextTask(rq, cur, map, tasks, none) ==
    IF LastOfIdleList(rq, cur)
    THEN [next |-> FindInProMap(rq, map, none), rq |-> rq, map |-> map]
    ELSE IF rq.dyn[cur] = -1
    THEN [next |-> NextOfIdleList(rq, cur), rq |-> rq, map |-> map]
    ELSE LET r == RequeueCurrent(rq, cur)
         IN  [next |-> Head(r.sched[IdleList]),
              rq |-> UpdateIsChanged(r, tasks), map |-> ProMap(r)]
=============================================================================
