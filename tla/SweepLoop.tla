----------------------------- MODULE SweepLoop ------------------------------
(***************************************************************************)
(* update_dynamic_prority as its loops run, on the lists in memory: the    *)
(* outer loop over the levels and the inner one that follows `temp' while  *)
(* it unlinks and re-adds the nodes it walks over.  Sched.tla gives the    *)
(* result in closed form, UpdateDynamicPrority; this module shows that the *)
(* loops compute it.                                                       *)
(*                                                                         *)
(* The head of level i is the address i; tasks are other integers.         *)
(***************************************************************************)
EXTENDS Sched, ListOps

CONSTANTS
    Task,           \* addresses of the nodes `sched' of the tasks
    SleepValues     \* the sleep averages tried

ASSUME SweepAssumption ==
    Task \subseteq Int /\ Task \cap Lists = {} /\ SleepValues \subseteq Int

VARIABLES
    pc,         \* "sleep", "level", "node" or "done"
    mem,        \* the list nodes in memory
    dyn, counter, sleep, changed,
    cur,        \* the running task
    i, num, temp,   \* the variables of the loops
    before      \* the run queue at the call, as a value

vars == <<pc, mem, dyn, counter, sleep, changed, cur, i, num, temp, before>>

\* The memory in which the lists are the given sequences.
Memory(lists) ==
    LET ring(l) == <<l>> \o lists[l]
        home(n) == CHOOSE l \in Lists : n \in Range(ring(l))
        node(n) == LET r == ring(home(n))
                       k == Place(r)[n]
                   IN  [prev |-> IF k = 1 THEN r[Len(r)] ELSE r[k-1],
                        next |-> IF k = Len(r) THEN r[1] ELSE r[k+1]]
    IN  [n \in Lists \cup Task |-> node(n)]

\* The lists in memory and the scheduling fields as a run queue.
AsRunQueue ==
    [sched |-> [l \in Lists |-> Walk(mem, l)], dyn |-> dyn,
     counter |-> counter, sleep |-> sleep, changed |-> changed]

\* All run queues in which each task is on the list of its priority, at any
\* place there.
Orders == {f \in [1..Cardinality(Task) -> Task] : IsInjective(f)}

RunQueues(levels, order, sleeps) ==
    [sched |-> [l \in Lists |->
        SelectSeq(order, LAMBDA t : levels[t] = IF l = IdleList THEN -1 ELSE l)],
     dyn |-> levels,
     counter |-> [t \in Task |-> SchedTime(levels[t])],
     sleep |-> sleeps, changed |-> {}]

Init ==
    /\ pc = "sleep"
    /\ \E levels \in [Task -> -1..PRORITY_NUM-1], order \in Orders,
          sleeps \in [Task -> SleepValues] :
        /\ Cardinality({t \in Task : levels[t] = -1}) <= 1
        /\ before = RunQueues(levels, order, sleeps)
    /\ cur \in Task
    /\ mem = Memory(before.sched)
    /\ dyn = before.dyn /\ counter = before.counter
    /\ sleep = before.sleep /\ changed = before.changed
    /\ i = 0 /\ num = 0 /\ temp = 0

\* update_sleep_avg: the loops over the levels and their tasks.
UpdateSleepAvg ==
    /\ pc = "sleep"
    /\ LET time == dyn[cur] + 1
       IN  sleep' = [t \in Task |->
            IF \A l \in Level : t \notin Range(Walk(mem, l)) THEN sleep[t]
            ELSE IF dyn[cur] \in Level /\ t \in Range(Walk(mem, dyn[cur]))
                 THEN IF t = cur THEN sleep[t] - time ELSE sleep[t] + time
            ELSE sleep[t] + time]
    /\ pc' = "level"
    /\ UNCHANGED <<mem, dyn, counter, changed, cur, i, num, temp, before>>

\* Mutant: a sweep that does not count the nodes of the level first: it would also
\* visit the ones it re-added.
StartLevelUncounted ==
    /\ pc = "level" /\ i < PRORITY_NUM
    /\ num' = Cardinality(Task)
    /\ temp' = mem[i].next
    /\ pc' = "node"
    /\ UNCHANGED <<mem, dyn, counter, sleep, changed, cur, i, before>>

\* The outer loop: count_list and the first node.
StartLevel ==
    /\ pc = "level" /\ i < PRORITY_NUM
    /\ num' = Len(Walk(mem, i))
    /\ temp' = mem[i].next
    /\ pc' = "node"
    /\ UNCHANGED <<mem, dyn, counter, sleep, changed, cur, i, before>>

EndLevel ==
    /\ pc = "node" /\ num = 0
    /\ i' = i + 1
    /\ pc' = "level"
    /\ UNCHANGED <<mem, dyn, counter, sleep, changed, cur, num, temp, before>>

\* Mutant: a list_for_each, which ends at the head of the list.
AdvanceToHead ==
    /\ pc = "node" /\ num # 0
    /\ temp' = mem[temp].next
    /\ num' = IF temp' = i THEN 0 ELSE num
    /\ UNCHANGED <<pc, sleep, cur, i, before>>

Advance ==
    /\ pc = "node" /\ num # 0
    /\ num' = num - 1
    /\ temp' = mem[temp].next
    /\ UNCHANGED <<pc, sleep, cur, i, before>>

\* The node of the running task stays where it is.
SkipCurrent ==
    /\ Advance
    /\ temp = cur
    /\ UNCHANGED <<mem, dyn, counter, changed>>

\* Mutant: a sweep that ignores is_changed.
MoveNodeAgain ==
    /\ Advance
    /\ temp # cur
    /\ LET p == NewPrority(dyn[temp], sleep[temp])
       IN  /\ dyn' = [dyn EXCEPT ![temp] = p]
           /\ counter' = [counter EXCEPT ![temp] = SchedTime(p)]
           /\ changed' = changed \cup {temp}
           /\ mem' = ListAddTail(Remove(mem, temp), temp, p)

\* Any other node is unlinked, adjusted unless it was, and re-added at the
\* tail of its level, maybe the one the loop is walking.
MoveNode ==
    /\ Advance
    /\ temp # cur
    /\ LET p == IF temp \in changed THEN dyn[temp]
                ELSE NewPrority(dyn[temp], sleep[temp])
       IN  /\ dyn' = [dyn EXCEPT ![temp] = p]
           /\ counter' = IF temp \in changed THEN counter
                         ELSE [counter EXCEPT ![temp] = SchedTime(p)]
           /\ changed' = changed \cup {temp}
           /\ mem' = ListAddTail(Remove(mem, temp), temp, p)

Finish ==
    /\ pc = "level" /\ i = PRORITY_NUM
    /\ pc' = "done"
    /\ UNCHANGED <<mem, dyn, counter, sleep, changed, cur, i, num, temp, before>>

Next ==
    \/ UpdateSleepAvg \/ StartLevel \/ EndLevel \/ SkipCurrent \/ MoveNode
    \/ Finish

Spec == Init /\ [][Next]_vars /\ WF_vars(Next)

---------------------------------------------------------------------------

\* `temp' is the node of a task whenever the loop is going to use it: the
\* list head is never taken for a task, though nodes move under the walk.
WalksTasksOnly == pc = "node" /\ num # 0 => temp \in Task

\* The loops compute the closed form of Sched.tla.
SweepIsClosedForm ==
    pc = "done" => AsRunQueue = UpdateDynamicPrority(before, cur)

\* The sweep ends.
SweepEnds == <>(pc = "done")
=============================================================================
