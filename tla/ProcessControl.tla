--------------------------- MODULE ProcessControl ---------------------------
(***************************************************************************)
(* kernel/pc/pc.c: creation, scheduling, exit, kill and wait of tasks on   *)
(* one processor.                                                          *)
(*                                                                         *)
(* Who runs what.  The timer interrupt runs pc_schedule with interrupts    *)
(* off: one action.  task_exit and pc_kill change the shared state with    *)
(* interrupts off: one action each.  task_create and wait_pid are called   *)
(* only by the init task, which runs the shell, and with interrupts on:    *)
(* they are split at the points where the timer can take the processor     *)
(* away, and `shell.at' is init's program counter.                         *)
(*                                                                         *)
(* A task_struct is named by its address, a member of Task.  kmalloc never *)
(* returns the address of a task_struct that is still linked; one that was *)
(* unlinked by clear_terminal is never looked at again (the code leaks     *)
(* it), so its name is used for the next task.                             *)
(***************************************************************************)
EXTENDS Sched, Pid

CONSTANTS
    Task,           \* addresses of task_structs
    IdleTask, InitTask,     \* those of the idle task and of the init task
    NoTask,         \* an address that is no task_struct
    SleepBound,     \* bound of the model: |sleep_avg| stays within it
    Preemptible,    \* the points of a command at which a tick may hit init
    KillStale       \* the shell may kill a pid whose task_struct is dead

\* The points of task_create and wait_pid between which a tick can fall:
\* "pid"    pid_alloc has read the byte of pid_map and not yet written it
\* "alloc"  the identifier is allocated, the task_struct is not
\* "link"   the task_struct is filled in, on no list
\* "queue"  it is on the list tasks
\* "load"   it is on its priority list
\* "store"  add_pro_map has read the byte of pro_map and not yet written it
\* "ready"  its bit is set, its state still TASK_UNINIT
\* "check"  task_create returned and wait_pid is about to look for the child
\* "window" wait_pid found the child and enabled the interrupts again
CreatePoints == {"pid", "alloc", "link", "queue", "load", "store", "ready"}
CommandPoints == CreatePoints \cup {"check", "window"}

ASSUME TaskAssumption ==
    /\ IsFiniteSet(Task)
    /\ IdleTask \in Task /\ InitTask \in Task /\ IdleTask # InitTask
    /\ NoTask \notin Task
    /\ SleepBound \in Nat
    /\ Preemptible \subseteq CommandPoints
    /\ KillStale \in BOOLEAN

TASK_UNINIT == 0
TASK_READY == 1
TASK_RUNNING == 2
TASK_TERMINAL == 4

VARIABLES
    pid,            \* task -> pid
    ppid,           \* task -> pid of its creator
    state,          \* task -> TASK_..., or -p when it waits for pid p
    tasks,          \* list of all tasks, in the order of creation
    rq,             \* the run queue, see Sched.tla
    wait,           \* list of the tasks that wait for a child
    terminal,       \* list of the dead tasks that a tick has to unlink
    pro_map,        \* the levels whose bit is set in the bitmap
    current_task,
    halted,         \* "no", or the reason why the kernel stopped for good
    shell           \* the command the init task executes

idVars == <<pid, ppid>>
schedVars == <<rq, pro_map, current_task>>
vars == <<pid_map, next_pid, pid, ppid, state, tasks, rq, wait, terminal,
          pro_map, current_task, halted, shell>>

\* init_pc and create_startup_process, both before interrupts are enabled:
\* idle runs and init is ready.
Init ==
    /\ PidBooted
    /\ pid = [t \in Task |-> IF t = InitTask THEN INIT_PID ELSE IDLE_PID]
    /\ ppid = [t \in Task |-> IDLE_PID]
    /\ state = [t \in Task |->
                    IF t \in {IdleTask, InitTask} THEN TASK_READY ELSE TASK_UNINIT]
    /\ tasks = <<IdleTask, InitTask>>
    /\ rq = [sched |-> [i \in Lists |->
                            IF i = IdleList THEN <<IdleTask, InitTask>> ELSE <<>>],
             dyn |-> [t \in Task |-> -1],
             counter |-> [t \in Task |-> MAX_TIMESLICE],
             sleep |-> [t \in Task |-> 0],
             changed |-> {}]
    /\ wait = <<>> /\ terminal = <<>>
    /\ pro_map = {}
    /\ current_task = IdleTask
    /\ halted = "no"
    /\ shell = [at |-> "shell", task |-> NoTask, pid |-> IDLE_PID,
                prio |-> 0, waits |-> FALSE, byte |-> {}, hit |-> "no"]

\* Every task on some list.  Any other address is free.
Linked ==
    Range(tasks) \cup Range(wait) \cup Range(terminal)
        \cup UNION {Range(rq.sched[i]) : i \in Lists}

Live == {t \in Range(tasks) : state[t] # TASK_TERMINAL}

SleepBounded(r) == \A t \in Queued(r) : r.sleep[t] \in -SleepBound..SleepBound

---------------------------------------------------------------------------
(* The timer interrupt: pc_schedule.                                       *)

\* The timer is not masked.  A command takes far less than the 10,000,000
\* counts between two ticks, so at most one tick hits it.
TimerOn ==
    /\ halted = "no"
    /\ current_task = InitTask /\ shell.at \in CommandPoints
         => shell.at \in Preemptible /\ shell.hit = "no"

MarkHit ==
    shell' = IF current_task = InitTask /\ shell.at \in CommandPoints
             THEN [shell EXCEPT !.hit = shell.at] ELSE shell

\* while(1) in the kernel with interrupts off.
Halt(why) ==
    /\ halted' = why
    /\ UNCHANGED <<pidVars, idVars, state, tasks, rq, wait, terminal,
                   pro_map, current_task, shell>>

\* clear_terminal stops at a task that is not dead, else empties the list.
TerminalCorrupt == \E t \in Range(terminal) : state[t] # TASK_TERMINAL

\* Mutant: the list tasks is not cleaned.
ClearTerminalOnly == tasks' = tasks /\ terminal' = <<>>

ClearTerminal ==
    /\ tasks' = Keep(tasks, Range(tasks) \ Range(terminal))
    /\ terminal' = <<>>

\* Mutant: the task that gives the processor up stays TASK_RUNNING.
SwitchKeepsRunning(next) ==
    /\ state' = [state EXCEPT ![next] = TASK_RUNNING]
    /\ current_task' = next

\* The context switch at the end of pc_schedule.
SwitchTo(next) ==
    /\ state' = [state EXCEPT ![current_task] = TASK_READY,
                              ![next] = TASK_RUNNING]
    /\ current_task' = next

\* The scheduler proper, once the running task gives the processor up: f is
\* what find_next_task found.
Schedule(f) ==
    IF f.next = NoTask THEN Halt("wild pointer")
    ELSE IF f.next = current_task THEN Halt("next == current_task")
    ELSE /\ ClearTerminal
         /\ rq' = f.rq /\ pro_map' = f.map
         /\ SwitchTo(f.next)
         /\ MarkHit
         /\ UNCHANGED <<pidVars, idVars, wait, halted>>

\* pc_schedule: a priority task with time left runs on.
TickRunsOn ==
    /\ TimerOn
    /\ rq.dyn[current_task] # -1
    /\ rq.counter[current_task] # 1
    /\ rq' = [rq EXCEPT !.counter[current_task] =
                            IF @ = 0 THEN MAX_TIMESLICE ELSE @ - 1]
    /\ UNCHANGED <<pidVars, idVars, state, tasks, wait, terminal, pro_map,
                   current_task, halted, shell>>

\* pc_schedule: the slice of a priority task is used up.
TickSliceEnds ==
    /\ TimerOn
    /\ rq.dyn[current_task] # -1
    /\ rq.counter[current_task] = 1
    /\ IF TerminalCorrupt THEN Halt("terminal")
       ELSE \E r \in {UpdateDynamicPrority(rq, current_task)} :
            \E kept \in {Keep(tasks, Range(tasks) \ Range(terminal))} :
            \E f \in {FindNextTask(r, current_task, pro_map, kept, NoTask)} :
                SleepBounded(r) /\ Schedule(f)

\* pc_schedule: idle or init gives the processor up at every tick.
TickIdle ==
    /\ TimerOn
    /\ rq.dyn[current_task] = -1
    /\ IF TerminalCorrupt THEN Halt("terminal")
       ELSE \E f \in {FindNextTask(rq, current_task, pro_map, tasks, NoTask)} :
                Schedule(f)

Tick == TickRunsOn \/ TickSliceEnds \/ TickIdle

---------------------------------------------------------------------------
(* task_exit, called by kernel_proc when a priority task ends.             *)

\* Mutant: a task_exit that does not look for a waiting parent.
NobodyWaits(p) == NoTask

\* wakeup_parent: the first waiting task with the given pid.
WaitingParent(p) == FirstIn(wait, {t \in Task : pid[t] = p}, NoTask)

TaskExit ==
    /\ halted = "no"
    /\ current_task \notin {IdleTask, InitTask}
    /\ \E parent \in {WaitingParent(ppid[current_task])} :
       \E woken \in {IF parent = NoTask THEN rq ELSE AddSched(rq, parent)} :
       \E r \in {UpdateIsChanged(UpdateDynamicPrority(woken, current_task),
                                 tasks)} :
       \E f \in {FindNextTask(r, current_task, ProMap(r), tasks, NoTask)} :
       \E left \in {RemoveSched(f.rq, current_task)} :
           /\ SleepBounded(left)
           /\ rq' = left
           /\ pro_map' = ProMap(left)
           /\ wait' = Without(wait, parent)
           /\ state' = [t \in Task |->
                          IF t = current_task THEN TASK_TERMINAL
                          ELSE IF t = parent THEN TASK_READY ELSE state[t]]
           /\ current_task' = f.next
    /\ terminal' = Append(terminal, current_task)
    /\ PidFree(pid[current_task])
    /\ UNCHANGED <<idVars, tasks, halted, shell>>

---------------------------------------------------------------------------
(* The commands of the shell, executed by the init task.                   *)

Command(at) ==
    /\ halted = "no"
    /\ current_task = InitTask
    /\ shell.at = at

\* find_in_tasks: the first task_struct of the list tasks with that pid.
FindInTasks(p) == FirstIn(tasks, {t \in Task : pid[t] = p}, NoTask)

\* pc_kill.  Nothing changes for idle, init, init's own pid, a pid not in
\* use or one without a task_struct.
PcKill(p) ==
    /\ Command("shell")
    /\ p \notin {IDLE_PID, INIT_PID, pid[current_task]}
    /\ PidUsed(p)
    /\ \E t \in {FindInTasks(p)} : \E left \in {RemoveSched(rq, t)} :
           /\ t # NoTask
           /\ state[t] = TASK_TERMINAL => KillStale
           /\ state' = [state EXCEPT ![t] = TASK_TERMINAL]
           /\ rq' = left
           /\ pro_map' = ProMap(left)
           /\ wait' = Without(wait, t)
           /\ terminal' = Append(Without(terminal, t), t)
           /\ PidFree(p)
    /\ UNCHANGED <<idVars, tasks, current_task, halted, shell>>

\* execk (waits = FALSE) and execk2 (TRUE): task_create checks the priority
\* and pid_alloc looks for a free pid; with none, the command fails.
CreateStart(prio, waits) ==
    /\ Command("shell")
    /\ pid_map # Pids
    /\ shell' = [shell EXCEPT !.at = "pid", !.pid = NextFit, !.prio = prio,
                              !.waits = waits, !.hit = "no",
                              !.byte = pid_map \cap PidByte(NextFit)]
    /\ UNCHANGED <<pidVars, idVars, state, tasks, schedVars, wait, terminal,
                   halted>>

\* pid_alloc writes the byte and moves next_pid.
CreateClaimsPid ==
    /\ Command("pid")
    /\ PidStore(shell.pid, shell.byte)
    /\ shell' = [shell EXCEPT !.at = "alloc", !.byte = {}]
    /\ UNCHANGED <<idVars, state, tasks, schedVars, wait, terminal, halted>>

\* kmalloc fails: the pid is given back.
CreateFails ==
    /\ Command("alloc")
    /\ PidFree(shell.pid)
    /\ shell' = [shell EXCEPT !.at = "shell"]
    /\ UNCHANGED <<idVars, state, tasks, schedVars, wait, terminal, halted>>

\* kmalloc returns t and task_create fills it in.
CreateFillsIn(t) ==
    /\ Command("alloc")
    /\ t \notin Linked
    /\ pid' = [pid EXCEPT ![t] = shell.pid]
    /\ ppid' = [ppid EXCEPT ![t] = pid[current_task]]
    /\ state' = [state EXCEPT ![t] = TASK_UNINIT]
    /\ rq' = [rq EXCEPT
                !.dyn[t] = IF shell.pid = INIT_PID THEN -1 ELSE shell.prio,
                !.counter[t] = IF shell.pid = INIT_PID THEN MAX_TIMESLICE
                               ELSE SchedTime(shell.prio),
                !.sleep[t] = 0,
                !.changed = @ \ {t}]
    /\ shell' = [shell EXCEPT !.at = "link", !.task = t]
    /\ UNCHANGED <<pidVars, tasks, wait, terminal, pro_map, current_task,
                   halted>>

\* add_tasks.
CreateLinks ==
    /\ Command("link")
    /\ tasks' = Append(tasks, shell.task)
    /\ shell' = [shell EXCEPT !.at = "queue"]
    /\ UNCHANGED <<pidVars, idVars, state, schedVars, wait, terminal, halted>>

\* add_sched.
CreateQueues ==
    /\ Command("queue")
    /\ rq' = AddSched(rq, shell.task)
    /\ shell' = [shell EXCEPT !.at = "load"]
    /\ UNCHANGED <<pidVars, idVars, state, tasks, wait, terminal, pro_map,
                   current_task, halted>>

\* The levels whose bit is in the same byte of pro_map as i's.
ProByte(i) == {j \in Level : j \div 8 = i \div 8}

\* add_pro_map reads the byte of the task's level (nothing for init).
CreateLoadsBit ==
    /\ Command("load")
    /\ LET i == rq.dyn[shell.task]
       IN  shell' = [shell EXCEPT !.at = "store", !.prio = i,
                        !.byte = IF i = -1 THEN {} ELSE pro_map \cap ProByte(i)]
    /\ UNCHANGED <<pidVars, idVars, state, tasks, schedVars, wait, terminal,
                   halted>>

\* Mutant: an add_pro_map that sets no bit.
CreateSkipsBit ==
    /\ Command("store")
    /\ shell' = [shell EXCEPT !.at = "ready", !.byte = {}]
    /\ UNCHANGED <<pidVars, idVars, state, tasks, schedVars, wait, terminal,
                   halted>>

\* add_pro_map writes the byte back with the bit set.
CreateStoresBit ==
    /\ Command("store")
    /\ pro_map' = IF shell.prio = -1 THEN pro_map
                  ELSE (pro_map \ ProByte(shell.prio))
                         \cup shell.byte \cup {shell.prio}
    /\ shell' = [shell EXCEPT !.at = "ready", !.byte = {}]
    /\ UNCHANGED <<pidVars, idVars, state, tasks, rq, wait, terminal,
                   current_task, halted>>

\* The new task becomes ready and task_create returns.
CreateReadies ==
    /\ Command("ready")
    /\ state' = [state EXCEPT ![shell.task] = TASK_READY]
    /\ shell' = [shell EXCEPT !.task = NoTask,
                    !.at = IF shell.waits THEN "check" ELSE "shell"]
    /\ UNCHANGED <<pidVars, idVars, tasks, schedVars, wait, terminal, halted>>

\* wait_check: the first task with that pid that is not dead.
WaitedFor(p) ==
    FirstIn(tasks, {u \in Task : pid[u] = p /\ state[u] # TASK_TERMINAL},
            NoTask)

\* wait_pid up to the second enable_interrupts: it returns unless the pid is
\* that of a child of the caller that is not dead.
WaitCheck ==
    /\ Command("check")
    /\ LET t == WaitedFor(shell.pid)
           found == t # NoTask /\ ppid[t] = pid[current_task]
       IN  shell' = [shell EXCEPT !.at = IF found THEN "window" ELSE "shell"]
    /\ UNCHANGED <<pidVars, idVars, state, tasks, schedVars, wait, terminal,
                   halted>>

\* The rest of wait_pid, with exceptions off: the caller leaves the run queue
\* for the wait list and the next task is loaded.  Its state is not touched.
WaitSleeps ==
    /\ Command("window")
    /\ \E r \in {UpdateIsChanged(UpdateDynamicPrority(rq, InitTask), tasks)} :
       \E f \in {FindNextTask(r, InitTask, ProMap(r), tasks, NoTask)} :
       \E left \in {RemoveSched(f.rq, InitTask)} :
           /\ SleepBounded(r)
           /\ IF f.next = NoTask THEN Halt("wild pointer")
              ELSE /\ rq' = left
                   /\ pro_map' = ProMap(left)
                   /\ current_task' = f.next
                   /\ state' = [state EXCEPT ![InitTask] = -shell.pid]
                   /\ wait' = Append(wait, InitTask)
                   /\ shell' = [shell EXCEPT !.at = "asleep"]
                   /\ UNCHANGED <<pidVars, idVars, tasks, terminal, halted>>

\* The woken init task runs again and wait_pid returns.
WaitReturns ==
    /\ Command("asleep")
    /\ shell' = [shell EXCEPT !.at = "shell"]
    /\ UNCHANGED <<pidVars, idVars, state, tasks, schedVars, wait, terminal,
                   halted>>

CommandStep ==
    \/ CreateClaimsPid \/ CreateFails \/ \E t \in Task : CreateFillsIn(t)
    \/ CreateLinks \/ CreateQueues \/ CreateLoadsBit \/ CreateStoresBit
    \/ CreateReadies \/ WaitCheck \/ WaitSleeps \/ WaitReturns

Next ==
    \/ Tick
    \/ TaskExit
    \/ \E p \in Pids : PcKill(p)
    \/ \E prio \in Level, waits \in BOOLEAN : CreateStart(prio, waits)
    \/ CommandStep

Spec == Init /\ [][Next]_vars

---------------------------------------------------------------------------
(* Properties.                                                             *)

Shell == [at : {"shell", "asleep"} \cup CommandPoints,
          task : Task \cup {NoTask}, pid : Pids, prio : -1..PRORITY_NUM-1,
          waits : BOOLEAN, byte : SUBSET Nat, hit : CommandPoints \cup {"no"}]

\* Every variable has its type; in particular the lists hold task_structs
\* only and the running task is one.
TypeOK ==
    /\ pid_map \subseteq Pids /\ next_pid \in Pids
    /\ pid \in [Task -> Pids] /\ ppid \in [Task -> Pids]
    /\ state \in [Task -> Int]
    /\ tasks \in Seq(Task) /\ wait \in Seq(Task) /\ terminal \in Seq(Task)
    /\ rq \in RunQueue(Task)
    /\ pro_map \subseteq Level
    /\ current_task \in Task
    /\ halted \in {"no", "terminal", "wild pointer", "next == current_task"}
    /\ shell \in Shell

\* The lists a task is on through its `sched' node, numbered.
NodeLists ==
    [i \in 0..PRORITY_NUM+2 |->
        IF i <= PRORITY_NUM THEN rq.sched[i]
        ELSE IF i = PRORITY_NUM + 1 THEN wait ELSE terminal]

\* The one list node `sched' of a task_struct serves the run queue, the wait
\* list and the terminal list: a task of the list tasks is on exactly one of
\* them, once (the task being created is not yet), and it is on the terminal
\* list exactly when it is dead, on the wait list exactly when it waits.
ListedOnce ==
    /\ \A i \in DOMAIN NodeLists : IsInjective(NodeLists[i])
    /\ \A i, j \in DOMAIN NodeLists :
          i # j => Range(NodeLists[i]) \cap Range(NodeLists[j]) = {}
    /\ IsInjective(tasks)
    /\ Range(tasks) = (UNION {Range(NodeLists[i]) : i \in DOMAIN NodeLists})
                        \cup IF shell.at = "queue" THEN {shell.task} ELSE {}
    /\ \A t \in Range(tasks) :
          /\ t \in Range(terminal) <=> state[t] = TASK_TERMINAL
          /\ t \in Range(wait) <=> state[t] < 0

\* A queued task is on the list of its dynamic priority: the sweep of
\* update_dynamic_prority loses and misplaces nobody while it moves nodes
\* between the lists it walks.
OnOwnLevel ==
    \A i \in Lists : \A t \in Range(rq.sched[i]) :
        rq.dyn[t] = IF i = IdleList THEN -1 ELSE i

\* The bitmap tells exactly the levels that have a task, but for the level
\* of a task task_create is about to announce: find_in_pro_map neither takes
\* the head of an empty list for a task nor misses a level.
ProMapExact ==
    pro_map \cup (IF shell.at \in {"load", "store"}
                  THEN {rq.dyn[shell.task]} ELSE {})
      = {i \in Level : rq.sched[i] # <<>>}

\* The bit of a pid is set exactly while a task that is not dead has it (or
\* task_create is about to give it to one), and no two such tasks share one.
PidsOwned ==
    /\ \A t, u \in Live : pid[t] = pid[u] => t = u
    /\ pid_map = {pid[t] : t \in Live}
                    \cup IF shell.at \in {"alloc", "link"} THEN {shell.pid}
                         ELSE {}

\* Whatever moved a task between levels, it waits there with the full slice
\* of that level, and the running task has at least one tick left: the
\* unsigned counter never wraps.
FullSlice ==
    \A t \in Queued(rq) :
        /\ rq.counter[t] \in 1..SchedTime(rq.dyn[t])
        /\ t # current_task => rq.counter[t] = SchedTime(rq.dyn[t])

\* No is_changed flag survives a handler: no task's priority is frozen.
NoFrozenPriority == rq.changed = {}

\* "Always the task of the highest priority, the first of its level"
\* (pc.c:438): while a priority task runs, no other task that task_create
\* has finished with is on a higher level or before it.
HighestRuns ==
    current_task \in Queued(rq) =>
        /\ Head(rq.sched[rq.dyn[current_task]]) = current_task
        /\ \A i \in Level : i > rq.dyn[current_task] =>
                Range(rq.sched[i]) \subseteq {shell.task}

\* A tick came between wait_pid's search for the child and its sleep
\* (pc.c:957-969), and init sleeps for what was true before it.
Overtaken == shell.at = "asleep" /\ shell.hit = "window"

\* The kernel never stops in one of its while(1) loops and never runs a
\* task_struct computed from an empty list; a shell that a tick has overtaken
\* may leave idle without a successor.
NeverHalts == ~Overtaken => halted = "no"

\* Where find_in_pro_map sees a bit, the level has a task (pc.c:430): the
\* kernel never switches to a task_struct computed from a list head.
BitHasTask == halted # "wild pointer"

\* A task that waits waits for a child that is not dead, and that will wake it.
WakeupsPend ==
    \A t \in Range(wait) :
        \E c \in Live : pid[c] = -state[t] /\ ppid[c] = pid[t]

\* No wakeup is lost, unless a tick overtakes wait_pid.
WaitsForTheLiving == ~Overtaken => WakeupsPend

\* While the shell runs, ps shows it and nobody else as running.
ShellShownRunning ==
    current_task = InitTask =>
        \A t \in Range(tasks) : state[t] = TASK_RUNNING <=> t = InitTask

\* A task whose bit task_create has not set yet is not run, whatever tick or
\* exit came in between: it is still where task_create put it.
UnannouncedNotRun ==
    shell.at \in {"link", "queue", "load", "store"} =>
        /\ shell.task # current_task /\ state[shell.task] = TASK_UNINIT
        /\ shell.at \in {"load", "store"} =>
                shell.task \in Range(rq.sched[rq.dyn[shell.task]])

\* wait_pid returns only when the awaited child is dead.
WaitsForItsChild ==
    [][shell.at = "asleep" /\ shell'.at = "shell" =>
        ~\E t \in Live : pid[t] = shell.pid]_vars

\* After pc_kill(p) no task that is not dead has pid p.
KillKills ==
    [][\A p \in Pids : PcKill(p) => ~\E t \in Live' : pid[t] = p]_vars
=============================================================================
