------------------------ MODULE ProcessControlProofs ------------------------
(***************************************************************************)
(* What keeps the process core sound for any number of tasks, levels and   *)
(* pids, in layers, each an invariant that is inductive on top of the ones *)
(* before it:                                                              *)
(*                                                                         *)
(*   Inv       the run queue, wherever the timer hits a command            *)
(*   TasksInv  the lists, the states and the progress of a command,        *)
(*             wherever the timer hits                                     *)
(*   PidsInv   the pids, if no tick hits pid_alloc's read-modify-write of  *)
(*             a byte of pid_map and the shell kills no pid of a task that *)
(*             is dead                                                     *)
(*   MapInv    the bitmap and the running task, if no tick hits            *)
(*             add_pro_map's read-modify-write of a byte of pro_map        *)
(*   WaitInv   the waiting task, unless a tick overtakes wait_pid between  *)
(*             its search for the child and its sleep                      *)
(*                                                                         *)
(* The kernel never halts under the last two: without the tick in          *)
(* add_pro_map, and but for a shell that was overtaken.                    *)
(*                                                                         *)
(* Inv says that each variable keeps its type, each queued task is on the  *)
(* list of its priority with the slice of that level, and no is_changed    *)
(* flag is left set.  None of the four is inductive.  What has to be added *)
(* is the life of the two special tasks (IdleInv), what the running task   *)
(* can be (CurrentInv), that the priority levels hold only tasks which are *)
(* linked and not dead (QueueInv), that pids 0 and 1 stay with their       *)
(* owners (PidInv), and what a half-created task looks like between the    *)
(* steps of task_create (CreateInv).                                       *)
(***************************************************************************)
EXTENDS ProcessControl, QueuesTheorems

---------------------------------------------------------------------------
(* What the functions of the scheduler, Sched.tla, preserve on any run     *)
(* queue: no task is lost, doubled or left on the wrong level.             *)

\* A run queue whose tasks are on the lists of their priorities.
OnLevels(r) ==
    \A i \in Lists : \A t \in Range(r.sched[i]) :
        r.dyn[t] = IF i = IdleList THEN -1 ELSE i

Sound(r, T) == r \in RunQueue(T) /\ OnLevels(r)

\* The fields that adding and removing a task leave alone.
SameFields(r, s) ==
    /\ s.dyn = r.dyn /\ s.counter = r.counter
    /\ s.sleep = r.sleep /\ s.changed = r.changed

\* The list of idle and init is none of the levels.
LEMMA ListsApart ==
    /\ IdleList \in Lists /\ IdleList \notin Level
    /\ Level \subseteq Lists
    /\ \A i \in Lists : i # IdleList => i \in Level
    /\ PRORITY_NUM \in Nat /\ PRORITY_NUM > 0
BY SchedAssumption DEF Lists, Level, IdleList

\* A task is queued on the level of its priority and on no other list.
LEMMA QueuedOnLevel ==
    ASSUME NEW T, NEW r, Sound(r, T)
    PROVE  /\ \A i \in Lists : r.sched[i] \in Seq(T)
           /\ \A t \in Queued(r) :
                /\ t \in T
                /\ r.dyn[t] \in Level
                /\ LevelOf(r, t) = r.dyn[t]
                /\ t \in Range(r.sched[r.dyn[t]])
           /\ \A i \in Level : Range(r.sched[i]) \subseteq Queued(r)
<1>1. \A i \in Lists : r.sched[i] \in Seq(T) /\ Range(r.sched[i]) \subseteq T
    BY RangeOfQueue DEF Sound, RunQueue
<1>2. ASSUME NEW t \in Queued(r)
      PROVE  /\ t \in T /\ r.dyn[t] \in Level /\ LevelOf(r, t) = r.dyn[t]
             /\ t \in Range(r.sched[r.dyn[t]])
    <2>1. PICK i \in Level : t \in Range(r.sched[i])
        BY DEF Queued
    <2>2. \A j \in Level : t \in Range(r.sched[j]) => j = r.dyn[t]
        BY ListsApart DEF Sound, OnLevels
    <2>3. LevelOf(r, t) = r.dyn[t]
        BY <2>1, <2>2 DEF LevelOf
    <2> QED
        BY <1>1, <2>1, <2>2, <2>3, ListsApart
<1> QED
    BY <1>1, <1>2 DEF Queued

\* The new priority is a level, whatever the sleep average.
LEMMA NewProrityIsLevel ==
    ASSUME NEW d \in Int, NEW s \in Int
    PROVE  NewPrority(d, s) \in Level
<1>1. Quotient(s, PRORITY_NUM) \in Int
    BY ListsApart DEF Quotient
<1> QED
    BY <1>1, ListsApart DEF NewPrority, Level

\* Rewriting the lists of a run queue leaves its other fields alone.
LEMMA ListsRewritten ==
    ASSUME NEW T, NEW r \in RunQueue(T), NEW lists \in [Lists -> Seq(T)]
    PROVE  LET s == [r EXCEPT !.sched = lists]
           IN  s \in RunQueue(T) /\ s.sched = lists /\ SameFields(r, s)
<1>1. [r EXCEPT !.sched = lists] \in RunQueue(T)
    BY DEF RunQueue
<1>2. [r EXCEPT !.sched = lists].sched = lists
    BY DEF RunQueue
<1>3. SameFields(r, [r EXCEPT !.sched = lists])
    BY DEF RunQueue, SameFields
<1> QED
    BY <1>1, <1>2, <1>3

\* add_sched puts one more task on one list.
LEMMA AddSchedAdds ==
    ASSUME NEW T, NEW r, Sound(r, T), NEW t \in T
    PROVE  LET i == IF r.dyn[t] = -1 THEN IdleList ELSE r.dyn[t]
               s == AddSched(r, t)
           IN  /\ Sound(s, T) /\ SameFields(r, s)
               /\ \A j \in Lists : j # i => s.sched[j] = r.sched[j]
               /\ s.sched[i] = Append(r.sched[i], t)
               /\ Queued(s) = IF r.dyn[t] = -1 THEN Queued(r)
                              ELSE Queued(r) \cup {t}
<1> DEFINE i == IF r.dyn[t] = -1 THEN IdleList ELSE r.dyn[t]
           s == AddSched(r, t)
           lists == [r.sched EXCEPT ![i] = Append(r.sched[i], t)]
<1>0. r \in RunQueue(T) /\ r.sched \in [Lists -> Seq(T)]
    BY DEF Sound, RunQueue
<1>1. i \in Lists /\ (i = IdleList <=> r.dyn[t] = -1)
    BY ListsApart, <1>0 DEF Level, RunQueue
<1>2. s = [r EXCEPT !.sched = lists]
    BY DEF AddSched
<1> HIDE DEF i, s
<1>3. /\ Append(r.sched[i], t) \in Seq(T)
      /\ Range(Append(r.sched[i], t)) = Range(r.sched[i]) \cup {t}
    BY <1>0, <1>1, AppendQueue
<1>4. lists \in [Lists -> Seq(T)]
    BY <1>0, <1>1, <1>3
<1>5. /\ lists[i] = Append(r.sched[i], t)
      /\ \A j \in Lists : j # i => lists[j] = r.sched[j]
    BY <1>0, <1>1
<1> HIDE DEF lists
<1>6. s \in RunQueue(T) /\ s.sched = lists /\ SameFields(r, s)
    BY <1>0, <1>2, <1>4, ListsRewritten
<1>7. \A j \in Lists : Range(s.sched[j]) =
            IF j = i THEN Range(r.sched[j]) \cup {t} ELSE Range(r.sched[j])
    BY <1>3, <1>5, <1>6
<1>8. OnLevels(s)
    <2> SUFFICES ASSUME NEW j \in Lists, NEW u \in Range(s.sched[j])
                 PROVE  r.dyn[u] = IF j = IdleList THEN -1 ELSE j
        BY <1>6 DEF OnLevels, SameFields
    <2>1. CASE u \in Range(r.sched[j])
        BY <2>1 DEF Sound, OnLevels
    <2>2. CASE u \notin Range(r.sched[j])
        <3>1. j = i /\ u = t
            BY <1>7, <2>2
        <3> QED
            BY <3>1, <1>1 DEF i
    <2> QED
        BY <2>1, <2>2
<1>9. Queued(s) = IF r.dyn[t] = -1 THEN Queued(r) ELSE Queued(r) \cup {t}
    <2>1. CASE r.dyn[t] = -1
        <3>1. \A j \in Level : j # i
            BY <2>1, <1>1, ListsApart
        <3>2. \A j \in Level : Range(s.sched[j]) = Range(r.sched[j])
            BY <3>1, <1>7, ListsApart
        <3> QED
            BY <2>1, <3>2 DEF Queued
    <2>2. CASE r.dyn[t] # -1
        <3>1. i \in Level
            BY <2>2, <1>1, ListsApart
        <3>2. \A j \in Level : Range(s.sched[j]) =
                IF j = i THEN Range(r.sched[j]) \cup {t} ELSE Range(r.sched[j])
            BY <1>7, ListsApart
        <3>3. Queued(s) = Queued(r) \cup {t}
            BY <3>1, <3>2 DEF Queued
        <3> QED
            BY <2>2, <3>3
    <2> QED
        BY <2>1, <2>2
<1> QED
    BY <1>5, <1>6, <1>8, <1>9 DEF Sound, i, s

\* remove_sched takes one task away and leaves the other lists as they are.
LEMMA RemoveSchedRemoves ==
    ASSUME NEW T, NEW r, Sound(r, T), NEW t
    PROVE  LET s == RemoveSched(r, t)
           IN  /\ Sound(s, T) /\ SameFields(r, s)
               /\ \A j \in Lists :
                    /\ s.sched[j] = Without(r.sched[j], t)
                    /\ Range(s.sched[j]) = Range(r.sched[j]) \ {t}
                    /\ t \notin Range(r.sched[j]) => s.sched[j] = r.sched[j]
               /\ Queued(s) = Queued(r) \ {t}
<1> DEFINE s == RemoveSched(r, t)
           lists == [j \in Lists |-> Without(r.sched[j], t)]
<1>0. r \in RunQueue(T) /\ r.sched \in [Lists -> Seq(T)]
    BY DEF Sound, RunQueue
<1>1. s = [r EXCEPT !.sched = lists]
    BY DEF RemoveSched
<1> HIDE DEF s
<1>2. \A j \in Lists :
         /\ lists[j] = Without(r.sched[j], t)
         /\ lists[j] \in Seq(T)
         /\ Range(lists[j]) = Range(r.sched[j]) \ {t}
         /\ t \notin Range(r.sched[j]) => lists[j] = r.sched[j]
    BY <1>0, WithoutQueue
<1>3. lists \in [Lists -> Seq(T)]
    BY <1>2
<1> HIDE DEF lists
<1>4. s \in RunQueue(T) /\ s.sched = lists /\ SameFields(r, s)
    BY <1>0, <1>1, <1>3, ListsRewritten
<1>5. OnLevels(s)
    <2> SUFFICES ASSUME NEW j \in Lists, NEW u \in Range(s.sched[j])
                 PROVE  r.dyn[u] = IF j = IdleList THEN -1 ELSE j
        BY <1>4 DEF OnLevels, SameFields
    <2>1. u \in Range(r.sched[j])
        BY <1>2, <1>4
    <2> QED
        BY <2>1 DEF Sound, OnLevels
<1>6. Queued(s) = Queued(r) \ {t}
    <2>1. \A j \in Level : Range(s.sched[j]) = Range(r.sched[j]) \ {t}
        BY <1>2, <1>4, ListsApart
    <2> QED
        BY <2>1 DEF Queued
<1> QED
    BY <1>2, <1>4, <1>5, <1>6 DEF Sound, s

---------------------------------------------------------------------------
(* update_dynamic_prority.                                                 *)

\* The slice of a level is a positive number of ticks.
LEMMA SchedTimePositive ==
    ASSUME NEW i \in Level PROVE SchedTime(i) \in Nat \ {0}
BY ListsApart DEF SchedTime, Level

\* The priorities after the sweep: a task that is adjusted gets a level, any
\* other keeps its priority.
LEMMA DynAfterIsLevel ==
    ASSUME NEW T, NEW r, Sound(r, T), NEW cur \in T
    PROVE  /\ \A t \in T : /\ SleepAfter(r, cur, t) \in Int
                           /\ DynAfter(r, cur, t) \in -1..PRORITY_NUM-1
           /\ \A t \in Queued(r) : /\ DynAfter(r, cur, t) \in Level
                                   /\ LevelAfter(r, cur, t) = DynAfter(r, cur, t)
<1>1. /\ r.dyn \in [T -> -1..PRORITY_NUM-1] /\ r.sleep \in [T -> Int]
      /\ \A t \in T : r.dyn[t] \in Int
    BY ListsApart DEF Sound, RunQueue
<1>2. \A t \in T : SleepAfter(r, cur, t) \in Int
    BY <1>1 DEF SleepAfter, SchedTime
<1>3. \A t \in Queued(r) : t \in T /\ r.dyn[t] \in Level /\ LevelOf(r, t) = r.dyn[t]
    BY QueuedOnLevel
<1>4. \A t \in T : t \in Adjusted(r, cur) => DynAfter(r, cur, t) \in Level
    BY <1>1, <1>2, NewProrityIsLevel DEF DynAfter
<1>5. \A t \in T : t \notin Adjusted(r, cur) => DynAfter(r, cur, t) = r.dyn[t]
    BY DEF DynAfter
<1>6. Level \subseteq -1..PRORITY_NUM-1
    BY ListsApart DEF Level
<1>7. \A t \in T : DynAfter(r, cur, t) \in -1..PRORITY_NUM-1
    BY <1>1, <1>4, <1>5, <1>6
<1>8. \A t \in Queued(r) : DynAfter(r, cur, t) \in Level
    BY <1>3, <1>4, <1>5
<1>9. \A t \in Queued(r) : LevelAfter(r, cur, t) = DynAfter(r, cur, t)
    BY <1>3, <1>5 DEF LevelAfter, Adjusted
<1> QED
    BY <1>2, <1>7, <1>8, <1>9

\* The order of a level after the sweep is well defined: no two tasks have
\* the same key.
LEMMA SweepOrders ==
    ASSUME NEW T, NEW r, Sound(r, T), NEW cur \in T, NEW j \in Level
    PROVE  Orders(SweepOrder(r, cur, j), Queued(r))
<1> DEFINE lev(t) == r.dyn[t]
           place(t) == Place(r.sched[r.dyn[t]])[t]
           key == SweepOrder(r, cur, j)
<1>1. \A t \in Queued(r) :
         /\ lev(t) \in Level /\ LevelOf(r, t) = lev(t)
         /\ r.sched[lev(t)] \in Seq(T)
         /\ t \in Range(r.sched[lev(t)])
    BY QueuedOnLevel, ListsApart
<1>2. \A t \in Queued(r) :
         place(t) \in Int /\ r.sched[lev(t)][place(t)] = t
    BY <1>1, PlaceIsIndex
<1>3. \A t \in Queued(r) : lev(t) \in Int /\ lev(t) >= 0
    BY <1>1, ListsApart DEF Level
<1> DEFINE major(t) == IF t = cur THEN -2 ELSE IF lev(t) = j THEN -1 ELSE lev(t)
           minor(t) == IF t = cur THEN 0 ELSE place(t)
<1>4. \A t \in Queued(r) : key[t] = <<major(t), minor(t)>>
    BY <1>1 DEF SweepOrder
<1> HIDE DEF lev, place, key
<1>5. \A t \in Queued(r) : major(t) \in Int /\ minor(t) \in Int
    BY <1>2, <1>3
<1>6. ASSUME NEW t \in Queued(r), NEW u \in Queued(r), key[t] = key[u]
      PROVE  t = u
    <2>1. major(t) = major(u) /\ minor(t) = minor(u)
        <3> HIDE DEF major, minor
        <3> QED
            BY <1>4, <1>6
    <2>2. CASE t = cur \/ u = cur
        BY <2>1, <2>2, <1>3
    <2>3. CASE t # cur /\ u # cur
        <3>1. place(t) = place(u)
            BY <2>1, <2>3
        <3>2. lev(t) = lev(u)
            BY <2>1, <2>3, <1>3
        <3> QED
            BY <3>1, <3>2, <1>2
    <2> QED
        BY <2>2, <2>3
<1>7. \A t \in Queued(r) : key[t] \in Int \X Int
    <2> HIDE DEF major, minor
    <2> QED
        BY <1>4, <1>5
<1> QED
    BY <1>6, <1>7 DEF Orders, key

\* update_dynamic_prority loses, doubles and misplaces nobody: the same tasks
\* are queued, each on the level of its new priority, and each one that was
\* adjusted has the slice of that level.
LEMMA SweepIsSound ==
    ASSUME NEW T, IsFiniteSet(T), NEW r, Sound(r, T), NEW cur \in T
    PROVE  LET s == UpdateDynamicPrority(r, cur)
           IN  /\ Sound(s, T)
               /\ Queued(s) = Queued(r)
               /\ s.sched[IdleList] = r.sched[IdleList]
               /\ s.changed = r.changed \cup Adjusted(r, cur)
               /\ \A t \in Adjusted(r, cur) : s.counter[t] = SchedTime(s.dyn[t])
               /\ \A t \in T \ Adjusted(r, cur) :
                    s.counter[t] = r.counter[t] /\ s.dyn[t] = r.dyn[t]
<1> DEFINE s == UpdateDynamicPrority(r, cur)
           on(j) == {t \in Queued(r) : LevelAfter(r, cur, t) = j}
<1>0. /\ r.sched \in [Lists -> Seq(T)] /\ DOMAIN r.dyn = T
      /\ DOMAIN r.counter = T /\ DOMAIN r.sleep = T
      /\ r.counter \in [T -> Nat] /\ r.changed \in SUBSET T
    BY DEF Sound, RunQueue
<1>1. Queued(r) \subseteq T /\ IsFiniteSet(Queued(r))
    BY QueuedOnLevel, FS_Subset
<1>2. ASSUME NEW j \in Level
      PROVE  s.sched[j] \in Seq(T) /\ Range(s.sched[j]) = on(j)
    <2> DEFINE key == SweepOrder(r, cur, j)
    <2>1. on(j) \in SUBSET Queued(r) /\ IsFiniteSet(on(j))
        BY <1>1, FS_Subset
    <2>2. Orders(key, on(j))
        BY <2>1, SweepOrders DEF Orders
    <2>3. s.sched[j] = Arrange(on(j), key)
        BY ListsApart DEF UpdateDynamicPrority
    <2> HIDE DEF s, on, key
    <2>4. s.sched[j] \in Seq(on(j)) /\ Range(s.sched[j]) = on(j)
        BY <2>1, <2>2, <2>3, ArrangeEnumerates
    <2> QED
        BY <2>1, <2>4, <1>1
<1>3. /\ s.sched[IdleList] = r.sched[IdleList]
      /\ s.sched = [j \in Lists |-> s.sched[j]]
      /\ s.dyn = [t \in T |-> DynAfter(r, cur, t)]
      /\ s.counter = [t \in T |-> IF t \in Adjusted(r, cur)
                                  THEN SchedTime(DynAfter(r, cur, t))
                                  ELSE r.counter[t]]
      /\ s.sleep = [t \in T |-> SleepAfter(r, cur, t)]
      /\ s.changed = r.changed \cup Adjusted(r, cur)
      /\ s = [sched |-> s.sched, dyn |-> s.dyn, counter |-> s.counter,
              sleep |-> s.sleep, changed |-> s.changed]
    BY <1>0, ListsApart DEF UpdateDynamicPrority
<1> HIDE DEF s
<1>4. /\ \A t \in T : /\ SleepAfter(r, cur, t) \in Int
                      /\ DynAfter(r, cur, t) \in -1..PRORITY_NUM-1
      /\ \A t \in Queued(r) : /\ DynAfter(r, cur, t) \in Level
                              /\ LevelAfter(r, cur, t) = DynAfter(r, cur, t)
    BY DynAfterIsLevel
<1>5. Adjusted(r, cur) \subseteq Queued(r)
    BY DEF Adjusted
<1>6. s \in RunQueue(T)
    <2>1. s.sched \in [Lists -> Seq(T)]
        <3>1. \A j \in Lists : s.sched[j] \in Seq(T)
            BY <1>0, <1>2, <1>3, ListsApart
        <3> QED
            BY <3>1, <1>3
    <2>2. s.counter \in [T -> Nat]
        BY <1>0, <1>3, <1>4, <1>5, SchedTimePositive
    <2>3. /\ s.dyn \in [T -> -1..PRORITY_NUM-1] /\ s.sleep \in [T -> Int]
          /\ s.changed \in SUBSET T
        BY <1>0, <1>1, <1>3, <1>4, <1>5
    <2> QED
        BY <2>1, <2>2, <2>3, <1>3 DEF RunQueue
<1>7. \A t \in T : t \notin Adjusted(r, cur) => s.dyn[t] = r.dyn[t]
    BY <1>3 DEF DynAfter
<1>8. OnLevels(s)
    <2> SUFFICES ASSUME NEW j \in Lists, NEW t \in Range(s.sched[j])
                 PROVE  s.dyn[t] = IF j = IdleList THEN -1 ELSE j
        BY DEF OnLevels
    <2>1. CASE j = IdleList
        <3>1. t \in T /\ r.dyn[t] = -1
            BY <2>1, <1>0, <1>3, RangeOfQueue DEF Sound, OnLevels
        <3>2. t \notin Queued(r)
            BY <3>1, QueuedOnLevel DEF Level
        <3> QED
            BY <2>1, <3>1, <3>2, <1>5, <1>7
    <2>2. CASE j \in Level
        <3>1. t \in Queued(r) /\ DynAfter(r, cur, t) = j
            BY <2>2, <1>2, <1>4
        <3> QED
            BY <2>2, <3>1, <1>1, <1>3, ListsApart
    <2> QED
        BY <2>1, <2>2, ListsApart
<1>9. Queued(s) = Queued(r)
    <2>1. Queued(s) = UNION {Range(s.sched[j]) : j \in Level}
        BY DEF Queued
    <2>2. \A t \in Queued(r) : LevelAfter(r, cur, t) \in Level
        BY <1>4
    <2> QED
        BY <2>1, <2>2, <1>2
<1>10. Adjusted(r, cur) \subseteq T
    BY <1>1 DEF Adjusted
<1> QED
    BY <1>3, <1>6, <1>7, <1>8, <1>9, <1>10 DEF Sound, s

---------------------------------------------------------------------------
(* update_is_changed, update_pro_map and find_next_task.                   *)

\* update_is_changed touches nothing but the flags.
LEMMA FlagsCleared ==
    ASSUME NEW T, NEW r, Sound(r, T), NEW q
    PROVE  LET s == UpdateIsChanged(r, q)
           IN  /\ Sound(s, T)
               /\ s.sched = r.sched /\ s.dyn = r.dyn
               /\ s.counter = r.counter /\ s.sleep = r.sleep
               /\ s.changed = r.changed \ Range(q)
               /\ Queued(s) = Queued(r)
<1> DEFINE s == UpdateIsChanged(r, q)
<1>1. r \in RunQueue(T) /\ OnLevels(r)
    BY DEF Sound
<1>2. s \in RunQueue(T)
    BY <1>1 DEF UpdateIsChanged, RunQueue
<1>3. /\ s.sched = r.sched /\ s.dyn = r.dyn
      /\ s.counter = r.counter /\ s.sleep = r.sleep
      /\ s.changed = r.changed \ Range(q)
    BY <1>1 DEF UpdateIsChanged, RunQueue
<1> HIDE DEF s
<1>4. OnLevels(s)
    BY <1>1, <1>3 DEF OnLevels
<1>5. Queued(s) = Queued(r)
    BY <1>3 DEF Queued
<1> QED
    BY <1>2, <1>3, <1>4, <1>5 DEF Sound, s

\* The bitmap that update_pro_map builds holds levels only.
LEMMA ProMapLevels ==
    ASSUME NEW T, NEW r, Sound(r, T)
    PROVE  ProMap(r) \subseteq Level
<1> SUFFICES ASSUME NEW i \in Level, r.sched[i] # <<>>
             PROVE  r.dyn[Head(r.sched[i])] \in Level
    BY DEF ProMap
<1>1. Head(r.sched[i]) \in Range(r.sched[i])
    BY QueuedOnLevel, ListsApart, HeadOfQueue
<1> QED
    BY <1>1, ListsApart DEF Sound, OnLevels

\* A run queue in which t has another priority, slice and set of flags.
Rewritten(r, t, d, c, flags) ==
    [r EXCEPT !.dyn[t] = d, !.counter[t] = c, !.changed = flags]

\* A new priority and slice for a task that is on no list.
LEMMA OffListRewritten ==
    ASSUME NEW T, NEW r, Sound(r, T), NEW t \in T,
           \A i \in Lists : t \notin Range(r.sched[i]),
           NEW d \in -1..PRORITY_NUM-1, NEW c \in Nat, NEW flags \in SUBSET T
    PROVE  LET s == Rewritten(r, t, d, c, flags)
           IN  /\ Sound(s, T)
               /\ s.sched = r.sched /\ Queued(s) = Queued(r)
               /\ s.dyn[t] = d /\ s.counter[t] = c /\ s.changed = flags
               /\ \A u \in T : u # t => /\ s.dyn[u] = r.dyn[u]
                                        /\ s.counter[u] = r.counter[u]
<1> DEFINE s == Rewritten(r, t, d, c, flags)
<1>1. r \in RunQueue(T) /\ OnLevels(r)
    BY DEF Sound
<1>2. s \in RunQueue(T)
    BY <1>1 DEF RunQueue, Rewritten
<1>3. /\ s.sched = r.sched /\ s.changed = flags
      /\ s.dyn = [r.dyn EXCEPT ![t] = d]
      /\ s.counter = [r.counter EXCEPT ![t] = c]
    BY <1>1 DEF RunQueue, Rewritten
<1> HIDE DEF s
<1>4. r.dyn \in [T -> -1..PRORITY_NUM-1] /\ r.counter \in [T -> Nat]
    BY <1>1 DEF RunQueue
<1>5. /\ s.dyn[t] = d /\ s.counter[t] = c
      /\ \A u \in T : u # t => /\ s.dyn[u] = r.dyn[u]
                               /\ s.counter[u] = r.counter[u]
    BY <1>3, <1>4
<1>6. OnLevels(s)
    <2> SUFFICES ASSUME NEW i \in Lists, NEW u \in Range(r.sched[i])
                 PROVE  s.dyn[u] = IF i = IdleList THEN -1 ELSE i
        BY <1>3 DEF OnLevels
    <2>1. u # t /\ u \in T
        BY QueuedOnLevel, RangeOfQueue
    <2> QED
        BY <2>1, <1>1, <1>5 DEF OnLevels
<1>7. Queued(s) = Queued(r)
    BY <1>3 DEF Queued
<1> QED
    BY <1>2, <1>3, <1>5, <1>6, <1>7 DEF Sound, s

\* find_next_task puts the running task back on a level, with a full slice
\* unless it was adjusted before.
LEMMA RequeueIsSound ==
    ASSUME NEW T, NEW r, Sound(r, T), NEW cur \in Queued(r)
    PROVE  LET s == RequeueCurrent(r, cur)
           IN  /\ Sound(s, T)
               /\ Queued(s) = Queued(r)
               /\ s.sched[IdleList] = r.sched[IdleList]
               /\ s.changed = r.changed \cup {cur}
               /\ cur \notin r.changed => s.counter[cur] = SchedTime(s.dyn[cur])
               /\ \A t \in T : t # cur => /\ s.dyn[t] = r.dyn[t]
                                          /\ s.counter[t] = r.counter[t]
<1> DEFINE off == RemoveSched(r, cur)
           p == NewPrority(off.dyn[cur], off.sleep[cur])
           slice == SchedTime(p)
           flags == off.changed \cup {cur}
           new == Rewritten(off, cur, p, slice, flags)
           mid == IF cur \in off.changed THEN off ELSE new
           s == AddSched(mid, cur)
<1>0. s = RequeueCurrent(r, cur)
    BY DEF RequeueCurrent, Rewritten
<1>1. /\ cur \in T /\ r.dyn[cur] \in Level
      /\ \A i \in Lists : r.sched[i] \in Seq(T)
    BY QueuedOnLevel
<1>2. /\ Sound(off, T) /\ SameFields(r, off)
      /\ \A i \in Lists : cur \notin Range(off.sched[i])
      /\ off.sched[IdleList] = r.sched[IdleList]
      /\ Queued(off) = Queued(r) \ {cur}
    <2>1. cur \notin Range(r.sched[IdleList])
        BY <1>1, ListsApart DEF Sound, OnLevels, Level
    <2>2. /\ Sound(off, T) /\ SameFields(r, off)
          /\ Queued(off) = Queued(r) \ {cur}
          /\ \A i \in Lists :
                /\ Range(off.sched[i]) = Range(r.sched[i]) \ {cur}
                /\ cur \notin Range(r.sched[i]) => off.sched[i] = r.sched[i]
        BY RemoveSchedRemoves
    <2> HIDE DEF off
    <2> QED
        BY <2>1, <2>2, ListsApart
<1> HIDE DEF off
<1>3. /\ r.dyn[cur] \in Int /\ r.sleep[cur] \in Int /\ r.changed \in SUBSET T
      /\ off.changed = r.changed
    BY <1>1, <1>2, ListsApart DEF Sound, RunQueue, Level, SameFields
<1>4. p \in Level
    BY <1>2, <1>3, NewProrityIsLevel DEF SameFields
<1>5. /\ p \in -1..PRORITY_NUM-1 /\ slice \in Nat
      /\ p # -1 /\ r.dyn[cur] # -1
    BY <1>1, <1>4, SchedTimePositive, ListsApart DEF Level
<1>6. flags \in SUBSET T
    BY <1>1, <1>3
<1> HIDE DEF p, slice, flags
<1>7. /\ Sound(new, T) /\ new.sched = off.sched /\ Queued(new) = Queued(off)
      /\ new.dyn[cur] = p /\ new.counter[cur] = slice /\ new.changed = flags
      /\ \A t \in T : t # cur => /\ new.dyn[t] = off.dyn[t]
                                 /\ new.counter[t] = off.counter[t]
    BY <1>1, <1>2, <1>5, <1>6, OffListRewritten
<1> HIDE DEF new
<1>8. /\ Sound(mid, T) /\ mid.sched = off.sched /\ Queued(mid) = Queued(off)
      /\ mid.dyn[cur] # -1 /\ mid.dyn[cur] # IdleList
      /\ mid.changed = r.changed \cup {cur}
      /\ cur \notin r.changed => mid.counter[cur] = SchedTime(mid.dyn[cur])
      /\ \A t \in T : t # cur => /\ mid.dyn[t] = r.dyn[t]
                                 /\ mid.counter[t] = r.counter[t]
    BY <1>1, <1>2, <1>3, <1>4, <1>5, <1>7, ListsApart
       DEF SameFields, slice, flags
<1> HIDE DEF mid
<1>9. /\ Sound(s, T) /\ SameFields(mid, s)
      /\ s.sched[IdleList] = mid.sched[IdleList]
      /\ Queued(s) = Queued(mid) \cup {cur}
    BY <1>1, <1>8, AddSchedAdds, ListsApart
<1> HIDE DEF s
<1>10. Queued(s) = Queued(r)
    BY <1>2, <1>8, <1>9
<1> QED
    BY <1>0, <1>2, <1>8, <1>9, <1>10 DEF SameFields

\* A set of levels that is not empty has a highest one.
LEMMA HighestLevel ==
    ASSUME NEW map \in SUBSET Level, map # {}
    PROVE  \E i \in map : \A j \in map : j <= i
<1>1. IsFiniteSet(Level) /\ Level \subseteq Int
    BY FS_Interval, ListsApart DEF Level
<1>2. IsFiniteSet(map) /\ map \in SUBSET Int
    BY <1>1, FS_Subset
<1> QED
    BY <1>2, LeastAndGreatest

\* find_in_pro_map finds a queued task when a bit is set, or runs into an
\* empty list.
LEMMA FoundIsQueued ==
    ASSUME NEW T, NEW r, Sound(r, T), NEW map \in SUBSET Level, NEW none
    PROVE  LET f == FindInProMap(r, map, none)
           IN  \/ f = Head(r.sched[IdleList])
               \/ f = none
               \/ f \in Queued(r)
<1>1. CASE map = {}
    BY <1>1 DEF FindInProMap
<1>2. CASE map # {}
    <2> DEFINE i == CHOOSE i \in map : \A j \in map : j <= i
    <2>1. i \in Level
        BY <1>2, HighestLevel
    <2>2. r.sched[i] \in Seq(T) /\ Range(r.sched[i]) \subseteq Queued(r)
        BY <2>1, QueuedOnLevel, ListsApart
    <2>3. FindInProMap(r, map, none) =
            IF r.sched[i] = <<>> THEN none ELSE Head(r.sched[i])
        BY <1>2 DEF FindInProMap
    <2> HIDE DEF i
    <2> QED
        BY <2>2, <2>3, HeadOfQueue
<1> QED
    BY <1>1, <1>2

\* The sweep gives a full slice to every queued task but the running one when
\* no flag was set before.
LEMMA SweepFillsSlices ==
    ASSUME NEW T, IsFiniteSet(T), NEW r, Sound(r, T), NEW cur \in T,
           r.changed \subseteq {}
    PROVE  LET s == UpdateDynamicPrority(r, cur)
           IN  /\ Sound(s, T)
               /\ Queued(s) = Queued(r)
               /\ s.sched[IdleList] = r.sched[IdleList]
               /\ s.changed = Queued(r) \ {cur}
               /\ \A t \in Queued(r) :
                    t # cur => s.counter[t] = SchedTime(s.dyn[t])
               /\ \A t \in T : t \notin Queued(r) \/ t = cur =>
                    s.counter[t] = r.counter[t] /\ s.dyn[t] = r.dyn[t]
<1> DEFINE s == UpdateDynamicPrority(r, cur)
<1>1. Adjusted(r, cur) = Queued(r) \ {cur}
    BY DEF Adjusted
<1>2. Queued(r) \subseteq T
    BY QueuedOnLevel
<1>3. /\ Sound(s, T)
      /\ Queued(s) = Queued(r)
      /\ s.sched[IdleList] = r.sched[IdleList]
      /\ s.changed = r.changed \cup Adjusted(r, cur)
      /\ \A t \in Adjusted(r, cur) : s.counter[t] = SchedTime(s.dyn[t])
      /\ \A t \in T \ Adjusted(r, cur) :
           s.counter[t] = r.counter[t] /\ s.dyn[t] = r.dyn[t]
    BY SweepIsSound
<1> HIDE DEF s
<1> QED
    BY <1>1, <1>2, <1>3 DEF s

\* find_next_task for a priority task: the idle task is next, and every task
\* of the list q has its flag cleared.
LEMMA NextAfterQueued ==
    ASSUME NEW T, NEW r, Sound(r, T), NEW cur \in Queued(r),
           cur \notin r.changed, NEW map, NEW q, NEW none
    PROVE  LET f == FindNextTask(r, cur, map, q, none)
           IN  /\ f.next = Head(r.sched[IdleList])
               /\ f.map \subseteq Level
               /\ Sound(f.rq, T)
               /\ Queued(f.rq) = Queued(r)
               /\ f.rq.sched[IdleList] = r.sched[IdleList]
               /\ f.rq.changed = (r.changed \cup {cur}) \ Range(q)
               /\ f.rq.counter[cur] = SchedTime(f.rq.dyn[cur])
               /\ \A t \in T : t # cur => /\ f.rq.dyn[t] = r.dyn[t]
                                          /\ f.rq.counter[t] = r.counter[t]
<1> DEFINE f == FindNextTask(r, cur, map, q, none)
           s == RequeueCurrent(r, cur)
           u == UpdateIsChanged(s, q)
<1>1. /\ cur \in T /\ r.dyn[cur] \in Level /\ r.dyn[cur] # -1
      /\ r.sched[IdleList] \in Seq(T)
    BY QueuedOnLevel, ListsApart DEF Level
<1>2. cur \notin Range(r.sched[IdleList])
    BY <1>1, ListsApart DEF Sound, OnLevels
<1>3. ~LastOfIdleList(r, cur)
    <2> DEFINE l == r.sched[IdleList]
    <2>1. l # <<>> => Len(l) \in DOMAIN l
        BY <1>1
    <2> QED
        BY <1>2, <2>1 DEF LastOfIdleList, Range
<1>4. f = [next |-> Head(s.sched[IdleList]), rq |-> u, map |-> ProMap(s)]
    BY <1>1, <1>3 DEF FindNextTask
<1>5. f.next = Head(s.sched[IdleList]) /\ f.rq = u /\ f.map = ProMap(s)
    BY <1>4
<1> HIDE DEF f, s, u
<1>6. /\ Sound(s, T)
      /\ Queued(s) = Queued(r)
      /\ s.sched[IdleList] = r.sched[IdleList]
      /\ s.changed = r.changed \cup {cur}
      /\ cur \notin r.changed => s.counter[cur] = SchedTime(s.dyn[cur])
      /\ \A t \in T : t # cur => /\ s.dyn[t] = r.dyn[t]
                                 /\ s.counter[t] = r.counter[t]
    BY RequeueIsSound DEF s
<1>7. /\ Sound(u, T)
      /\ u.sched = s.sched /\ u.dyn = s.dyn /\ u.counter = s.counter
      /\ u.changed = s.changed \ Range(q)
      /\ Queued(u) = Queued(s)
    BY <1>6, FlagsCleared DEF u
<1>8. ProMap(s) \subseteq Level
    BY <1>6, ProMapLevels
<1> QED
    BY <1>5, <1>6, <1>7, <1>8 DEF f

\* The sweep and the clearing of the flags that follows it in task_exit and
\* wait_pid.
LEMMA SweepThenClear ==
    ASSUME NEW T, IsFiniteSet(T), NEW r, Sound(r, T), NEW cur \in T,
           r.changed \subseteq {}, NEW q, Queued(r) \subseteq Range(q)
    PROVE  LET s == UpdateIsChanged(UpdateDynamicPrority(r, cur), q)
           IN  /\ Sound(s, T)
               /\ Queued(s) = Queued(r)
               /\ s.sched[IdleList] = r.sched[IdleList]
               /\ s.changed \subseteq {}
               /\ \A t \in Queued(r) :
                    t # cur => s.counter[t] = SchedTime(s.dyn[t])
               /\ \A t \in T : t \notin Queued(r) \/ t = cur =>
                    s.counter[t] = r.counter[t] /\ s.dyn[t] = r.dyn[t]
<1> DEFINE u == UpdateDynamicPrority(r, cur)
           s == UpdateIsChanged(u, q)
<1>1. /\ Sound(u, T)
      /\ Queued(u) = Queued(r)
      /\ u.sched[IdleList] = r.sched[IdleList]
      /\ u.changed = Queued(r) \ {cur}
      /\ \A t \in Queued(r) : t # cur => u.counter[t] = SchedTime(u.dyn[t])
      /\ \A t \in T : t \notin Queued(r) \/ t = cur =>
            u.counter[t] = r.counter[t] /\ u.dyn[t] = r.dyn[t]
    BY SweepFillsSlices
<1> HIDE DEF u
<1>2. /\ Sound(s, T)
      /\ s.sched = u.sched /\ s.dyn = u.dyn /\ s.counter = u.counter
      /\ s.changed = u.changed \ Range(q)
      /\ Queued(s) = Queued(u)
    BY <1>1, FlagsCleared
<1> HIDE DEF s
<1> QED
    BY <1>1, <1>2 DEF s, u

---------------------------------------------------------------------------
(* Nobody is on a list twice, and the bitmap tells the levels in use.      *)

\* No list of the run queue r has a task twice.
Once(r) == \A i \in Lists : IsInjective(r.sched[i])

\* The levels of the run queue r that have a task.
InUse(r) == {i \in Level : r.sched[i] # <<>>}

LEMMA SweepOnce ==
    ASSUME NEW T, IsFiniteSet(T), NEW r, Sound(r, T), Once(r), NEW cur \in T
    PROVE  Once(UpdateDynamicPrority(r, cur))
<1> DEFINE s == UpdateDynamicPrority(r, cur)
           on(j) == {t \in Queued(r) : LevelAfter(r, cur, t) = j}
<1>1. IsFiniteSet(Queued(r))
    BY QueuedOnLevel, FS_Subset
<1>2. ASSUME NEW j \in Level
      PROVE  IsInjective(s.sched[j])
    <2> DEFINE key == SweepOrder(r, cur, j)
    <2>1. on(j) \in SUBSET Queued(r) /\ IsFiniteSet(on(j))
        BY <1>1, FS_Subset
    <2>2. Orders(key, on(j))
        BY <2>1, SweepOrders DEF Orders
    <2>3. s.sched[j] = Arrange(on(j), key)
        BY ListsApart DEF UpdateDynamicPrority
    <2> HIDE DEF s, on, key
    <2> QED
        BY <2>1, <2>2, <2>3, ArrangeEnumerates
<1>3. s.sched[IdleList] = r.sched[IdleList]
    BY SweepIsSound
<1> HIDE DEF s
<1> QED
    BY <1>2, <1>3, ListsApart DEF Once, s

LEMMA AddSchedOnce ==
    ASSUME NEW T, NEW r, Sound(r, T), Once(r), NEW t \in T,
           \A i \in Lists : t \notin Range(r.sched[i])
    PROVE  Once(AddSched(r, t))
<1> DEFINE i == IF r.dyn[t] = -1 THEN IdleList ELSE r.dyn[t]
           s == AddSched(r, t)
<1>1. /\ \A j \in Lists : j # i => s.sched[j] = r.sched[j]
      /\ s.sched[i] = Append(r.sched[i], t)
    BY AddSchedAdds, SMTT(40)
<1>2. \A j \in Lists : r.sched[j] \in Seq(T)
    BY QueuedOnLevel
<1> HIDE DEF i, s
<1> SUFFICES ASSUME NEW j \in Lists
             PROVE  IsInjective(s.sched[j])
    BY DEF Once, s
<1>3. r.sched[j] \in Seq(T) /\ IsInjective(r.sched[j]) /\ t \notin Range(r.sched[j])
    BY <1>2 DEF Once
<1>4. IsInjective(Append(r.sched[j], t))
    BY <1>3, AppendOnce
<1> QED
    BY <1>1, <1>3, <1>4

LEMMA RemoveSchedOnce ==
    ASSUME NEW T, NEW r, Sound(r, T), Once(r), NEW t
    PROVE  Once(RemoveSched(r, t))
<1> DEFINE s == RemoveSched(r, t)
<1>1. \A j \in Lists : s.sched[j] = Without(r.sched[j], t)
    BY RemoveSchedRemoves
<1> HIDE DEF s
<1> SUFFICES ASSUME NEW j \in Lists
             PROVE  IsInjective(s.sched[j])
    BY DEF Once, s
<1>2. r.sched[j] \in Seq(T) /\ IsInjective(r.sched[j])
    BY QueuedOnLevel DEF Once
<1> QED
    BY <1>1, <1>2, WithoutOnce

\* The flags have no influence on the lists.
LEMMA SameListsOnce ==
    ASSUME NEW r, NEW s, s.sched = r.sched
    PROVE  (Once(s) <=> Once(r)) /\ InUse(s) = InUse(r)
BY DEF Once, InUse

LEMMA RequeueOnce ==
    ASSUME NEW T, NEW r, Sound(r, T), Once(r), NEW cur \in Queued(r)
    PROVE  Once(RequeueCurrent(r, cur))
<1> DEFINE off == RemoveSched(r, cur)
           p == NewPrority(off.dyn[cur], off.sleep[cur])
           slice == SchedTime(p)
           flags == off.changed \cup {cur}
           new == Rewritten(off, cur, p, slice, flags)
           mid == IF cur \in off.changed THEN off ELSE new
<1>0. AddSched(mid, cur) = RequeueCurrent(r, cur)
    BY DEF RequeueCurrent, Rewritten
<1>1. /\ cur \in T /\ r.dyn[cur] \in Level /\ r.dyn[cur] \in Int
      /\ r.sleep[cur] \in Int /\ r.changed \in SUBSET T
    <2>1. cur \in T /\ r.dyn[cur] \in Level
        BY QueuedOnLevel
    <2>2. r.dyn[cur] \in Int
        BY <2>1, ListsApart DEF Level
    <2>3. r.sleep[cur] \in Int /\ r.changed \in SUBSET T
        BY <2>1 DEF Sound, RunQueue
    <2> QED
        BY <2>1, <2>2, <2>3
<1>2. /\ Sound(off, T) /\ SameFields(r, off) /\ Once(off)
      /\ \A i \in Lists : cur \notin Range(off.sched[i])
    BY RemoveSchedRemoves, RemoveSchedOnce
<1> HIDE DEF off
<1>3. p \in Level
    BY <1>1, <1>2, NewProrityIsLevel DEF SameFields
<1>4. p \in -1..PRORITY_NUM-1 /\ slice \in Nat /\ flags \in SUBSET T
    BY <1>1, <1>2, <1>3, SchedTimePositive, ListsApart DEF Level, SameFields
<1> HIDE DEF p, slice, flags
<1>5. Sound(new, T) /\ new.sched = off.sched
    BY <1>1, <1>2, <1>4, OffListRewritten
<1> HIDE DEF new
<1>6. Sound(mid, T) /\ mid.sched = off.sched
    BY <1>2, <1>5
<1> HIDE DEF mid
<1>7. Once(mid) /\ \A i \in Lists : cur \notin Range(mid.sched[i])
    BY <1>2, <1>6, SameListsOnce
<1> QED
    BY <1>0, <1>1, <1>6, <1>7, AddSchedOnce

\* update_pro_map sets the bits of the levels in use and no other.
LEMMA ProMapIsInUse ==
    ASSUME NEW T, NEW r, Sound(r, T)
    PROVE  ProMap(r) = InUse(r)
<1>1. ASSUME NEW i \in Level, r.sched[i] # <<>>
      PROVE  r.dyn[Head(r.sched[i])] = i
    <2>1. Head(r.sched[i]) \in Range(r.sched[i])
        BY <1>1, QueuedOnLevel, ListsApart, HeadOfQueue
    <2> QED
        BY <2>1, ListsApart DEF Sound, OnLevels
<1> QED
    BY <1>1 DEF ProMap, InUse

\* The level of a queued task is in use.
LEMMA LevelInUse ==
    ASSUME NEW T, NEW r, Sound(r, T), NEW t \in Queued(r)
    PROVE  r.dyn[t] \in InUse(r) /\ r.dyn[t] \in Level
<1>1. r.dyn[t] \in Level /\ t \in Range(r.sched[r.dyn[t]])
    BY QueuedOnLevel
<1>2. Range(<<>>) = {}
    BY DEF Range
<1> QED
    BY <1>1, <1>2 DEF InUse

\* When every bit is that of a level in use, find_in_pro_map finds the first
\* task of the highest level that has one.
LEMMA FoundIsFirst ==
    ASSUME NEW T, NEW r, Sound(r, T), NEW none, NEW map, map \subseteq InUse(r), map # {}
    PROVE  LET f == FindInProMap(r, map, none)
           IN  /\ f \in Queued(r) /\ r.dyn[f] \in map
               /\ f = Head(r.sched[r.dyn[f]])
               /\ \A j \in map : j <= r.dyn[f]
<1> DEFINE f == FindInProMap(r, map, none)
           i == CHOOSE i \in map : \A j \in map : j <= i
<1>1. map \in SUBSET Level
    BY DEF InUse
<1>2. i \in map /\ \A j \in map : j <= i
    BY <1>1, HighestLevel
<1>3. f = IF r.sched[i] = <<>> THEN none ELSE Head(r.sched[i])
    BY DEF FindInProMap
<1> HIDE DEF f, i
<1>4. i \in Level /\ r.sched[i] # <<>>
    BY <1>2 DEF InUse
<1>5. r.sched[i] \in Seq(T) /\ Range(r.sched[i]) \subseteq Queued(r)
    BY <1>4, QueuedOnLevel, ListsApart
<1>6. f = Head(r.sched[i]) /\ f \in Range(r.sched[i]) /\ f \in Queued(r)
    BY <1>3, <1>4, <1>5, HeadOfQueue
<1>7. r.dyn[f] = i
    BY <1>4, <1>6, ListsApart DEF Sound, OnLevels
<1> QED
    BY <1>2, <1>6, <1>7 DEF f

\* find_next_task for a priority task leaves nobody twice on a list and an
\* exact bitmap.
LEMMA NextKeepsOnce ==
    ASSUME NEW T, NEW r, Sound(r, T), NEW cur \in Queued(r),
           NEW map, NEW q, NEW none
    PROVE  LET f == FindNextTask(r, cur, map, q, none)
           IN  /\ f.map = InUse(f.rq)
               /\ Once(r) => Once(f.rq)
<1> DEFINE f == FindNextTask(r, cur, map, q, none)
           s == RequeueCurrent(r, cur)
           u == UpdateIsChanged(s, q)
<1>1. /\ r.dyn[cur] \in Level /\ r.dyn[cur] # -1
      /\ r.sched[IdleList] \in Seq(T)
    BY QueuedOnLevel, ListsApart DEF Level
<1>2. cur \notin Range(r.sched[IdleList])
    BY <1>1, ListsApart DEF Sound, OnLevels
<1>3. ~LastOfIdleList(r, cur)
    <2> DEFINE l == r.sched[IdleList]
    <2>1. l # <<>> => Len(l) \in DOMAIN l
        BY <1>1
    <2> QED
        BY <1>2, <2>1 DEF LastOfIdleList, Range
<1>4. f = [next |-> Head(s.sched[IdleList]), rq |-> u, map |-> ProMap(s)]
    BY <1>1, <1>3 DEF FindNextTask
<1>5. f.rq = u /\ f.map = ProMap(s)
    BY <1>4
<1> HIDE DEF f, s, u
<1>6. Sound(s, T) /\ (Once(r) => Once(s))
    BY RequeueIsSound, RequeueOnce DEF s
<1>7. u.sched = s.sched
    BY <1>6, FlagsCleared DEF u
<1>8. (Once(u) <=> Once(s)) /\ InUse(u) = InUse(s)
    BY <1>7, SameListsOnce
<1> QED
    BY <1>5, <1>6, <1>8, ProMapIsInUse DEF f

---------------------------------------------------------------------------
(* The circular search of pid_alloc.                                       *)

\* The search looks at every identifier: x is the one it looks at in step
\* (x - next_pid) modulo PID_NUM.
LEMMA ProbeCoversPids ==
    ASSUME next_pid \in Pids, NEW x \in Pids
    PROVE  \E k \in 0..PID_NUM-1 : Probe(k) = x
<1>1. CASE x >= next_pid
    <2>1. x - next_pid \in 0..PID_NUM-1 /\ next_pid + (x - next_pid) = x
        BY <1>1, PidNumAssumption DEF Pids
    <2>2. x % PID_NUM = x
        BY PidNumAssumption DEF Pids
    <2> QED
        BY <2>1, <2>2 DEF Probe
<1>2. CASE x < next_pid
    <2>1. /\ x - next_pid + PID_NUM \in 0..PID_NUM-1
          /\ next_pid + (x - next_pid + PID_NUM) = x + PID_NUM
        BY <1>2, PidNumAssumption DEF Pids
    <2>2. (x + PID_NUM) % PID_NUM = x
        BY PidNumAssumption DEF Pids
    <2> QED
        BY <2>1, <2>2 DEF Probe
<1> QED
    BY <1>1, <1>2, PidNumAssumption DEF Pids

\* pid_alloc finds an identifier that is not in use, whenever there is one.
THEOREM NextFitIsFree ==
    ASSUME next_pid \in Pids, pid_map \subseteq Pids, pid_map # Pids
    PROVE  NextFit \in Pids \ pid_map
<1> DEFINE K == {k \in 0..PID_NUM-1 : ~PidUsed(Probe(k))}
           first(k) == \A j \in 0..k-1 : PidUsed(Probe(j))
           k == CHOOSE k \in 0..PID_NUM-1 : ~PidUsed(Probe(k)) /\ first(k)
<1>1. PICK x \in Pids : x \notin pid_map
    OBVIOUS
<1>2. K # {}
    BY <1>1, ProbeCoversPids DEF PidUsed
<1>3. IsFiniteSet(0..PID_NUM-1) /\ 0..PID_NUM-1 \subseteq Int
    BY PidNumAssumption, FS_Interval
<1>4. K \in SUBSET Int /\ IsFiniteSet(K)
    BY <1>3, FS_Subset
<1>5. PICK m \in K : \A j \in K : m <= j
    BY <1>2, <1>4, LeastAndGreatest
<1>6. first(m)
    BY <1>5, PidNumAssumption
<1>7. k \in 0..PID_NUM-1 /\ ~PidUsed(Probe(k))
    BY <1>5, <1>6
<1>8. NextFit = Probe(k)
    BY DEF NextFit
<1> HIDE DEF k
<1>9. Probe(k) \in Pids
    BY <1>7, PidNumAssumption DEF Probe, Pids
<1> QED
    BY <1>7, <1>8, <1>9 DEF PidUsed

---------------------------------------------------------------------------
(* The inductive invariant.                                                *)

Special == {IdleTask, InitTask}

\* Idle is always on the list of idle and init; init is behind it or, alone,
\* on the wait list and then does not run.
IdleInv ==
    /\ rq.dyn[IdleTask] = -1 /\ rq.dyn[InitTask] = -1
    /\ \/ rq.sched[IdleList] = <<IdleTask, InitTask>> /\ wait = <<>>
       \/ /\ rq.sched[IdleList] = <<IdleTask>> /\ wait = <<InitTask>>
          /\ current_task # InitTask

\* The running task is idle, init or a queued task.
CurrentInv == current_task \in Special \cup Queued(rq)

\* A queued task is linked and waits for no tick to be unlinked.
QueueInv == Queued(rq) \subseteq Range(tasks) \ Range(terminal)

\* Pids 0 and 1 are in use, and no queued task has one of them.
PidInv ==
    /\ {IDLE_PID, INIT_PID} \subseteq pid_map
    /\ pid[IdleTask] = IDLE_PID /\ pid[InitTask] = INIT_PID
    /\ \A t \in Queued(rq) : pid[t] \notin {IDLE_PID, INIT_PID}

\* The pid that task_create allocates, the byte of pid_map it writes back,
\* and the task_struct while it is on no priority level yet.
CreateInv ==
    /\ shell.at \in {"pid", "alloc"} =>
            shell.pid \notin {IDLE_PID, INIT_PID} /\ shell.prio \in Level
    /\ shell.at = "pid" =>
        /\ {IDLE_PID, INIT_PID} \cap PidByte(shell.pid) \subseteq shell.byte
        /\ shell.byte \subseteq Pids
    /\ shell.at \in {"link", "queue"} =>
        /\ shell.task \in Task \ (Special \cup Queued(rq) \cup Range(terminal))
        /\ pid[shell.task] \notin {IDLE_PID, INIT_PID}
        /\ rq.dyn[shell.task] \in Level
        /\ rq.counter[shell.task] = SchedTime(rq.dyn[shell.task])
    /\ shell.at = "queue" => shell.task \in Range(tasks)
    /\ shell.at \in {"load", "store", "ready"} => shell.task \in Task
    /\ shell.at = "store" => shell.byte \subseteq Level

Inv ==
    /\ TypeOK /\ OnOwnLevel /\ FullSlice /\ NoFrozenPriority
    /\ IdleInv /\ CurrentInv /\ QueueInv /\ PidInv /\ CreateInv

---------------------------------------------------------------------------
(* Steps of a command that leave the run queue alone.                      *)

\* An unchanged run queue stays sound.
LEMMA RunQueueUnchanged ==
    ASSUME Inv, UNCHANGED <<rq, current_task, wait, pid>>,
           tasks' = tasks /\ terminal' = terminal,
           {IDLE_PID, INIT_PID} \subseteq pid_map'
    PROVE  /\ OnOwnLevel' /\ FullSlice' /\ NoFrozenPriority'
           /\ IdleInv' /\ CurrentInv' /\ QueueInv' /\ PidInv'
<1>1. Queued(rq)' = Queued(rq)
    BY DEF Queued
<1>2. OnOwnLevel' /\ NoFrozenPriority'
    BY DEF Inv, OnOwnLevel, NoFrozenPriority
<1>3. FullSlice'
    BY <1>1 DEF Inv, FullSlice
<1>4. IdleInv'
    BY DEF Inv, IdleInv
<1>5. CurrentInv' /\ QueueInv' /\ PidInv'
    BY <1>1 DEF Inv, CurrentInv, QueueInv, PidInv
<1> QED
    BY <1>2, <1>3, <1>4, <1>5

LEMMA CreateStartKeepsInv ==
    ASSUME Inv, NEW prio \in Level, NEW waits \in BOOLEAN,
           CreateStart(prio, waits)
    PROVE  Inv'
<1> USE DEF CreateStart, pidVars, idVars, schedVars
<1>1. shell \in Shell /\ pid_map \subseteq Pids /\ next_pid \in Pids
    BY DEF Inv, TypeOK
<1>2. NextFit \in Pids \ pid_map
    BY <1>1, NextFitIsFree
<1>3. prio \in -1..PRORITY_NUM-1 /\ pid_map \cap PidByte(NextFit) \in SUBSET Nat
    BY <1>1, ListsApart, PidNumAssumption DEF Level, Pids
<1>4. /\ shell' \in Shell
      /\ shell'.at = "pid" /\ shell'.pid = NextFit /\ shell'.prio = prio
      /\ shell'.byte = pid_map \cap PidByte(NextFit)
    BY <1>1, <1>2, <1>3 DEF Shell, CommandPoints, CreatePoints
<1>5. TypeOK'
    BY <1>4 DEF Inv, TypeOK
<1>6. CreateInv'
    BY <1>1, <1>2, <1>4 DEF Inv, PidInv, CreateInv
<1>7. {IDLE_PID, INIT_PID} \subseteq pid_map'
    BY DEF Inv, PidInv
<1> QED
    BY <1>5, <1>6, <1>7, RunQueueUnchanged DEF Inv

LEMMA CreateClaimsPidKeepsInv ==
    ASSUME Inv, CreateClaimsPid
    PROVE  Inv'
<1> USE DEF CreateClaimsPid, Command, PidStore, idVars, schedVars
<1>1. /\ shell \in Shell /\ pid_map \subseteq Pids
      /\ shell.pid \in Pids \ {IDLE_PID, INIT_PID} /\ shell.byte \subseteq Pids
      /\ {IDLE_PID, INIT_PID} \cap PidByte(shell.pid) \subseteq shell.byte
      /\ {IDLE_PID, INIT_PID} \subseteq pid_map /\ shell.prio \in Level
    BY DEF Inv, TypeOK, CreateInv, PidInv, Shell
<1>2. /\ shell' \in Shell /\ shell'.at = "alloc"
      /\ shell'.pid = shell.pid /\ shell'.prio = shell.prio
    BY <1>1 DEF Shell, CommandPoints, CreatePoints
<1>3. (shell.pid + 1) % PID_NUM \in Pids
    BY <1>1, PidNumAssumption DEF Pids
<1>4. TypeOK'
    BY <1>1, <1>2, <1>3 DEF Inv, TypeOK
<1>5. CreateInv'
    BY <1>1, <1>2 DEF CreateInv
<1>6. {IDLE_PID, INIT_PID} \subseteq pid_map'
    BY <1>1
<1> QED
    BY <1>4, <1>5, <1>6, RunQueueUnchanged DEF Inv

LEMMA CreateFailsKeepsInv ==
    ASSUME Inv, CreateFails
    PROVE  Inv'
<1> USE DEF CreateFails, Command, PidFree, idVars, schedVars
<1>1. /\ shell \in Shell /\ pid_map \subseteq Pids
      /\ shell.pid \in Pids \ {IDLE_PID, INIT_PID}
      /\ {IDLE_PID, INIT_PID} \subseteq pid_map
    BY DEF Inv, TypeOK, CreateInv, PidInv, Shell
<1>2. shell' \in Shell /\ shell'.at = "shell"
    BY <1>1 DEF Shell
<1>3. TypeOK'
    BY <1>1, <1>2 DEF Inv, TypeOK
<1>4. CreateInv'
    BY <1>2 DEF CreateInv
<1>5. {IDLE_PID, INIT_PID} \subseteq pid_map'
    BY <1>1
<1> QED
    BY <1>3, <1>4, <1>5, RunQueueUnchanged DEF Inv

LEMMA CreateLoadsBitKeepsInv ==
    ASSUME Inv, CreateLoadsBit
    PROVE  Inv'
<1> USE DEF CreateLoadsBit, Command, pidVars, idVars, schedVars
<1> DEFINE i == rq.dyn[shell.task]
           byte == IF i = -1 THEN {} ELSE pro_map \cap ProByte(i)
<1>1. /\ shell \in Shell /\ shell.task \in Task /\ pro_map \subseteq Level
      /\ rq \in RunQueue(Task) /\ {IDLE_PID, INIT_PID} \subseteq pid_map
    BY DEF Inv, TypeOK, CreateInv, PidInv
<1>2. i \in -1..PRORITY_NUM-1
    BY <1>1 DEF RunQueue
<1>3. byte \subseteq Level /\ byte \in SUBSET Nat
    BY <1>1, ListsApart DEF Level
<1>4. shell' = [shell EXCEPT !.at = "store", !.prio = i, !.byte = byte]
    OBVIOUS
<1> HIDE DEF i, byte
<1>5. /\ shell' \in Shell /\ shell'.at = "store" /\ shell'.byte = byte
      /\ shell'.task = shell.task
    BY <1>1, <1>2, <1>3, <1>4, ZenonT(60) DEF Shell, CommandPoints, CreatePoints
<1>6. TypeOK'
    BY <1>5 DEF Inv, TypeOK
<1>7. CreateInv'
    BY <1>1, <1>3, <1>5 DEF CreateInv
<1>8. {IDLE_PID, INIT_PID} \subseteq pid_map'
    BY <1>1
<1> QED
    BY <1>6, <1>7, <1>8, RunQueueUnchanged DEF Inv

LEMMA CreateStoresBitKeepsInv ==
    ASSUME Inv, CreateStoresBit
    PROVE  Inv'
<1> USE DEF CreateStoresBit, Command, pidVars, idVars
<1>1. /\ shell \in Shell /\ pro_map \subseteq Level /\ shell.byte \subseteq Level
      /\ {IDLE_PID, INIT_PID} \subseteq pid_map
    BY DEF Inv, TypeOK, CreateInv, PidInv
<1>2. /\ shell' \in Shell /\ shell'.at = "ready"
      /\ shell'.task = shell.task
    BY <1>1 DEF Shell, CommandPoints, CreatePoints
<1>3. shell.prio = -1 \/ shell.prio \in Level
    BY <1>1, ListsApart DEF Shell, Level
<1>4. pro_map' \subseteq Level
    BY <1>1, <1>3
<1>5. TypeOK'
    BY <1>2, <1>4 DEF Inv, TypeOK
<1>6. CreateInv'
    BY <1>2 DEF Inv, CreateInv
<1>7. {IDLE_PID, INIT_PID} \subseteq pid_map'
    BY <1>1
<1> QED
    BY <1>5, <1>6, <1>7, RunQueueUnchanged DEF Inv

LEMMA CreateReadiesKeepsInv ==
    ASSUME Inv, CreateReadies
    PROVE  Inv'
<1> USE DEF CreateReadies, Command, pidVars, idVars, schedVars
<1>1. /\ shell \in Shell /\ state \in [Task -> Int]
      /\ {IDLE_PID, INIT_PID} \subseteq pid_map
    BY DEF Inv, TypeOK, PidInv
<1>2. shell' \in Shell /\ shell'.at \in {"check", "shell"}
    BY <1>1 DEF Shell, CommandPoints
<1>3. shell.task \in Task
    BY DEF Inv, CreateInv
<1>4. state' \in [Task -> Int]
    BY <1>1, <1>3 DEF TASK_READY
<1>5. TypeOK'
    BY <1>2, <1>4 DEF Inv, TypeOK
<1>6. CreateInv'
    BY <1>2 DEF CreateInv
<1>7. {IDLE_PID, INIT_PID} \subseteq pid_map'
    BY <1>1
<1> QED
    BY <1>5, <1>6, <1>7, RunQueueUnchanged DEF Inv

LEMMA WaitCheckKeepsInv ==
    ASSUME Inv, WaitCheck
    PROVE  Inv'
<1> USE DEF WaitCheck, Command, pidVars, idVars, schedVars
<1>1. shell \in Shell /\ {IDLE_PID, INIT_PID} \subseteq pid_map
    BY DEF Inv, TypeOK, PidInv
<1>2. shell' \in Shell /\ shell'.at \in {"window", "shell"}
    BY <1>1 DEF Shell, CommandPoints
<1>3. TypeOK'
    BY <1>2 DEF Inv, TypeOK
<1>4. CreateInv'
    BY <1>2 DEF CreateInv
<1>5. {IDLE_PID, INIT_PID} \subseteq pid_map'
    BY <1>1
<1> QED
    BY <1>3, <1>4, <1>5, RunQueueUnchanged DEF Inv

LEMMA WaitReturnsKeepsInv ==
    ASSUME Inv, WaitReturns
    PROVE  Inv'
<1> USE DEF WaitReturns, Command, pidVars, idVars, schedVars
<1>1. shell \in Shell /\ {IDLE_PID, INIT_PID} \subseteq pid_map
    BY DEF Inv, TypeOK, PidInv
<1>2. shell' \in Shell /\ shell'.at = "shell"
    BY <1>1 DEF Shell
<1>3. TypeOK'
    BY <1>2 DEF Inv, TypeOK
<1>4. CreateInv'
    BY <1>2 DEF CreateInv
<1>5. {IDLE_PID, INIT_PID} \subseteq pid_map'
    BY <1>1
<1> QED
    BY <1>3, <1>4, <1>5, RunQueueUnchanged DEF Inv

\* A kernel that has stopped changes nothing but the reason.
LEMMA HaltKeepsInv ==
    ASSUME Inv, NEW why \in {"terminal", "wild pointer", "next == current_task"},
           Halt(why)
    PROVE  Inv'
<1> USE DEF Halt, pidVars, idVars, schedVars
<1>1. {IDLE_PID, INIT_PID} \subseteq pid_map'
    BY DEF Inv, PidInv
<1>2. TypeOK'
    BY DEF Inv, TypeOK
<1>3. CreateInv'
    BY <1>1 DEF Inv, CreateInv, Queued
<1> QED
    BY <1>1, <1>2, <1>3, RunQueueUnchanged DEF Inv

\* add_tasks: the new task is linked.
LEMMA CreateLinksKeepsInv ==
    ASSUME Inv, CreateLinks
    PROVE  Inv'
<1> USE DEF CreateLinks, Command, pidVars, idVars, schedVars
<1>1. /\ shell \in Shell /\ tasks \in Seq(Task) /\ shell.task \in Task
      /\ {IDLE_PID, INIT_PID} \subseteq pid_map
    BY DEF Inv, TypeOK, CreateInv, PidInv
<1>2. /\ tasks' \in Seq(Task)
      /\ Range(tasks') = Range(tasks) \cup {shell.task}
    BY <1>1, AppendQueue
<1>3. shell' \in Shell /\ shell'.at = "queue" /\ shell'.task = shell.task
    BY <1>1 DEF Shell, CommandPoints, CreatePoints
<1>4. TypeOK'
    BY <1>2, <1>3 DEF Inv, TypeOK
<1>5. Queued(rq)' = Queued(rq)
    BY DEF Queued
<1>6. CreateInv'
    BY <1>2, <1>3, <1>5 DEF Inv, CreateInv
<1>7. OnOwnLevel' /\ FullSlice' /\ NoFrozenPriority'
    BY <1>5 DEF Inv, OnOwnLevel, FullSlice, NoFrozenPriority
<1>8. IdleInv' /\ CurrentInv' /\ PidInv'
    BY <1>5 DEF Inv, IdleInv, CurrentInv, PidInv
<1>9. QueueInv'
    BY <1>2, <1>5 DEF Inv, QueueInv
<1> QED
    BY <1>4, <1>6, <1>7, <1>8, <1>9 DEF Inv

---------------------------------------------------------------------------
(* Steps that change the run queue.                                        *)

\* What the invariant says of the run queue, in the terms of Sched.tla.
LEMMA InvRunQueue ==
    ASSUME Inv
    PROVE  /\ Sound(rq, Task) /\ rq.changed = {}
           /\ Queued(rq) \subseteq Task \ Special
           /\ \A t \in Queued(rq) : rq.dyn[t] \in Level
           /\ Range(rq.sched[IdleList]) \subseteq Special
           /\ IdleTask \in Range(rq.sched[IdleList])
           /\ IdleTask \in Task /\ InitTask \in Task /\ IdleTask # InitTask
           /\ IsFiniteSet(Task)
<1>1. Sound(rq, Task) /\ rq.changed = {}
    BY DEF Inv, TypeOK, OnOwnLevel, NoFrozenPriority, Sound, OnLevels
<1>2. \A t \in Queued(rq) : t \in Task /\ rq.dyn[t] \in Level
    BY <1>1, QueuedOnLevel
<1>3. \A t \in Queued(rq) : t \notin Special
    BY <1>2, ListsApart DEF Inv, IdleInv, Special, Level
<1>4. /\ Range(rq.sched[IdleList]) \subseteq Special
      /\ IdleTask \in Range(rq.sched[IdleList])
    BY DEF Inv, IdleInv, Special, Range
<1> QED
    BY <1>1, <1>2, <1>3, <1>4, TaskAssumption

\* What the invariant says of the run queue, put together again.
LEMMA RunQueueInv ==
    ASSUME Sound(rq', Task)
    PROVE  rq' \in RunQueue(Task) /\ OnOwnLevel'
BY DEF Sound, OnLevels, OnOwnLevel

\* add_sched of the new task.
LEMMA CreateQueuesKeepsInv ==
    ASSUME Inv, CreateQueues
    PROVE  Inv'
<1> DEFINE t == shell.task
<1>0. /\ rq' = AddSched(rq, t) /\ shell.at = "queue"
      /\ shell' = [shell EXCEPT !.at = "load"]
      /\ UNCHANGED <<pid_map, next_pid, pid, ppid, state, tasks, wait,
                    terminal, pro_map, current_task, halted>>
    BY DEF CreateQueues, Command, pidVars, idVars
<1>1. /\ shell \in Shell /\ t \in Task \ Special
      /\ t \in Range(tasks) \ Range(terminal)
      /\ pid[t] \notin {IDLE_PID, INIT_PID}
      /\ rq.dyn[t] \in Level /\ rq.counter[t] = SchedTime(rq.dyn[t])
    BY <1>0 DEF Inv, TypeOK, CreateInv
<1>2. rq.dyn[t] # -1 /\ rq.dyn[t] # IdleList
    BY <1>1, ListsApart, SMTT(40) DEF Level
<1>3. /\ Sound(rq', Task) /\ SameFields(rq, rq')
      /\ rq'.sched[IdleList] = rq.sched[IdleList]
      /\ Queued(rq') = Queued(rq) \cup {t}
    <2> HIDE DEF t
    <2>1. Sound(rq, Task)
        BY InvRunQueue
    <2> QED
        BY <2>1, <1>0, <1>1, <1>2, AddSchedAdds, ListsApart, SMTT(40)
<1>4. shell' \in Shell /\ shell'.at = "load" /\ shell'.task = t
    BY <1>0, <1>1 DEF Shell, CommandPoints, CreatePoints
<1> HIDE DEF t
<1>5. TypeOK' /\ OnOwnLevel'
    BY <1>0, <1>3, <1>4, RunQueueInv DEF Inv, TypeOK
<1>6. FullSlice'
    <2> SUFFICES ASSUME NEW u \in Queued(rq')
                 PROVE  /\ rq.counter[u] \in 1..SchedTime(rq.dyn[u])
                        /\ u # current_task =>
                                rq.counter[u] = SchedTime(rq.dyn[u])
        BY <1>0, <1>3 DEF FullSlice, SameFields
    <2>1. CASE u \in Queued(rq)
        BY <2>1 DEF Inv, FullSlice
    <2>2. CASE u = t
        BY <2>2, <1>1, SchedTimePositive
    <2> QED
        BY <2>1, <2>2, <1>3
<1>7. NoFrozenPriority' /\ IdleInv'
    BY <1>0, <1>3 DEF Inv, NoFrozenPriority, IdleInv, SameFields
<1>8. CurrentInv' /\ QueueInv' /\ PidInv'
    BY <1>0, <1>1, <1>3 DEF Inv, CurrentInv, QueueInv, PidInv
<1>9. CreateInv'
    BY <1>1, <1>4 DEF CreateInv
<1> QED
    BY <1>5, <1>6, <1>7, <1>8, <1>9 DEF Inv

\* task_create fills in a task_struct that is on no list.
LEMMA CreateFillsInKeepsInv ==
    ASSUME Inv, NEW t \in Task, CreateFillsIn(t)
    PROVE  Inv'
<1> DEFINE d == shell.prio
           c == SchedTime(shell.prio)
<1>0. UNCHANGED <<pid_map, next_pid, tasks, wait, terminal, pro_map,
                  current_task, halted>>
    BY DEF CreateFillsIn, pidVars
<1>1. /\ shell \in Shell /\ shell.at = "alloc" /\ shell.pid \in Pids
      /\ shell.pid \notin {IDLE_PID, INIT_PID}
      /\ current_task = InitTask
    BY DEF Inv, TypeOK, CreateInv, CreateFillsIn, Command, Shell
<1>2. /\ t \notin Range(tasks) /\ t \notin Range(wait)
      /\ t \notin Range(terminal)
      /\ \A i \in Lists : t \notin Range(rq.sched[i])
    BY DEF CreateFillsIn, Linked
<1>3. t \notin Queued(rq)
    BY <1>2, ListsApart DEF Queued
<1>4. t \notin Special /\ t # current_task
    <2>1. rq.sched[IdleList] = <<IdleTask, InitTask>>
        BY <1>1 DEF Inv, IdleInv
    <2>2. Range(rq.sched[IdleList]) = Special
        BY <2>1 DEF Range, Special
    <2> QED
        BY <2>2, <1>1, <1>2, ListsApart DEF Special
<1>5. d \in Level /\ d \in -1..PRORITY_NUM-1 /\ c \in Nat
    BY <1>1, SchedTimePositive, ListsApart DEF Inv, CreateInv, Level
<1>6. /\ rq \in RunQueue(Task)
      /\ pid \in [Task -> Pids] /\ ppid \in [Task -> Pids]
      /\ state \in [Task -> Int]
    BY DEF Inv, TypeOK
<1>7. rq' = [rq EXCEPT !.dyn[t] = d, !.counter[t] = c, !.sleep[t] = 0,
                       !.changed = rq.changed \ {t}]
    BY <1>1 DEF CreateFillsIn
<1> HIDE DEF d, c
<1>8. /\ rq' \in RunQueue(Task) /\ rq'.sched = rq.sched
      /\ rq'.dyn = [rq.dyn EXCEPT ![t] = d]
      /\ rq'.counter = [rq.counter EXCEPT ![t] = c]
      /\ rq'.changed = rq.changed \ {t}
    <2>1. /\ rq'.sched = rq.sched
          /\ rq'.dyn = [rq.dyn EXCEPT ![t] = d]
          /\ rq'.counter = [rq.counter EXCEPT ![t] = c]
          /\ rq'.sleep = [rq.sleep EXCEPT ![t] = 0]
          /\ rq'.changed = rq.changed \ {t}
        BY <1>6, <1>7 DEF RunQueue
    <2>2. rq' = [sched |-> rq'.sched, dyn |-> rq'.dyn,
                 counter |-> rq'.counter, sleep |-> rq'.sleep,
                 changed |-> rq'.changed]
        BY <1>6, <1>7 DEF RunQueue
    <2>3. /\ rq'.sched \in [Lists -> Seq(Task)]
          /\ rq'.dyn \in [Task -> -1..PRORITY_NUM-1]
          /\ rq'.counter \in [Task -> Nat]
          /\ rq'.sleep \in [Task -> Int] /\ rq'.changed \in SUBSET Task
        BY <1>5, <1>6, <2>1 DEF RunQueue
    <2>4. rq' \in RunQueue(Task)
        BY <2>2, <2>3 DEF RunQueue
    <2> QED
        BY <2>1, <2>4
<1>9. /\ rq'.dyn[t] = d /\ rq'.counter[t] = c
      /\ \A u \in Task : u # t => /\ rq'.dyn[u] = rq.dyn[u]
                                  /\ rq'.counter[u] = rq.counter[u]
      /\ Queued(rq') = Queued(rq)
    BY <1>6, <1>8 DEF RunQueue, Queued
<1>10. /\ pid' = [pid EXCEPT ![t] = shell.pid]
       /\ ppid' = [ppid EXCEPT ![t] = pid[current_task]]
       /\ state' = [state EXCEPT ![t] = 0]
       /\ shell' = [shell EXCEPT !.at = "link", !.task = t]
    BY DEF CreateFillsIn, TASK_UNINIT
<1>11. /\ pid' \in [Task -> Pids] /\ ppid' \in [Task -> Pids]
       /\ state' \in [Task -> Int]
       /\ pid'[t] = shell.pid
       /\ \A u \in Task : u # t => pid'[u] = pid[u]
    BY <1>1, <1>6, <1>10, InvRunQueue
<1>12. shell' \in Shell /\ shell'.at = "link" /\ shell'.task = t
    BY <1>1, <1>10 DEF Shell, CommandPoints, CreatePoints
<1>13. TypeOK'
    BY <1>0, <1>8, <1>11, <1>12 DEF Inv, TypeOK
<1>14. OnOwnLevel'
    <2> SUFFICES ASSUME NEW i \in Lists, NEW u \in Range(rq.sched[i])
                 PROVE  rq'.dyn[u] = IF i = IdleList THEN -1 ELSE i
        BY <1>8 DEF OnOwnLevel
    <2>1. u \in Task /\ u # t
        BY <1>2, InvRunQueue, QueuedOnLevel, RangeOfQueue
    <2> QED
        BY <2>1, <1>9 DEF Inv, OnOwnLevel
<1>15. \A u \in Queued(rq) : u \in Task /\ u # t
    BY <1>3, InvRunQueue
<1>16. FullSlice'
    BY <1>0, <1>9, <1>15 DEF Inv, FullSlice
<1>17. NoFrozenPriority' /\ IdleInv'
    BY <1>0, <1>4, <1>8, <1>9, InvRunQueue
       DEF Inv, NoFrozenPriority, IdleInv, Special
<1>18. CurrentInv' /\ QueueInv'
    BY <1>0, <1>9 DEF Inv, CurrentInv, QueueInv
<1>19. PidInv'
    BY <1>0, <1>4, <1>9, <1>11, <1>15, InvRunQueue DEF Inv, PidInv, Special
<1>20. CreateInv'
    BY <1>0, <1>1, <1>2, <1>3, <1>4, <1>5, <1>9, <1>11, <1>12
       DEF CreateInv, c, d
<1> QED
    BY <1>13, <1>14, <1>16, <1>17, <1>18, <1>19, <1>20 DEF Inv

\* A tick that charges the running task one unit of its slice.
LEMMA TickRunsOnKeepsInv ==
    ASSUME Inv, TickRunsOn
    PROVE  Inv'
<1> DEFINE cur == current_task
           left == IF rq.counter[cur] = 0 THEN MAX_TIMESLICE
                   ELSE rq.counter[cur] - 1
<1>0. UNCHANGED <<pid_map, next_pid, pid, ppid, state, tasks, wait, terminal,
                  pro_map, current_task, halted, shell>>
    BY DEF TickRunsOn, pidVars, idVars
<1>1. rq.dyn[cur] # -1 /\ rq.counter[cur] # 1
    BY DEF TickRunsOn
<1>2. rq' = [rq EXCEPT !.counter[cur] = left]
    BY DEF TickRunsOn
<1>3. cur \in Queued(rq)
    BY <1>1 DEF Inv, CurrentInv, IdleInv, Special
<1>4. /\ cur \in Task /\ rq \in RunQueue(Task)
      /\ rq.counter[cur] \in 1..SchedTime(rq.dyn[cur])
      /\ SchedTime(rq.dyn[cur]) \in Nat
    BY <1>3, InvRunQueue, SchedTimePositive DEF Inv, TypeOK, FullSlice
<1>5. left \in Nat /\ left \in 1..SchedTime(rq.dyn[cur])
    BY <1>1, <1>4
<1> HIDE DEF left, cur
<1>6. /\ rq' \in RunQueue(Task) /\ rq'.sched = rq.sched
      /\ rq'.dyn = rq.dyn /\ rq'.changed = rq.changed
      /\ rq'.counter = [rq.counter EXCEPT ![cur] = left]
    BY <1>2, <1>4, <1>5 DEF RunQueue
<1>7. /\ rq'.counter[cur] = left
      /\ \A u \in Task : u # cur => rq'.counter[u] = rq.counter[u]
      /\ Queued(rq') = Queued(rq)
    BY <1>4, <1>6 DEF RunQueue, Queued
<1>8. TypeOK' /\ OnOwnLevel' /\ NoFrozenPriority' /\ IdleInv'
    BY <1>0, <1>6, ZenonT(60) DEF Inv, TypeOK, OnOwnLevel, NoFrozenPriority, IdleInv
<1>9. FullSlice'
    BY <1>0, <1>5, <1>6, <1>7, InvRunQueue DEF Inv, FullSlice, cur
<1>10. CurrentInv' /\ QueueInv' /\ PidInv'
    BY <1>0, <1>7 DEF Inv, CurrentInv, QueueInv, PidInv
<1>11. CreateInv'
    <2>1. cur \in Queued(rq)
        BY <1>3
    <2> QED
        BY <2>1, <1>0, <1>6, <1>7 DEF Inv, CreateInv
<1> QED
    BY <1>8, <1>9, <1>10, <1>11 DEF Inv

---------------------------------------------------------------------------
(* The context switch of a tick.                                           *)

\* What find_next_task must find for the switch to be sound: a run queue
\* with the same tasks in which every queued task has a full slice, and a
\* task that can run.
Fit(f) ==
    /\ f.map \subseteq Level
    /\ Sound(f.rq, Task) /\ f.rq.changed = {}
    /\ Queued(f.rq) = Queued(rq)
    /\ f.rq.sched[IdleList] = rq.sched[IdleList]
    /\ \A t \in Queued(rq) : f.rq.counter[t] = SchedTime(f.rq.dyn[t])
    /\ \A t \in Task \ Queued(rq) : /\ f.rq.dyn[t] = rq.dyn[t]
                                    /\ f.rq.counter[t] = rq.counter[t]
    /\ \/ f.next \in {NoTask, IdleTask} \cup Queued(rq)
       \/ f.next = InitTask /\ wait = <<>>

LEMMA ScheduleKeepsInv ==
    ASSUME Inv, NEW f, Fit(f), Schedule(f)
    PROVE  Inv'
<1>1. CASE f.next = NoTask \/ f.next = current_task
    <2>1. Halt("wild pointer") \/ Halt("next == current_task")
        BY <1>1 DEF Schedule
    <2> QED
        BY <2>1, HaltKeepsInv
<1>2. CASE f.next # NoTask /\ f.next # current_task
    <2>0. /\ ClearTerminal /\ rq' = f.rq /\ pro_map' = f.map
          /\ SwitchTo(f.next) /\ MarkHit
          /\ UNCHANGED <<pid_map, next_pid, pid, ppid, wait, halted>>
        BY <1>2 DEF Schedule, pidVars, idVars
    <2>1. /\ tasks \in Seq(Task) /\ shell \in Shell
          /\ state \in [Task -> Int] /\ current_task \in Task
        BY DEF Inv, TypeOK
    <2>2. f.next \in Task
        BY <1>2, InvRunQueue DEF Fit
    <2>3. /\ tasks' \in Seq(Task) /\ terminal' = <<>>
          /\ Range(tasks') = Range(tasks) \ Range(terminal)
        <3>1. /\ tasks' = Keep(tasks, Range(tasks) \ Range(terminal))
              /\ terminal' = <<>>
            BY <2>0 DEF ClearTerminal
        <3>2. /\ tasks' \in Seq(Task)
              /\ Range(tasks') =
                    Range(tasks) \cap (Range(tasks) \ Range(terminal))
            BY <2>1, <3>1, KeepQueue
        <3> QED
            BY <3>1, <3>2
    <2>4. Range(terminal') = {}
        BY <2>3 DEF Range
    <2>5. state' \in [Task -> Int] /\ current_task' = f.next
        BY <2>0, <2>1, <2>2 DEF SwitchTo, TASK_READY, TASK_RUNNING
    <2>6. /\ shell' \in Shell
          /\ shell'.at = shell.at /\ shell'.task = shell.task
          /\ shell'.pid = shell.pid /\ shell'.prio = shell.prio
          /\ shell'.byte = shell.byte
        BY <2>0, <2>1 DEF MarkHit, Shell
    <2>7. Sound(rq', Task) /\ Queued(rq') = Queued(rq)
        BY <2>0 DEF Fit
    <2>8. TypeOK'
        <3>1. rq' \in RunQueue(Task) /\ pro_map' \subseteq Level
            BY <2>0, <2>7, RunQueueInv DEF Fit
        <3>2. current_task' \in Task /\ terminal' \in Seq(Task)
            BY <2>2, <2>3, <2>5
        <3> QED
            BY <3>1, <3>2, <2>0, <2>3, <2>5, <2>6 DEF Inv, TypeOK
    <2>9. OnOwnLevel' /\ NoFrozenPriority'
        BY <2>0, <2>7, RunQueueInv DEF Fit, NoFrozenPriority
    <2>10. FullSlice'
        <3>1. \A t \in Queued(rq') :
                 /\ rq'.counter[t] = SchedTime(rq'.dyn[t])
                 /\ rq'.dyn[t] \in Level
            BY <2>0, <2>7, QueuedOnLevel DEF Fit
        <3> QED
            BY <3>1, SchedTimePositive DEF FullSlice
    <2>11. IdleInv'
        <3>1. /\ rq'.dyn[IdleTask] = -1 /\ rq'.dyn[InitTask] = -1
              /\ rq'.sched[IdleList] = rq.sched[IdleList]
            BY <2>0, InvRunQueue DEF Inv, IdleInv, Fit, Special
        <3>2. f.next = InitTask => wait = <<>>
            BY <1>2, InvRunQueue DEF Fit, Special
        <3>3. wait = <<>> => rq.sched[IdleList] = <<IdleTask, InitTask>>
            BY DEF Inv, IdleInv
        <3> QED
            BY <3>1, <3>2, <3>3, <2>0, <2>5 DEF Inv, IdleInv
    <2>12. CurrentInv'
        BY <1>2, <2>5, <2>7 DEF CurrentInv, Fit, Special
    <2>13. QueueInv'
        BY <2>3, <2>4, <2>7 DEF Inv, QueueInv
    <2>14. PidInv'
        BY <2>0, <2>7 DEF Inv, PidInv
    <2>15. CreateInv'
        BY <2>0, <2>3, <2>4, <2>6, <2>7 DEF Inv, CreateInv, Fit
    <2> QED
        BY <2>8, <2>9, <2>10, <2>11, <2>12, <2>13, <2>14, <2>15 DEF Inv
<1> QED
    BY <1>1, <1>2

\* The two states of the list of idle and init.
LEMMA IdleListStates ==
    ASSUME Inv
    PROVE  /\ Head(rq.sched[IdleList]) = IdleTask
           /\ \/ /\ rq.sched[IdleList] = <<IdleTask, InitTask>>
                 /\ wait = <<>>
                 /\ LastOfIdleList(rq, InitTask)
                 /\ ~LastOfIdleList(rq, IdleTask)
                 /\ NextOfIdleList(rq, IdleTask) = InitTask
              \/ /\ rq.sched[IdleList] = <<IdleTask>>
                 /\ wait = <<InitTask>>
                 /\ current_task # InitTask
                 /\ LastOfIdleList(rq, IdleTask)
<1>1. CASE rq.sched[IdleList] = <<IdleTask, InitTask>> /\ wait = <<>>
    <2> DEFINE q == rq.sched[IdleList]
    <2>1. /\ Len(q) = 2 /\ DOMAIN q = 1..2 /\ q[1] = IdleTask
          /\ q[2] = InitTask /\ q # <<>> /\ Head(q) = IdleTask
        BY <1>1
    <2>2. IdleTask \in Range(q)
        BY <2>1 DEF Range
    <2>3. Place(q)[IdleTask] = 1
        BY <2>1, <2>2, TaskAssumption DEF Place
    <2> QED
        BY <1>1, <2>1, <2>3, TaskAssumption
           DEF LastOfIdleList, NextOfIdleList
<1>2. CASE /\ rq.sched[IdleList] = <<IdleTask>> /\ wait = <<InitTask>>
           /\ current_task # InitTask
    BY <1>2 DEF LastOfIdleList
<1> QED
    BY <1>1, <1>2 DEF Inv, IdleInv

\* A tick that hits idle or init.
LEMMA TickIdleKeepsInv ==
    ASSUME Inv, TickIdle
    PROVE  Inv'
<1>1. CASE TerminalCorrupt
    BY <1>1, HaltKeepsInv DEF TickIdle
<1>2. CASE ~TerminalCorrupt
    <2> DEFINE f == FindNextTask(rq, current_task, pro_map, tasks, NoTask)
    <2>1. Schedule(f) /\ rq.dyn[current_task] = -1
        BY <1>2 DEF TickIdle
    <2>2. /\ Sound(rq, Task) /\ rq.changed = {}
          /\ pro_map \subseteq Level
        BY InvRunQueue DEF Inv, TypeOK
    <2>3. current_task \in Special /\ current_task \notin Queued(rq)
        BY <2>1, InvRunQueue, ListsApart DEF Inv, CurrentInv, Level
    <2>4. \A t \in Queued(rq) : rq.counter[t] = SchedTime(rq.dyn[t])
        BY <2>3 DEF Inv, FullSlice
    <2>5. f.rq = rq /\ f.map = pro_map
        BY <2>1 DEF FindNextTask
    <2>6. \/ f.next \in {NoTask, IdleTask} \cup Queued(rq)
          \/ f.next = InitTask /\ wait = <<>>
        <3>1. CASE LastOfIdleList(rq, current_task)
            <4>1. f.next = FindInProMap(rq, pro_map, NoTask)
                BY <3>1 DEF FindNextTask
            <4> HIDE DEF f
            <4> QED
                BY <4>1, <2>2, FoundIsQueued, IdleListStates
        <3>2. CASE ~LastOfIdleList(rq, current_task)
            <4>1. f.next = NextOfIdleList(rq, current_task)
                BY <2>1, <3>2 DEF FindNextTask
            <4>2. current_task = IdleTask
                BY <2>3, <3>2, IdleListStates DEF Special
            <4> HIDE DEF f
            <4> QED
                BY <3>2, <4>1, <4>2, IdleListStates
        <3> QED
            BY <3>1, <3>2
    <2> HIDE DEF f
    <2>7. Fit(f)
        BY <2>2, <2>4, <2>5, <2>6 DEF Fit
    <2> QED
        BY <2>1, <2>7, ScheduleKeepsInv
<1> QED
    BY <1>1, <1>2

\* What find_next_task finds when the slice of a priority task ends.
LEMMA TickSliceEndsFits ==
    ASSUME Inv, rq.dyn[current_task] # -1
    PROVE  LET r == UpdateDynamicPrority(rq, current_task)
               kept == Keep(tasks, Range(tasks) \ Range(terminal))
           IN  Fit(FindNextTask(r, current_task, pro_map, kept, NoTask))
<1> DEFINE cur == current_task
           r == UpdateDynamicPrority(rq, cur)
           kept == Keep(tasks, Range(tasks) \ Range(terminal))
           f == FindNextTask(r, cur, pro_map, kept, NoTask)
<1>1. cur \in Queued(rq)
    BY DEF Inv, CurrentInv, IdleInv, Special
<1>2. cur \in Task
    BY <1>1, InvRunQueue
<1>3. Range(kept) = Range(tasks) \ Range(terminal)
    <2>1. tasks \in Seq(Task)
        BY DEF Inv, TypeOK
    <2>2. Range(kept) = Range(tasks) \cap (Range(tasks) \ Range(terminal))
        BY <2>1, KeepQueue
    <2> QED
        BY <2>2
<1> HIDE DEF cur, kept
<1>4. /\ Sound(r, Task)
      /\ Queued(r) = Queued(rq)
      /\ r.sched[IdleList] = rq.sched[IdleList]
      /\ r.changed = Queued(rq) \ {cur}
      /\ \A t \in Queued(rq) :
            t # cur => r.counter[t] = SchedTime(r.dyn[t])
      /\ \A t \in Task : t \notin Queued(rq) \/ t = cur =>
            r.counter[t] = rq.counter[t] /\ r.dyn[t] = rq.dyn[t]
    BY <1>2, InvRunQueue, SweepFillsSlices
<1> HIDE DEF r
<1>5. /\ f.next = Head(r.sched[IdleList])
      /\ f.map \subseteq Level
      /\ Sound(f.rq, Task)
      /\ Queued(f.rq) = Queued(r)
      /\ f.rq.sched[IdleList] = r.sched[IdleList]
      /\ f.rq.changed = (r.changed \cup {cur}) \ Range(kept)
      /\ f.rq.counter[cur] = SchedTime(f.rq.dyn[cur])
      /\ \A t \in Task : t # cur => /\ f.rq.dyn[t] = r.dyn[t]
                                    /\ f.rq.counter[t] = r.counter[t]
    BY <1>1, <1>4, NextAfterQueued
<1> HIDE DEF f
<1>6. f.next = IdleTask
    BY <1>4, <1>5, IdleListStates
<1>7. f.rq.changed = {}
    BY <1>1, <1>3, <1>4, <1>5 DEF Inv, QueueInv
<1>8. Queued(rq) \subseteq Task
    BY InvRunQueue
<1>9. Fit(f)
    BY <1>1, <1>4, <1>5, <1>6, <1>7, <1>8 DEF Fit
<1> QED
    BY <1>9 DEF f, r, kept, cur

\* A tick that ends the slice of a priority task.
LEMMA TickSliceEndsKeepsInv ==
    ASSUME Inv, TickSliceEnds
    PROVE  Inv'
<1>1. CASE TerminalCorrupt
    BY <1>1, HaltKeepsInv DEF TickSliceEnds
<1>2. CASE ~TerminalCorrupt
    <2> DEFINE r == UpdateDynamicPrority(rq, current_task)
               kept == Keep(tasks, Range(tasks) \ Range(terminal))
               f == FindNextTask(r, current_task, pro_map, kept, NoTask)
    <2>1. Schedule(f) /\ rq.dyn[current_task] # -1
        BY <1>2 DEF TickSliceEnds
    <2>2. Fit(f)
        BY <2>1, TickSliceEndsFits
    <2> HIDE DEF f
    <2> QED
        BY <2>1, <2>2, ScheduleKeepsInv
<1> QED
    BY <1>1, <1>2

---------------------------------------------------------------------------
(* task_exit.                                                              *)

\* wakeup_parent wakes init or nobody, and puts init back behind idle.
LEMMA WakeupParent ==
    ASSUME Inv, NEW p
    PROVE  LET parent == WaitingParent(p)
               woken == IF parent = NoTask THEN rq ELSE AddSched(rq, parent)
           IN  /\ Sound(woken, Task) /\ woken.changed \subseteq {}
               /\ woken.dyn = rq.dyn /\ woken.counter = rq.counter
               /\ Queued(woken) = Queued(rq)
               /\ Without(wait, parent) \in Seq(Task)
               /\ \/ /\ woken.sched[IdleList] = <<IdleTask, InitTask>>
                     /\ Without(wait, parent) = <<>>
                  \/ /\ woken.sched[IdleList] = <<IdleTask>>
                     /\ Without(wait, parent) = <<InitTask>>
<1> DEFINE parent == WaitingParent(p)
           woken == IF parent = NoTask THEN rq ELSE AddSched(rq, parent)
           rest == Without(wait, parent)
<1>0. /\ Sound(rq, Task) /\ rq.changed = {} /\ InitTask \in Task
      /\ rq.dyn[InitTask] = -1 /\ NoTask \notin Task
    BY InvRunQueue, TaskAssumption DEF Inv, IdleInv
<1>1. /\ wait \in Seq(Task)
      /\ parent = NoTask \/ parent \in Range(wait)
    <2>1. wait \in Seq(Task)
        BY DEF Inv, TypeOK
    <2> DEFINE S == {t \in Task : pid[t] = p}
    <2>2. parent = FirstIn(wait, S, NoTask)
        BY DEF WaitingParent
    <2> HIDE DEF parent, S
    <2> QED
        BY <2>1, <2>2, FirstInQueue
<1>2. /\ rest \in Seq(Task) /\ Range(rest) = Range(wait) \ {parent}
      /\ parent \notin Range(wait) => rest = wait
    BY <1>1, WithoutQueue
<1>3. \/ /\ rq.sched[IdleList] = <<IdleTask, InitTask>>
         /\ wait = <<>> /\ Range(wait) = {}
      \/ /\ rq.sched[IdleList] = <<IdleTask>>
         /\ wait = <<InitTask>> /\ Range(wait) = {InitTask}
    BY IdleListStates DEF Range
<1> HIDE DEF parent, rest
<1>4. CASE parent = NoTask
    <2>1. woken = rq
        BY <1>4
    <2>2. rest = wait
        BY <1>0, <1>2, <1>3, <1>4
    <2> HIDE DEF woken
    <2> QED
        BY <1>0, <1>2, <1>3, <2>1, <2>2 DEF woken, rest, parent
<1>5. CASE parent # NoTask
    <2>1. /\ parent = InitTask /\ rq.sched[IdleList] = <<IdleTask>>
          /\ Range(rest) = {}
        BY <1>1, <1>2, <1>3, <1>5
    <2>2. rest = <<>>
        BY <1>2, <2>1 DEF Range
    <2>3. woken = AddSched(rq, InitTask)
        BY <1>5, <2>1
    <2> HIDE DEF woken
    <2>4. /\ Sound(woken, Task) /\ SameFields(rq, woken)
          /\ woken.sched[IdleList] = Append(rq.sched[IdleList], InitTask)
          /\ Queued(woken) = Queued(rq)
        BY <1>0, <2>3, AddSchedAdds
    <2>5. woken.sched[IdleList] = <<IdleTask, InitTask>>
        <3>1. Append(<<IdleTask>>, InitTask) = <<IdleTask, InitTask>>
            BY TaskAssumption, QueueOfTwo
        <3> QED
            BY <2>1, <2>4, <3>1, Zenon
    <2> QED
        BY <1>0, <1>2, <2>2, <2>4, <2>5 DEF SameFields, woken, rest, parent
<1> QED
    BY <1>4, <1>5

LEMMA TaskExitKeepsInv ==
    ASSUME Inv, TaskExit
    PROVE  Inv'
<1> DEFINE cur == current_task
           parent == WaitingParent(ppid[cur])
           woken == IF parent = NoTask THEN rq ELSE AddSched(rq, parent)
           r == UpdateIsChanged(UpdateDynamicPrority(woken, cur), tasks)
           f == FindNextTask(r, cur, ProMap(r), tasks, NoTask)
           left == RemoveSched(f.rq, cur)
<1>0. /\ rq' = left /\ pro_map' = ProMap(left)
      /\ wait' = Without(wait, parent)
      /\ state' = [t \in Task |->
                      IF t = cur THEN TASK_TERMINAL
                      ELSE IF t = parent THEN TASK_READY ELSE state[t]]
      /\ current_task' = f.next
      /\ terminal' = Append(terminal, cur)
      /\ pid_map' = pid_map \ {pid[cur]}
      /\ UNCHANGED <<next_pid, pid, ppid, tasks, halted, shell>>
    BY DEF TaskExit, PidFree, idVars
<1>1. cur \in Queued(rq) /\ cur \in Task /\ cur \notin Special
    BY InvRunQueue DEF TaskExit, Inv, CurrentInv, Special
<1>2. /\ Sound(woken, Task) /\ woken.changed \subseteq {}
      /\ woken.dyn = rq.dyn /\ woken.counter = rq.counter
      /\ Queued(woken) = Queued(rq)
      /\ Without(wait, parent) \in Seq(Task)
      /\ \/ /\ woken.sched[IdleList] = <<IdleTask, InitTask>>
            /\ Without(wait, parent) = <<>>
         \/ /\ woken.sched[IdleList] = <<IdleTask>>
            /\ Without(wait, parent) = <<InitTask>>
    BY WakeupParent
<1>3. /\ Queued(rq) \subseteq Range(tasks) \ Range(terminal)
      /\ IsFiniteSet(Task)
    BY TaskAssumption DEF Inv, QueueInv
<1> HIDE DEF cur, parent, woken
<1>4. /\ Sound(r, Task)
      /\ Queued(r) = Queued(woken)
      /\ r.sched[IdleList] = woken.sched[IdleList]
      /\ r.changed \subseteq {}
      /\ \A t \in Queued(woken) : t # cur => r.counter[t] = SchedTime(r.dyn[t])
      /\ \A t \in Task : t \notin Queued(woken) \/ t = cur =>
            r.counter[t] = woken.counter[t] /\ r.dyn[t] = woken.dyn[t]
    BY <1>1, <1>2, <1>3, SweepThenClear
<1> HIDE DEF r
<1>5. /\ f.next = Head(r.sched[IdleList])
      /\ Sound(f.rq, Task)
      /\ Queued(f.rq) = Queued(r)
      /\ f.rq.sched[IdleList] = r.sched[IdleList]
      /\ f.rq.changed = (r.changed \cup {cur}) \ Range(tasks)
      /\ \A t \in Task : t # cur => /\ f.rq.dyn[t] = r.dyn[t]
                                    /\ f.rq.counter[t] = r.counter[t]
    BY <1>1, <1>2, <1>4, NextAfterQueued
<1> HIDE DEF f
<1>6. cur \notin Range(f.rq.sched[IdleList])
    BY <1>1, <1>2, <1>4, <1>5 DEF Range, Special
<1>7. /\ Sound(left, Task) /\ SameFields(f.rq, left)
      /\ left.sched[IdleList] = f.rq.sched[IdleList]
      /\ Queued(left) = Queued(f.rq) \ {cur}
    BY <1>5, <1>6, RemoveSchedRemoves, ListsApart
<1> HIDE DEF left
<1>8. /\ Queued(left) = Queued(rq) \ {cur}
      /\ left.sched[IdleList] = woken.sched[IdleList]
      /\ left.changed = {}
      /\ \A t \in Queued(rq) :
            t # cur => left.counter[t] = SchedTime(left.dyn[t])
      /\ \A t \in Task \ Queued(rq) : /\ left.dyn[t] = rq.dyn[t]
                                      /\ left.counter[t] = rq.counter[t]
    <2>1. Queued(left) = Queued(rq) \ {cur}
        BY <1>2, <1>4, <1>5, <1>7
    <2>2. left.sched[IdleList] = woken.sched[IdleList]
        BY <1>4, <1>5, <1>7
    <2>3. left.changed = {}
        BY <1>1, <1>3, <1>4, <1>5, <1>7 DEF SameFields
    <2>4. Queued(rq) \subseteq Task
        BY InvRunQueue
    <2>5. \A t \in Task : t # cur => /\ left.dyn[t] = r.dyn[t]
                                     /\ left.counter[t] = r.counter[t]
        BY <1>5, <1>7 DEF SameFields
    <2> QED
        BY <1>1, <1>2, <1>4, <2>1, <2>2, <2>3, <2>4, <2>5
<1>9. f.next = IdleTask
    BY <1>2, <1>4, <1>5
<1>10. /\ terminal \in Seq(Task) /\ state \in [Task -> Int]
       /\ pid_map \subseteq Pids
    BY DEF Inv, TypeOK
<1>11. /\ terminal' \in Seq(Task)
       /\ Range(terminal') = Range(terminal) \cup {cur}
    BY <1>0, <1>1, <1>10, AppendQueue
<1>12. TypeOK'
    <2>1. rq' \in RunQueue(Task) /\ pro_map' \subseteq Level
        BY <1>0, <1>7, RunQueueInv, ProMapLevels
    <2>2. state' \in [Task -> Int]
        BY <1>0, <1>10 DEF TASK_TERMINAL, TASK_READY
    <2>3. current_task' \in Task /\ pid_map' \subseteq Pids
        BY <1>0, <1>9, <1>10, TaskAssumption
    <2>4. wait' \in Seq(Task)
        BY <1>0, <1>2
    <2> QED
        BY <1>0, <1>11, <2>1, <2>2, <2>3, <2>4 DEF Inv, TypeOK
<1>13. OnOwnLevel' /\ NoFrozenPriority'
    BY <1>0, <1>7, <1>8, RunQueueInv DEF NoFrozenPriority
<1>14. FullSlice'
    <2>1. \A t \in Queued(rq') :
             rq'.counter[t] = SchedTime(rq'.dyn[t]) /\ rq'.dyn[t] \in Level
        BY <1>0, <1>7, <1>8, QueuedOnLevel
    <2> QED
        BY <2>1, SchedTimePositive DEF FullSlice
<1>15. IdleInv'
    <2>1. rq'.dyn[IdleTask] = -1 /\ rq'.dyn[InitTask] = -1
        BY <1>0, <1>8, InvRunQueue DEF Inv, IdleInv, Special
    <2> QED
        BY <2>1, <1>0, <1>2, <1>8, <1>9, TaskAssumption DEF IdleInv
<1>16. CurrentInv'
    BY <1>0, <1>9 DEF CurrentInv, Special
<1>17. QueueInv'
    BY <1>0, <1>3, <1>8, <1>11 DEF QueueInv
<1>18. PidInv'
    BY <1>0, <1>1, <1>8 DEF Inv, PidInv
<1>19. CreateInv'
    BY <1>0, <1>1, <1>8, <1>11 DEF Inv, CreateInv
<1> QED
    BY <1>12, <1>13, <1>14, <1>15, <1>16, <1>17, <1>18, <1>19 DEF Inv

---------------------------------------------------------------------------
(* pc_kill and the end of wait_pid.                                        *)

LEMMA PcKillKeepsInv ==
    ASSUME Inv, NEW p \in Pids, PcKill(p)
    PROVE  Inv'
<1> DEFINE t == FindInTasks(p)
           left == RemoveSched(rq, t)
<1>0. /\ rq' = left /\ pro_map' = ProMap(left)
      /\ wait' = Without(wait, t)
      /\ state' = [state EXCEPT ![t] = TASK_TERMINAL]
      /\ terminal' = Append(Without(terminal, t), t)
      /\ pid_map' = pid_map \ {p}
      /\ UNCHANGED <<next_pid, pid, ppid, tasks, current_task, halted, shell>>
      /\ t # NoTask /\ p \notin {IDLE_PID, INIT_PID}
      /\ current_task = InitTask /\ shell.at = "shell"
    BY DEF PcKill, Command, PidFree, idVars
<1>1. t \in Task /\ pid[t] = p
    <2>1. tasks \in Seq(Task)
        BY DEF Inv, TypeOK
    <2> DEFINE S == {u \in Task : pid[u] = p}
    <2>2. t = FirstIn(tasks, S, NoTask)
        BY DEF FindInTasks
    <2> HIDE DEF t, S
    <2>3. t \in S
        BY <1>0, <2>1, <2>2, FirstInQueue
    <2> QED
        BY <2>3 DEF S
<1>2. t \notin Special
    BY <1>0, <1>1 DEF Inv, PidInv, Special
<1>3. /\ wait = <<>> /\ rq.sched[IdleList] = <<IdleTask, InitTask>>
      /\ Range(wait) = {} /\ t \notin Range(rq.sched[IdleList])
    <2>1. wait = <<>> /\ rq.sched[IdleList] = <<IdleTask, InitTask>>
        BY <1>0 DEF Inv, IdleInv
    <2>2. Range(wait) = {} /\ Range(rq.sched[IdleList]) = Special
        BY <2>1 DEF Range, Special
    <2> QED
        BY <1>2, <2>1, <2>2
<1> HIDE DEF t
<1>4. /\ Sound(left, Task) /\ SameFields(rq, left)
      /\ left.sched[IdleList] = rq.sched[IdleList]
      /\ Queued(left) = Queued(rq) \ {t}
    BY <1>3, InvRunQueue, RemoveSchedRemoves, ListsApart
<1> HIDE DEF left
<1>5. /\ terminal \in Seq(Task) /\ wait \in Seq(Task)
      /\ state \in [Task -> Int] /\ pid_map \subseteq Pids
    BY DEF Inv, TypeOK
<1>6. wait' = <<>>
    BY <1>0, <1>3, <1>5, WithoutQueue
<1>7. /\ terminal' \in Seq(Task)
      /\ Range(terminal') = (Range(terminal) \ {t}) \cup {t}
    <2>1. /\ Without(terminal, t) \in Seq(Task)
          /\ Range(Without(terminal, t)) = Range(terminal) \ {t}
        BY <1>5, WithoutQueue
    <2> QED
        BY <1>0, <1>1, <2>1, AppendQueue
<1>8. TypeOK'
    <2>1. rq' \in RunQueue(Task) /\ pro_map' \subseteq Level
        BY <1>0, <1>4, RunQueueInv, ProMapLevels
    <2>2. state' \in [Task -> Int]
        BY <1>0, <1>1, <1>5 DEF TASK_TERMINAL
    <2>3. wait' \in Seq(Task) /\ pid_map' \subseteq Pids
        BY <1>0, <1>3, <1>5, <1>6
    <2> QED
        BY <1>0, <1>7, <2>1, <2>2, <2>3 DEF Inv, TypeOK
<1>9. OnOwnLevel' /\ NoFrozenPriority'
    BY <1>0, <1>4, RunQueueInv DEF Inv, NoFrozenPriority, SameFields
<1>10. FullSlice'
    BY <1>0, <1>4 DEF Inv, FullSlice, SameFields
<1>11. IdleInv' /\ CurrentInv'
    BY <1>0, <1>3, <1>4, <1>6
       DEF Inv, IdleInv, CurrentInv, SameFields, Special
<1>12. QueueInv' /\ PidInv'
    BY <1>0, <1>4, <1>7 DEF Inv, QueueInv, PidInv
<1>13. CreateInv'
    BY <1>0 DEF CreateInv
<1> QED
    BY <1>8, <1>9, <1>10, <1>11, <1>12, <1>13 DEF Inv

LEMMA WaitSleepsKeepsInv ==
    ASSUME Inv, WaitSleeps
    PROVE  Inv'
<1> DEFINE r == UpdateIsChanged(UpdateDynamicPrority(rq, InitTask), tasks)
           f == FindNextTask(r, InitTask, ProMap(r), tasks, NoTask)
           left == RemoveSched(f.rq, InitTask)
<1>0. /\ current_task = InitTask /\ shell.at = "window"
      /\ IF f.next = NoTask THEN Halt("wild pointer")
         ELSE /\ rq' = left
              /\ pro_map' = ProMap(left)
              /\ current_task' = f.next
              /\ state' = [state EXCEPT ![InitTask] = -shell.pid]
              /\ wait' = Append(wait, InitTask)
              /\ shell' = [shell EXCEPT !.at = "asleep"]
              /\ UNCHANGED <<pid_map, next_pid, pid, ppid, tasks, terminal,
                             halted>>
    BY DEF WaitSleeps, Command, pidVars, idVars
<1>1. CASE f.next = NoTask
    BY <1>0, <1>1, HaltKeepsInv
<1>2. CASE f.next # NoTask
    <2>1. /\ wait = <<>> /\ rq.sched[IdleList] = <<IdleTask, InitTask>>
          /\ LastOfIdleList(rq, InitTask)
          /\ Head(rq.sched[IdleList]) = IdleTask
        BY <1>0, IdleListStates
    <2>2. /\ Queued(rq) \subseteq Range(tasks) \ Range(terminal)
          /\ Sound(rq, Task) /\ rq.changed = {}
          /\ Queued(rq) \subseteq Task \ Special
          /\ IsFiniteSet(Task) /\ InitTask \in Task /\ IdleTask \in Task
          /\ InitTask # IdleTask
        BY InvRunQueue DEF Inv, QueueInv
    <2>3. /\ Sound(r, Task)
          /\ Queued(r) = Queued(rq)
          /\ r.sched[IdleList] = rq.sched[IdleList]
          /\ r.changed \subseteq {}
          /\ \A t \in Queued(rq) :
                t # InitTask => r.counter[t] = SchedTime(r.dyn[t])
          /\ \A t \in Task : t \notin Queued(rq) \/ t = InitTask =>
                r.counter[t] = rq.counter[t] /\ r.dyn[t] = rq.dyn[t]
        BY <2>2, SweepThenClear
    <2> HIDE DEF r
    <2>4. LastOfIdleList(r, InitTask)
        BY <2>1, <2>3 DEF LastOfIdleList
    <2>5. f.rq = r /\ f.next = FindInProMap(r, ProMap(r), NoTask)
        BY <2>4 DEF FindNextTask
    <2> HIDE DEF f
    <2>6. f.next = IdleTask \/ f.next \in Queued(rq)
        <3>1. ProMap(r) \subseteq Level
            BY <2>3, ProMapLevels
        <3> QED
            BY <1>2, <2>1, <2>3, <2>5, <3>1, FoundIsQueued
    <2>7. /\ Sound(left, Task) /\ SameFields(r, left)
          /\ left.sched[IdleList] = Without(r.sched[IdleList], InitTask)
          /\ Queued(left) = Queued(rq)
        <3>1. left = RemoveSched(r, InitTask)
            BY <2>5
        <3> HIDE DEF left
        <3>2. Queued(left) = Queued(r) \ {InitTask}
            BY <2>3, <3>1, RemoveSchedRemoves
        <3> QED
            BY <2>2, <2>3, <3>1, <3>2, RemoveSchedRemoves, ListsApart
               DEF Special
    <2> HIDE DEF left
    <2>8. left.sched[IdleList] = <<IdleTask>>
        <3> DEFINE q == r.sched[IdleList]
                   S == Range(q) \ {InitTask}
        <3>1. q \in Seq(Task) /\ Range(q) = Special
            BY <2>1, <2>2, <2>3 DEF Range, Special
        <3>2. S = {IdleTask} /\ Without(q, InitTask) = Keep(q, S)
            BY <2>2, <3>1 DEF Special, Without
        <3>3. Range(q) \cap S = {IdleTask}
            BY <3>1, <3>2 DEF Special
        <3> HIDE DEF q, S
        <3>4. /\ Keep(q, S) \in Seq(Task)
              /\ Range(Keep(q, S)) = Range(q) \cap S
              /\ Len(Keep(q, S)) = Cardinality(Range(q) \cap S)
            BY <3>1, KeepQueue
        <3>5. Cardinality({IdleTask}) = 1
            BY FS_Singleton
        <3>6. Keep(q, S) = <<IdleTask>>
            BY <3>3, <3>4, <3>5, QueueOfOne
        <3> QED
            BY <2>7, <3>2, <3>6 DEF q
    <2>9. /\ shell \in Shell /\ state \in [Task -> Int]
          /\ wait \in Seq(Task)
        BY DEF Inv, TypeOK
    <2>10. shell' \in Shell /\ shell'.at = "asleep"
        BY <1>0, <1>2, <2>9 DEF Shell
    <2>11. wait' = <<InitTask>>
        <3>1. Append(<<>>, InitTask) = <<InitTask>>
            OBVIOUS
        <3> QED
            BY <1>0, <1>2, <2>1, <3>1
    <2>12. TypeOK'
        <3>1. rq' \in RunQueue(Task) /\ pro_map' \subseteq Level
            BY <1>0, <1>2, <2>7, RunQueueInv, ProMapLevels
        <3>2. -shell.pid \in Int
            BY <2>9, PidNumAssumption DEF Shell, Pids
        <3>3. state' \in [Task -> Int]
            BY <1>0, <1>2, <2>9, <3>2
        <3>4. wait' \in Seq(Task) /\ current_task' \in Task
            BY <1>0, <1>2, <2>2, <2>6, <2>11
        <3> QED
            BY <1>0, <1>2, <2>10, <3>1, <3>3, <3>4 DEF Inv, TypeOK
    <2>13. OnOwnLevel' /\ NoFrozenPriority'
        BY <1>0, <1>2, <2>3, <2>7, RunQueueInv
           DEF NoFrozenPriority, SameFields
    <2>14. FullSlice'
        <3>1. \A t \in Queued(rq') :
                 rq'.counter[t] = SchedTime(rq'.dyn[t]) /\ rq'.dyn[t] \in Level
            BY <1>0, <1>2, <2>2, <2>3, <2>7, QueuedOnLevel
               DEF SameFields, Special
        <3> QED
            BY <3>1, SchedTimePositive DEF FullSlice
    <2>15. IdleInv'
        <3>1. rq'.dyn[IdleTask] = -1 /\ rq'.dyn[InitTask] = -1
            BY <1>0, <1>2, <2>2, <2>3, <2>7
               DEF Inv, IdleInv, SameFields, Special
        <3>2. current_task' # InitTask
            BY <1>0, <1>2, <2>2, <2>6 DEF Special
        <3> QED
            BY <3>1, <3>2, <1>0, <1>2, <2>8, <2>11 DEF IdleInv
    <2>16. CurrentInv' /\ QueueInv' /\ PidInv'
        BY <1>0, <1>2, <2>6, <2>7
           DEF Inv, CurrentInv, QueueInv, PidInv, Special
    <2>17. CreateInv'
        BY <2>10 DEF CreateInv
    <2> QED
        BY <2>12, <2>13, <2>14, <2>15, <2>16, <2>17 DEF Inv
<1> QED
    BY <1>1, <1>2

---------------------------------------------------------------------------
(* The invariant.                                                          *)

LEMMA InitInv ==
    ASSUME Init
    PROVE  Inv
<1> USE DEF Init, PidBooted
<1>1. /\ rq.sched = [i \in Lists |-> IF i = IdleList
                                     THEN <<IdleTask, InitTask>> ELSE <<>>]
      /\ rq.dyn = [t \in Task |-> -1]
      /\ rq.counter = [t \in Task |-> MAX_TIMESLICE]
      /\ rq.sleep = [t \in Task |-> 0] /\ rq.changed = {}
      /\ rq.sched[IdleList] = <<IdleTask, InitTask>>
      /\ \A i \in Level : rq.sched[i] = <<>>
    BY ListsApart
<1>2. \A i \in Level : Range(rq.sched[i]) = {}
    BY <1>1 DEF Range
<1>3. Queued(rq) = {}
    BY <1>2 DEF Queued
<1>4. TypeOK
    <2>1. rq \in RunQueue(Task)
        <3>1. /\ <<IdleTask, InitTask>> \in Seq(Task) /\ <<>> \in Seq(Task)
              /\ -1 \in -1..PRORITY_NUM-1 /\ MAX_TIMESLICE \in Nat
            BY TaskAssumption, SchedAssumption
        <3> QED
            BY <3>1 DEF RunQueue
    <2>2. pid_map \subseteq Pids /\ next_pid \in Pids
        BY PidNumAssumption DEF IDLE_PID, INIT_PID, Pids
    <2>3. pid \in [Task -> Pids] /\ ppid \in [Task -> Pids]
        BY PidNumAssumption DEF IDLE_PID, INIT_PID, Pids
    <2>4. state \in [Task -> Int]
        BY DEF TASK_READY, TASK_UNINIT
    <2>5. tasks \in Seq(Task) /\ wait \in Seq(Task) /\ terminal \in Seq(Task)
        BY TaskAssumption
    <2>6. shell \in Shell
        BY PidNumAssumption, SchedAssumption DEF Shell, IDLE_PID, Pids
    <2> QED
        BY <2>1, <2>2, <2>3, <2>4, <2>5, <2>6, TaskAssumption DEF TypeOK
<1>5. OnOwnLevel
    <2> SUFFICES ASSUME NEW i \in Lists, NEW t \in Range(rq.sched[i])
                 PROVE  rq.dyn[t] = IF i = IdleList THEN -1 ELSE i
        BY DEF OnOwnLevel
    <2>1. i = IdleList
        BY <1>2, ListsApart
    <2>2. t \in Task
        BY <1>1, <2>1, TaskAssumption DEF Range
    <2> QED
        BY <1>1, <2>1, <2>2
<1>6. FullSlice /\ NoFrozenPriority
    BY <1>1, <1>3 DEF FullSlice, NoFrozenPriority
<1>7. IdleInv
    BY <1>1, TaskAssumption DEF IdleInv
<1>8. CurrentInv /\ QueueInv
    BY <1>3 DEF CurrentInv, QueueInv, Special
<1>9. PidInv
    BY <1>3, TaskAssumption DEF PidInv
<1>10. CreateInv
    BY DEF CreateInv
<1> QED
    BY <1>4, <1>5, <1>6, <1>7, <1>8, <1>9, <1>10 DEF Inv

LEMMA StutterKeepsInv ==
    ASSUME Inv, UNCHANGED vars
    PROVE  Inv'
<1>1. {IDLE_PID, INIT_PID} \subseteq pid_map'
    BY DEF vars, Inv, PidInv
<1>2. Queued(rq)' = Queued(rq)
    BY DEF vars, Queued
<1>3. TypeOK' /\ CreateInv'
    BY <1>2 DEF vars, Inv, TypeOK, CreateInv
<1> QED
    BY <1>1, <1>3, RunQueueUnchanged DEF vars, Inv

LEMMA NextKeepsInv ==
    ASSUME Inv, [Next]_vars
    PROVE  Inv'
<1>1. CASE UNCHANGED vars
    BY <1>1, StutterKeepsInv
<1>2. CASE Tick
    BY <1>2, TickRunsOnKeepsInv, TickSliceEndsKeepsInv, TickIdleKeepsInv
       DEF Tick
<1>3. CASE TaskExit
    BY <1>3, TaskExitKeepsInv
<1>4. ASSUME NEW p \in Pids, PcKill(p)
      PROVE  Inv'
    BY <1>4, PcKillKeepsInv
<1>5. ASSUME NEW prio \in Level, NEW waits \in BOOLEAN,
             CreateStart(prio, waits)
      PROVE  Inv'
    BY <1>5, CreateStartKeepsInv
<1>6. CASE CommandStep
    <2>1. ASSUME NEW t \in Task, CreateFillsIn(t)
          PROVE  Inv'
        BY <2>1, CreateFillsInKeepsInv
    <2>2. CASE CreateClaimsPid \/ CreateFails \/ CreateLinks
        BY <2>2, CreateClaimsPidKeepsInv, CreateFailsKeepsInv,
           CreateLinksKeepsInv
    <2>3. CASE CreateQueues \/ CreateLoadsBit \/ CreateStoresBit
        BY <2>3, CreateQueuesKeepsInv, CreateLoadsBitKeepsInv,
           CreateStoresBitKeepsInv
    <2>4. CASE CreateReadies \/ WaitCheck \/ WaitSleeps \/ WaitReturns
        BY <2>4, CreateReadiesKeepsInv, WaitCheckKeepsInv,
           WaitSleepsKeepsInv, WaitReturnsKeepsInv
    <2> QED
        BY <1>6, <2>1, <2>2, <2>3, <2>4 DEF CommandStep
<1> QED
    BY <1>1, <1>2, <1>3, <1>4, <1>5, <1>6 DEF Next

\* The inductive invariant holds in every state the kernel reaches.
THEOREM Invariant == Spec => []Inv
<1>1. Init => Inv
    BY InitInv
<1>2. Inv /\ [Next]_vars => Inv'
    BY NextKeepsInv
<1> QED
    BY <1>1, <1>2, PTL DEF Spec

\* Whatever the timer interrupts, every variable keeps its type: the lists
\* hold task_structs only, priorities stay levels, pids stay below PID_NUM.
THEOREM TypeCorrect == Spec => []TypeOK
<1>1. Inv => TypeOK
    BY DEF Inv
<1> QED
    BY <1>1, Invariant, PTL

\* No handler leaves a task on the list of another priority than its own:
\* the sweep, the requeueing at the end of a slice, task_create, wakeup_parent
\* and wait_pid agree on where a task is.
THEOREM TasksOnTheirLevel == Spec => []OnOwnLevel
<1>1. Inv => OnOwnLevel
    BY DEF Inv
<1> QED
    BY <1>1, Invariant, PTL

\* A task that waits for the processor has the whole slice of its level and
\* the running one has a tick left: pc_schedule's decrement never wraps.
THEOREM SlicesNeverWrap == Spec => []FullSlice
<1>1. Inv => FullSlice
    BY DEF Inv
<1> QED
    BY <1>1, Invariant, PTL

\* Every is_changed flag that a handler sets is cleared before it returns:
\* the next sweep can adjust every task again.
THEOREM FlagsAlwaysCleared == Spec => []NoFrozenPriority
<1>1. Inv => NoFrozenPriority
    BY DEF Inv
<1> QED
    BY <1>1, Invariant, PTL

---------------------------------------------------------------------------
(* The layers above Inv.                                                   *)

\* Every task is in one place: special, queued or dead, except the one that
\* task_create has linked and not queued yet.
ListsInv ==
    /\ Once(rq) /\ IsInjective(tasks) /\ IsInjective(terminal)
    /\ Special \cap Range(terminal) = {}
    /\ Range(tasks) = Special \cup Queued(rq) \cup Range(terminal)
                        \cup IF shell.at = "queue" THEN {shell.task} ELSE {}

\* The states tell the place, and only the running task is TASK_RUNNING.
StateInv ==
    /\ \A t \in Range(tasks) : /\ t \in Range(terminal) <=> state[t] = TASK_TERMINAL
                               /\ t \in Range(wait) <=> state[t] < 0
    /\ state[InitTask] # -INIT_PID
    /\ \A t \in Task : state[t] = TASK_RUNNING => t = current_task
    /\ current_task = InitTask => state[InitTask] = TASK_RUNNING

\* A command has the processor unless a tick took it away, once.  The task
\* that task_create builds is fresh, and when it has died before task_create
\* returns, it is unlinked before init goes on.
CommandInv ==
    /\ shell.at # "shell" => shell.pid \notin {IDLE_PID, INIT_PID}
    /\ shell.at \in CommandPoints =>
        /\ wait = <<>>
        /\ current_task # InitTask => shell.at \in Preemptible /\ shell.hit = shell.at
    /\ shell.at \in {"link", "queue"} => state[shell.task] = TASK_UNINIT
    /\ shell.at = "link" => shell.task \notin Range(tasks)
    /\ shell.at \in {"load", "store", "ready"} =>
        /\ shell.task \notin Special
        /\ shell.task \in Range(terminal) => current_task = IdleTask

TasksInv == ListsInv /\ StateInv /\ CommandInv

\* No pid is lost or shared, whatever ends while pid_alloc and kmalloc run.
PidsInv ==
    /\ PidsOwned
    /\ shell.at = "pid" => /\ shell.pid \notin pid_map
                           /\ shell.byte = pid_map \cap PidByte(shell.pid)
    /\ shell.at \in {"alloc", "link"} => \A t \in Live : pid[t] # shell.pid
    /\ shell.at = "link" => pid[shell.task] = shell.pid

\* Between its read and its write of a byte of pro_map, add_pro_map's copy is
\* what the byte holds.
ByteLoaded ==
    shell.at = "store" =>
        /\ shell.prio = rq.dyn[shell.task]
        /\ shell.byte = pro_map \cap ProByte(shell.prio)

\* Until a tick hits the command, the task that task_create has queued and
\* not announced stands behind the others of its level.
BehindOthers ==
    shell.at \in {"load", "store"} /\ shell.hit = "no" =>
        /\ \A i \in pro_map : Head(rq.sched[i]) # shell.task
        /\ \A i \in Level \ pro_map : Range(rq.sched[i]) \subseteq {shell.task}

StillQueued == shell.at \in {"load", "store"} => shell.task \in Queued(rq)

MapInv ==
    /\ ProMapExact /\ HighestRuns /\ UnannouncedNotRun
    /\ ByteLoaded /\ BehindOthers /\ StillQueued

\* The child that wait_pid has found does not die before wait_pid sleeps, as
\* long as no tick hits it there.
WaitInv ==
    /\ WaitsForTheLiving
    /\ shell.at = "window" /\ shell.hit # "window" =>
        \E c \in Live : pid[c] = shell.pid /\ ppid[c] = pid[InitTask]

---------------------------------------------------------------------------
(* The effects of the handlers, in the terms of the invariants.            *)

\* The running task is charged a unit of its slice.
Charged ==
    /\ current_task \in Queued(rq)
    /\ rq'.sched = rq.sched /\ rq'.dyn = rq.dyn
    /\ UNCHANGED <<pid_map, next_pid, pid, ppid, state, tasks, wait, terminal,
                   pro_map, current_task, halted, shell>>

\* A tick that hits a command of init is the first one that does.
Ticked ==
    IF current_task = InitTask /\ shell.at \in CommandPoints
    THEN /\ shell.at \in Preemptible /\ shell.hit = "no"
         /\ shell' = [shell EXCEPT !.hit = shell.at]
    ELSE shell' = shell

\* The processor goes from a priority task to idle, after the sweep.
FromPriority ==
    /\ current_task \in Queued(rq) /\ current_task' = IdleTask
    /\ pro_map' = InUse(rq')

\* The processor goes from idle to init, or from the last of the two to the
\* task that the bitmap yields.
FromSpecial ==
    /\ current_task \in Special
    /\ rq' = rq /\ pro_map' = pro_map
    /\ \/ current_task = IdleTask /\ current_task' = InitTask /\ wait = <<>>
       \/ /\ current_task = InitTask \/ wait = <<InitTask>>
          /\ current_task' = FindInProMap(rq, pro_map, NoTask)

\* A tick switches to another task and unlinks the dead ones.
Switched ==
    /\ FromPriority \/ FromSpecial
    /\ current_task' # current_task
    /\ current_task' \in Special \cup Queued(rq)
    /\ current_task' = InitTask => wait = <<>>
    /\ IsInjective(tasks') /\ Range(tasks') = Range(tasks) \ Range(terminal)
    /\ terminal' = <<>> /\ Range(terminal') = {}
    /\ Queued(rq') = Queued(rq)
    /\ Once(rq) => Once(rq')
    /\ \A t \in Task : state'[t] = IF t = current_task' THEN TASK_RUNNING
                                   ELSE IF t = current_task THEN TASK_READY
                                   ELSE state[t]
    /\ Ticked
    /\ UNCHANGED <<pid_map, next_pid, pid, ppid, wait, halted>>

\* The running task dies and wakes init if that waits for a child of the
\* same parent.
Exited ==
    /\ current_task \in Queued(rq)
    /\ Queued(rq') = Queued(rq) \ {current_task}
    /\ Once(rq) => Once(rq')
    /\ pro_map' = InUse(rq')
    /\ current_task' = IdleTask
    /\ Range(terminal') = Range(terminal) \cup {current_task}
    /\ IsInjective(terminal) /\ current_task \notin Range(terminal) =>
            IsInjective(terminal')
    /\ pid_map' = pid_map \ {pid[current_task]}
    /\ \/ /\ wait' = wait
          /\ wait = <<InitTask>> => ppid[current_task] # pid[InitTask]
          /\ \A t \in Task : state'[t] = IF t = current_task THEN TASK_TERMINAL
                                         ELSE state[t]
       \/ /\ wait = <<InitTask>> /\ wait' = <<>>
          /\ \A t \in Task : state'[t] = IF t = current_task THEN TASK_TERMINAL
                                         ELSE IF t = InitTask THEN TASK_READY
                                         ELSE state[t]
    /\ UNCHANGED <<next_pid, pid, ppid, tasks, halted, shell>>

\* The shell kills the task t with pid p.
Killed(t, p) ==
    /\ current_task = InitTask /\ shell.at = "shell"
    /\ wait = <<>> /\ wait' = <<>>
    /\ t \in Range(tasks) \ Special /\ pid[t] = p
    /\ state[t] = TASK_TERMINAL => KillStale
    /\ Queued(rq') = Queued(rq) \ {t}
    /\ Once(rq) => Once(rq')
    /\ pro_map' = InUse(rq')
    /\ Range(terminal') = Range(terminal) \cup {t}
    /\ IsInjective(terminal) => IsInjective(terminal')
    /\ \A u \in Task : state'[u] = IF u = t THEN TASK_TERMINAL ELSE state[u]
    /\ pid_map' = pid_map \ {p}
    /\ UNCHANGED <<next_pid, pid, ppid, tasks, current_task, halted, shell>>

\* Init leaves the processor in wait_pid.
Slept ==
    /\ current_task = InitTask /\ shell.at = "window"
    /\ wait = <<>> /\ wait' = <<InitTask>>
    /\ Queued(rq') = Queued(rq)
    /\ Once(rq) => Once(rq')
    /\ pro_map' = InUse(rq')
    /\ current_task' = FindInProMap(rq', InUse(rq'), NoTask)
    /\ current_task' \in {IdleTask} \cup Queued(rq)
    /\ \A t \in Task : state'[t] = IF t = InitTask THEN -shell.pid ELSE state[t]
    /\ shell' = [shell EXCEPT !.at = "asleep"]
    /\ UNCHANGED <<pid_map, next_pid, pid, ppid, tasks, terminal, halted>>

\* The task a tick switches to: idle after a priority task, init after idle,
\* and after the last of the two what the bitmap yields.
NextIs(next) ==
    \/ current_task \in Queued(rq) /\ next = IdleTask
    \/ current_task = IdleTask /\ next = InitTask /\ wait = <<>>
    \/ /\ current_task \in Special
       /\ current_task = InitTask \/ wait = <<InitTask>>
       /\ next = FindInProMap(rq, pro_map, NoTask)

\* The kernel stops: the terminal list has a task that is not dead, or the
\* next task is none or the running one.
Stopped ==
    /\ halted' # "no"
    /\ TerminalCorrupt \/ NextIs(NoTask) \/ NextIs(current_task)
    /\ UNCHANGED <<pid_map, next_pid, pid, ppid, state, tasks, rq, wait,
                   terminal, pro_map, current_task, shell>>

LEMMA HaltStops ==
    ASSUME NEW why \in {"terminal", "wild pointer", "next == current_task"},
           Halt(why),
           TerminalCorrupt \/ NextIs(NoTask) \/ NextIs(current_task)
    PROVE  Stopped
BY DEF Halt, Stopped, pidVars, idVars

LEMMA TimerTicks ==
    ASSUME Inv, TimerOn, MarkHit
    PROVE  Ticked
BY DEF TimerOn, MarkHit, Ticked

\* Where the processor can go in a tick.
Goes(f) ==
    \/ current_task \in Queued(rq) /\ f.next = IdleTask /\ f.map = InUse(f.rq)
    \/ /\ current_task \in Special
       /\ f.rq = rq /\ f.map = pro_map
       /\ \/ current_task = IdleTask /\ f.next = InitTask /\ wait = <<>>
          \/ /\ current_task = InitTask \/ wait = <<InitTask>>
             /\ f.next = FindInProMap(rq, pro_map, NoTask)

LEMMA ScheduleSwitches ==
    ASSUME Inv, TimerOn, NEW f, Fit(f), Goes(f), Once(rq) => Once(f.rq),
           Schedule(f)
    PROVE  Switched \/ Stopped
<1>1. CASE f.next = NoTask \/ f.next = current_task
    <2>1. Halt("wild pointer") \/ Halt("next == current_task")
        BY <1>1 DEF Schedule
    <2>2. NextIs(f.next)
        BY DEF Goes, NextIs
    <2> QED
        BY <1>1, <2>1, <2>2, HaltStops
<1>2. CASE f.next # NoTask /\ f.next # current_task
    <2>0. /\ ClearTerminal /\ rq' = f.rq /\ pro_map' = f.map
          /\ SwitchTo(f.next) /\ MarkHit
          /\ UNCHANGED <<pid_map, next_pid, pid, ppid, wait, halted>>
        BY <1>2 DEF Schedule, pidVars, idVars
    <2>1. /\ tasks \in Seq(Task) /\ state \in [Task -> Int]
          /\ current_task \in Task
        BY DEF Inv, TypeOK
    <2>2. /\ f.next \in Special \cup Queued(rq) /\ f.next \in Task
          /\ f.next = InitTask => wait = <<>>
        BY <1>2, InvRunQueue DEF Fit, Special
    <2>3. /\ IsInjective(tasks')
          /\ Range(tasks') = Range(tasks) \ Range(terminal)
          /\ terminal' = <<>> /\ Range(terminal') = {}
        <3> DEFINE S == Range(tasks) \ Range(terminal)
        <3>1. tasks' = Keep(tasks, S) /\ terminal' = <<>>
            BY <2>0 DEF ClearTerminal
        <3>2. Range(tasks) \cap S = S
            OBVIOUS
        <3> HIDE DEF S
        <3>3. IsInjective(tasks') /\ Range(tasks') = S
            BY <2>1, <3>1, <3>2, KeepQueue
        <3>4. Range(<<>>) = {}
            BY DEF Range
        <3> QED
            BY <3>1, <3>3, <3>4 DEF S
    <2>4. /\ current_task' = f.next
          /\ \A t \in Task : state'[t] = IF t = f.next THEN TASK_RUNNING
                                         ELSE IF t = current_task THEN TASK_READY
                                         ELSE state[t]
        BY <1>2, <2>0, <2>1 DEF SwitchTo
    <2>5. FromPriority \/ FromSpecial
        BY <2>0, <2>4 DEF Goes, FromPriority, FromSpecial
    <2>6. Ticked
        BY <2>0, TimerTicks
    <2>7. Queued(rq') = Queued(rq) /\ (Once(rq) => Once(rq'))
        BY <2>0 DEF Fit
    <2> QED
        BY <1>2, <2>0, <2>2, <2>3, <2>4, <2>5, <2>6, <2>7 DEF Switched
<1> QED
    BY <1>1, <1>2

LEMMA TickRunsOnCharges ==
    ASSUME Inv, TickRunsOn
    PROVE  Charged
<1>1. current_task \in Queued(rq)
    BY DEF TickRunsOn, Inv, CurrentInv, IdleInv, Special
<1>2. rq \in RunQueue(Task)
    BY DEF Inv, TypeOK
<1>3. rq'.sched = rq.sched /\ rq'.dyn = rq.dyn
    BY <1>2 DEF TickRunsOn, RunQueue
<1> QED
    BY <1>1, <1>3 DEF TickRunsOn, Charged, pidVars, idVars

LEMMA TickIdleSwitches ==
    ASSUME Inv, TickIdle
    PROVE  Switched \/ Stopped
<1>1. CASE TerminalCorrupt
    BY <1>1, HaltStops DEF TickIdle
<1>2. CASE ~TerminalCorrupt
    <2> DEFINE f == FindNextTask(rq, current_task, pro_map, tasks, NoTask)
    <2>1. TimerOn /\ Schedule(f) /\ rq.dyn[current_task] = -1
        BY <1>2 DEF TickIdle
    <2>2. /\ Sound(rq, Task) /\ rq.changed = {}
          /\ pro_map \subseteq Level
        BY InvRunQueue DEF Inv, TypeOK
    <2>3. current_task \in Special /\ current_task \notin Queued(rq)
        BY <2>1, InvRunQueue, ListsApart DEF Inv, CurrentInv, Level
    <2>4. \A t \in Queued(rq) : rq.counter[t] = SchedTime(rq.dyn[t])
        BY <2>3 DEF Inv, FullSlice
    <2>5. f.rq = rq /\ f.map = pro_map
        BY <2>1 DEF FindNextTask
    <2>6. /\ Goes(f)
          /\ \/ f.next \in {NoTask, IdleTask} \cup Queued(rq)
             \/ f.next = InitTask /\ wait = <<>>
        <3>1. CASE LastOfIdleList(rq, current_task)
            <4>1. f.next = FindInProMap(rq, pro_map, NoTask)
                BY <3>1 DEF FindNextTask
            <4> HIDE DEF f
            <4>2. f.next \in {NoTask, IdleTask} \cup Queued(rq)
                BY <4>1, <2>2, FoundIsQueued, IdleListStates
            <4>3. current_task = InitTask \/ wait = <<InitTask>>
                BY <3>1, <2>3, IdleListStates DEF Special
            <4> QED
                BY <4>1, <4>2, <4>3, <2>3, <2>5 DEF Goes
        <3>2. CASE ~LastOfIdleList(rq, current_task)
            <4>1. f.next = NextOfIdleList(rq, current_task)
                BY <2>1, <3>2 DEF FindNextTask
            <4>2. current_task = IdleTask
                BY <2>3, <3>2, IdleListStates DEF Special
            <4> HIDE DEF f
            <4>3. f.next = InitTask /\ wait = <<>>
                BY <3>2, <4>1, <4>2, IdleListStates
            <4> QED
                BY <4>2, <4>3, <2>3, <2>5 DEF Goes
        <3> QED
            BY <3>1, <3>2
    <2> HIDE DEF f
    <2>7. Fit(f)
        BY <2>2, <2>4, <2>5, <2>6 DEF Fit
    <2>8. Once(rq) => Once(f.rq)
        BY <2>5
    <2> QED
        BY <2>1, <2>6, <2>7, <2>8, ScheduleSwitches
<1> QED
    BY <1>1, <1>2

LEMMA TickSliceEndsSwitches ==
    ASSUME Inv, TickSliceEnds
    PROVE  Switched \/ Stopped
<1>1. CASE TerminalCorrupt
    BY <1>1, HaltStops DEF TickSliceEnds
<1>2. CASE ~TerminalCorrupt
    <2> DEFINE cur == current_task
               r == UpdateDynamicPrority(rq, cur)
               kept == Keep(tasks, Range(tasks) \ Range(terminal))
               f == FindNextTask(r, cur, pro_map, kept, NoTask)
    <2>1. TimerOn /\ Schedule(f) /\ rq.dyn[cur] # -1
        BY <1>2 DEF TickSliceEnds
    <2>2. cur \in Queued(rq) /\ cur \in Task
        BY <2>1, InvRunQueue DEF Inv, CurrentInv, IdleInv, Special
    <2>3. Sound(rq, Task) /\ rq.changed = {} /\ IsFiniteSet(Task)
        BY InvRunQueue
    <2> HIDE DEF cur, kept
    <2>4. /\ Sound(r, Task) /\ cur \in Queued(r) /\ cur \notin r.changed
          /\ Queued(r) = Queued(rq)
          /\ r.sched[IdleList] = rq.sched[IdleList]
          /\ Once(rq) => Once(r)
        BY <2>2, <2>3, SweepFillsSlices, SweepOnce
    <2> HIDE DEF r
    <2>5. f.next = Head(r.sched[IdleList])
        BY <2>4, NextAfterQueued
    <2>6. f.map = InUse(f.rq) /\ (Once(r) => Once(f.rq))
        BY <2>4, NextKeepsOnce
    <2>7. Fit(f)
        BY <2>1, TickSliceEndsFits DEF f, r, cur, kept
    <2> HIDE DEF f
    <2>8. f.next = IdleTask
        BY <2>4, <2>5, IdleListStates
    <2>9. Goes(f)
        BY <2>2, <2>6, <2>8 DEF Goes, cur
    <2>10. Once(rq) => Once(f.rq)
        BY <2>4, <2>6
    <2> QED
        BY <2>1, <2>7, <2>9, <2>10, ScheduleSwitches
<1> QED
    BY <1>1, <1>2

\* A tick charges the running task, switches to another one or stops the
\* kernel.
LEMMA TickEffect ==
    ASSUME Inv, Tick
    PROVE  Charged \/ Switched \/ Stopped
BY TickRunsOnCharges, TickIdleSwitches, TickSliceEndsSwitches DEF Tick

\* wakeup_parent wakes init, if that has the given pid and waits, or nobody.
LEMMA ParentWoken ==
    ASSUME Inv, NEW p
    PROVE  LET parent == WaitingParent(p)
           IN  \/ /\ parent = NoTask /\ Without(wait, parent) = wait
                  /\ wait = <<InitTask>> => p # pid[InitTask]
               \/ /\ parent = InitTask /\ wait = <<InitTask>>
                  /\ Without(wait, parent) = <<>>
<1> DEFINE S == {t \in Task : pid[t] = p}
           parent == WaitingParent(p)
<1>1. wait \in Seq(Task) /\ InitTask \in Task /\ NoTask \notin Task
    BY TaskAssumption DEF Inv, TypeOK
<1>2. parent = FirstIn(wait, S, NoTask) /\ S \subseteq Task
    BY DEF WaitingParent
<1>3. \/ wait = <<>> /\ Range(wait) = {}
      \/ wait = <<InitTask>> /\ Range(wait) = {InitTask}
    BY IdleListStates DEF Range
<1>4. InitTask \in S <=> pid[InitTask] = p
    BY <1>1
<1> HIDE DEF S, parent
<1>5. /\ Range(wait) \cap S = {} => parent = NoTask
      /\ Range(wait) \cap S # {} => parent \in Range(wait) \cap S
    BY <1>1, <1>2, FirstInQueue
<1>6. /\ Without(wait, parent) \in Seq(Task)
      /\ Range(Without(wait, parent)) = Range(wait) \ {parent}
      /\ parent \notin Range(wait) => Without(wait, parent) = wait
    BY <1>1, WithoutQueue
<1>7. CASE parent = NoTask
    <2>1. Range(wait) \cap S = {}
        BY <1>1, <1>2, <1>5, <1>7
    <2>2. Without(wait, parent) = wait
        BY <1>1, <1>3, <1>6, <1>7
    <2>3. wait = <<InitTask>> => p # pid[InitTask]
        BY <2>1, <1>3, <1>4
    <2> QED
        BY <2>2, <2>3, <1>7 DEF parent
<1>8. CASE parent # NoTask
    <2>1. parent = InitTask /\ wait = <<InitTask>>
        BY <1>3, <1>5, <1>8
    <2>2. Range(Without(wait, parent)) = {}
        BY <2>1, <1>3, <1>6
    <2>3. Without(wait, parent) = <<>>
        BY <2>2, <1>6 DEF Range
    <2> QED
        BY <2>1, <2>3 DEF parent
<1> QED
    BY <1>7, <1>8

LEMMA WokenOnce ==
    ASSUME Inv, Once(rq), wait = <<InitTask>>
    PROVE  Once(AddSched(rq, InitTask))
<1>1. /\ Sound(rq, Task) /\ InitTask \in Task /\ IdleTask # InitTask
      /\ InitTask \notin Queued(rq)
    BY InvRunQueue DEF Special
<1>2. rq.sched[IdleList] = <<IdleTask>>
    BY IdleListStates
<1>3. InitTask \notin Range(rq.sched[IdleList])
    BY <1>1, <1>2 DEF Range
<1>4. \A i \in Level : InitTask \notin Range(rq.sched[i])
    BY <1>1, QueuedOnLevel
<1>5. \A i \in Lists : InitTask \notin Range(rq.sched[i])
    BY <1>3, <1>4, ListsApart
<1> QED
    BY <1>1, <1>5, AddSchedOnce

LEMMA ExitEffect ==
    ASSUME Inv, TaskExit
    PROVE  Exited
<1> DEFINE cur == current_task
           parent == WaitingParent(ppid[cur])
           woken == IF parent = NoTask THEN rq ELSE AddSched(rq, parent)
           swept == UpdateDynamicPrority(woken, cur)
           r == UpdateIsChanged(swept, tasks)
           f == FindNextTask(r, cur, ProMap(r), tasks, NoTask)
           left == RemoveSched(f.rq, cur)
<1>0. /\ rq' = left /\ pro_map' = ProMap(left)
      /\ wait' = Without(wait, parent)
      /\ state' = [t \in Task |->
                      IF t = cur THEN TASK_TERMINAL
                      ELSE IF t = parent THEN TASK_READY ELSE state[t]]
      /\ current_task' = f.next
      /\ terminal' = Append(terminal, cur)
      /\ pid_map' = pid_map \ {pid[cur]}
      /\ UNCHANGED <<next_pid, pid, ppid, tasks, halted, shell>>
    BY DEF TaskExit, PidFree, idVars
<1>1. cur \in Queued(rq) /\ cur \in Task /\ cur \notin Special
    BY InvRunQueue DEF TaskExit, Inv, CurrentInv, Special
<1>2. /\ Sound(woken, Task) /\ woken.changed \subseteq {}
      /\ Queued(woken) = Queued(rq)
      /\ \/ woken.sched[IdleList] = <<IdleTask, InitTask>>
         \/ woken.sched[IdleList] = <<IdleTask>>
    BY WakeupParent
<1>3. Queued(rq) \subseteq Range(tasks) /\ IsFiniteSet(Task)
    BY TaskAssumption DEF Inv, QueueInv
<1>4. /\ \/ /\ parent = NoTask /\ Without(wait, parent) = wait
            /\ wait = <<InitTask>> => ppid[cur] # pid[InitTask]
         \/ /\ parent = InitTask /\ wait = <<InitTask>>
            /\ Without(wait, parent) = <<>>
      /\ NoTask \notin Task
    BY ParentWoken, TaskAssumption
<1>5. Once(rq) => Once(woken)
    BY <1>4, WokenOnce
<1> HIDE DEF cur, parent, woken
<1>6. /\ Sound(r, Task) /\ Queued(r) = Queued(rq)
      /\ r.sched[IdleList] = woken.sched[IdleList]
      /\ r.changed \subseteq {}
    BY <1>1, <1>2, <1>3, SweepThenClear
<1>7. Once(rq) => Once(r)
    <2>1. Sound(swept, Task) /\ (Once(rq) => Once(swept))
        BY <1>1, <1>2, <1>3, <1>5, SweepIsSound, SweepOnce
    <2> HIDE DEF swept
    <2>2. r.sched = swept.sched
        BY <2>1, FlagsCleared
    <2> HIDE DEF r
    <2> QED
        BY <2>1, <2>2, SameListsOnce
<1> HIDE DEF r
<1>8. /\ f.next = Head(r.sched[IdleList])
      /\ Sound(f.rq, Task) /\ Queued(f.rq) = Queued(r)
      /\ f.rq.sched[IdleList] = r.sched[IdleList]
    BY <1>1, <1>6, NextAfterQueued
<1>9. Once(rq) => Once(f.rq)
    BY <1>1, <1>6, <1>7, NextKeepsOnce
<1> HIDE DEF f
<1>10. f.next = IdleTask
    BY <1>2, <1>6, <1>8
<1>11. Sound(left, Task) /\ Queued(left) = Queued(f.rq) \ {cur}
    BY <1>8, RemoveSchedRemoves
<1>12. Once(rq) => Once(left)
    BY <1>8, <1>9, RemoveSchedOnce
<1> HIDE DEF left
<1>13. pro_map' = InUse(left)
    BY <1>0, <1>11, ProMapIsInUse
<1>14. terminal \in Seq(Task)
    BY DEF Inv, TypeOK
<1>15. /\ Range(terminal') = Range(terminal) \cup {cur}
       /\ IsInjective(terminal) /\ cur \notin Range(terminal) => IsInjective(terminal')
    BY <1>0, <1>1, <1>14, AppendQueue, AppendOnce
<1>16. \/ /\ wait' = wait
          /\ wait = <<InitTask>> => ppid[cur] # pid[InitTask]
          /\ \A t \in Task : state'[t] = IF t = cur THEN TASK_TERMINAL
                                         ELSE state[t]
       \/ /\ wait = <<InitTask>> /\ wait' = <<>>
          /\ \A t \in Task : state'[t] = IF t = cur THEN TASK_TERMINAL
                                         ELSE IF t = InitTask THEN TASK_READY
                                         ELSE state[t]
    BY <1>0, <1>4
<1>17. Queued(rq') = Queued(rq) \ {cur} /\ current_task' = IdleTask
    BY <1>0, <1>6, <1>8, <1>10, <1>11
<1> QED
    BY <1>0, <1>1, <1>12, <1>13, <1>15, <1>16, <1>17 DEF Exited, cur

LEMMA KillEffect ==
    ASSUME Inv, NEW p \in Pids, PcKill(p)
    PROVE  \E t \in Task : Killed(t, p)
<1> DEFINE t == FindInTasks(p)
           S == {u \in Task : pid[u] = p}
           left == RemoveSched(rq, t)
<1>0. /\ rq' = left /\ pro_map' = ProMap(left)
      /\ wait' = Without(wait, t)
      /\ state' = [state EXCEPT ![t] = TASK_TERMINAL]
      /\ terminal' = Append(Without(terminal, t), t)
      /\ pid_map' = pid_map \ {p}
      /\ UNCHANGED <<next_pid, pid, ppid, tasks, current_task, halted, shell>>
      /\ t # NoTask /\ p \notin {IDLE_PID, INIT_PID}
      /\ state[t] = TASK_TERMINAL => KillStale
      /\ current_task = InitTask /\ shell.at = "shell"
    BY DEF PcKill, Command, PidFree, idVars
<1>1. /\ tasks \in Seq(Task) /\ terminal \in Seq(Task)
      /\ wait \in Seq(Task) /\ state \in [Task -> Int]
    BY DEF Inv, TypeOK
<1>2. t = FirstIn(tasks, S, NoTask)
    BY DEF FindInTasks
<1> HIDE DEF t, S
<1>3. t \in Range(tasks) \cap S
    BY <1>0, <1>1, <1>2, FirstInQueue
<1>4. t \in Task /\ pid[t] = p /\ t \notin Special
    BY <1>0, <1>3 DEF Inv, PidInv, Special, S
<1>5. wait = <<>> /\ Range(wait) = {}
    BY <1>0 DEF Inv, IdleInv, Range
<1>6. wait' = <<>>
    BY <1>0, <1>1, <1>5, WithoutQueue
<1>7. Sound(left, Task) /\ Queued(left) = Queued(rq) \ {t}
    BY InvRunQueue, RemoveSchedRemoves
<1>8. Once(rq) => Once(left)
    BY InvRunQueue, RemoveSchedOnce
<1> HIDE DEF left
<1>9. pro_map' = InUse(left)
    BY <1>0, <1>7, ProMapIsInUse
<1>10. /\ Without(terminal, t) \in Seq(Task)
       /\ Range(Without(terminal, t)) = Range(terminal) \ {t}
       /\ IsInjective(terminal) => IsInjective(Without(terminal, t))
    BY <1>1, WithoutQueue, WithoutOnce
<1>11. /\ Range(terminal') = Range(terminal) \cup {t}
       /\ IsInjective(terminal) => IsInjective(terminal')
    <2> DEFINE rest == Without(terminal, t)
    <2>1. /\ rest \in Seq(Task) /\ t \notin Range(rest)
          /\ (Range(terminal) \ {t}) \cup {t} = Range(terminal) \cup {t}
        BY <1>10
    <2>2. terminal' = Append(rest, t)
        BY <1>0
    <2>3. Range(rest) = Range(terminal) \ {t}
        BY <1>10
    <2>4. IsInjective(terminal) => IsInjective(rest)
        BY <1>10
    <2> HIDE DEF rest
    <2> QED
        BY <2>1, <2>2, <2>3, <2>4, <1>4, AppendQueue, AppendOnce
<1>12. \A u \in Task : state'[u] = IF u = t THEN TASK_TERMINAL ELSE state[u]
    BY <1>0, <1>1, <1>4
<1>13. Killed(t, p)
    BY <1>0, <1>3, <1>4, <1>5, <1>6, <1>7, <1>8, <1>9, <1>11, <1>12 DEF Killed
<1> QED
    BY <1>4, <1>13

\* find_in_pro_map looks at the levels and at the head of the idle list only.
LEMMA SameFound ==
    ASSUME NEW r, NEW s, NEW map \in SUBSET Level, NEW none,
           \A i \in Level : s.sched[i] = r.sched[i],
           Head(s.sched[IdleList]) = Head(r.sched[IdleList])
    PROVE  FindInProMap(s, map, none) = FindInProMap(r, map, none)
<1>1. CASE map = {}
    BY <1>1 DEF FindInProMap
<1>2. CASE map # {}
    <2> DEFINE i == CHOOSE i \in map : \A j \in map : j <= i
    <2>1. i \in Level
        BY <1>2, HighestLevel
    <2>2. /\ FindInProMap(r, map, none) =
                IF r.sched[i] = <<>> THEN none ELSE Head(r.sched[i])
          /\ FindInProMap(s, map, none) =
                IF s.sched[i] = <<>> THEN none ELSE Head(s.sched[i])
        BY <1>2 DEF FindInProMap
    <2> HIDE DEF i
    <2> QED
        BY <2>1, <2>2
<1> QED
    BY <1>1, <1>2

\* When init goes to sleep there is always another task to run: idle.
LEMMA SleepFindsTask ==
    ASSUME Inv, current_task = InitTask
    PROVE  LET r == UpdateIsChanged(UpdateDynamicPrority(rq, InitTask), tasks)
               f == FindNextTask(r, InitTask, ProMap(r), tasks, NoTask)
           IN  f.next # NoTask
<1> DEFINE r == UpdateIsChanged(UpdateDynamicPrority(rq, InitTask), tasks)
           f == FindNextTask(r, InitTask, ProMap(r), tasks, NoTask)
<1>1. /\ rq.sched[IdleList] = <<IdleTask, InitTask>>
      /\ LastOfIdleList(rq, InitTask)
    BY IdleListStates
<1>2. /\ Queued(rq) \subseteq Range(tasks) /\ Queued(rq) \subseteq Task
      /\ Sound(rq, Task) /\ rq.changed = {}
      /\ IsFiniteSet(Task) /\ InitTask \in Task /\ IdleTask \in Task
    BY InvRunQueue DEF Inv, QueueInv
<1>3. /\ Sound(r, Task) /\ Queued(r) = Queued(rq)
      /\ r.sched[IdleList] = rq.sched[IdleList]
    BY <1>2, SweepThenClear
<1> HIDE DEF r
<1>4. f.next = FindInProMap(r, ProMap(r), NoTask) /\ ProMap(r) = InUse(r)
    BY <1>1, <1>3, ProMapIsInUse DEF FindNextTask, LastOfIdleList
<1> HIDE DEF f
<1>5. IdleTask # NoTask /\ NoTask \notin Task
    BY TaskAssumption
<1>6. ASSUME InUse(r) = {}
      PROVE  f.next # NoTask
    <2>1. f.next = Head(<<IdleTask, InitTask>>)
        BY <1>1, <1>3, <1>4, <1>6 DEF FindInProMap
    <2> QED
        BY <1>5, <2>1
<1>7. ASSUME InUse(r) # {}
      PROVE  f.next # NoTask
    <2>1. f.next \in Queued(r)
        BY <1>3, <1>4, <1>7, FoundIsFirst
    <2> QED
        BY <1>2, <1>3, <1>5, <2>1
<1> QED
    BY <1>6, <1>7 DEF f, r

LEMMA SleepEffect ==
    ASSUME Inv, WaitSleeps
    PROVE  Slept
<1> DEFINE swept == UpdateDynamicPrority(rq, InitTask)
           r == UpdateIsChanged(swept, tasks)
           f == FindNextTask(r, InitTask, ProMap(r), tasks, NoTask)
           left == RemoveSched(f.rq, InitTask)
<1>0. /\ current_task = InitTask /\ shell.at = "window"
      /\ IF f.next = NoTask THEN Halt("wild pointer")
         ELSE /\ rq' = left
              /\ pro_map' = ProMap(left)
              /\ current_task' = f.next
              /\ state' = [state EXCEPT ![InitTask] = -shell.pid]
              /\ wait' = Append(wait, InitTask)
              /\ shell' = [shell EXCEPT !.at = "asleep"]
              /\ UNCHANGED <<pid_map, next_pid, pid, ppid, tasks, terminal,
                             halted>>
    BY DEF WaitSleeps, Command, pidVars, idVars
<1>1. f.next # NoTask
    BY <1>0, SleepFindsTask
<1>2. CASE f.next # NoTask
    <2>1. /\ wait = <<>> /\ rq.sched[IdleList] = <<IdleTask, InitTask>>
          /\ LastOfIdleList(rq, InitTask)
        BY <1>0, IdleListStates
    <2>2. /\ Queued(rq) \subseteq Range(tasks)
          /\ Sound(rq, Task) /\ rq.changed = {}
          /\ InitTask \notin Queued(rq)
          /\ IsFiniteSet(Task) /\ InitTask \in Task
          /\ InitTask # IdleTask /\ IdleTask \in Task
        BY InvRunQueue DEF Inv, QueueInv, Special
    <2>3. /\ Sound(r, Task) /\ Queued(r) = Queued(rq)
          /\ r.sched[IdleList] = rq.sched[IdleList]
        BY <2>2, SweepThenClear
    <2>4. Once(rq) => Once(r)
        <3>1. Sound(swept, Task) /\ (Once(rq) => Once(swept))
            BY <2>2, SweepIsSound, SweepOnce
        <3> HIDE DEF swept
        <3>2. r.sched = swept.sched
            BY <3>1, FlagsCleared
        <3> HIDE DEF r
        <3> QED
            BY <3>1, <3>2, SameListsOnce
    <2> HIDE DEF r
    <2>5. f.rq = r /\ f.next = FindInProMap(r, ProMap(r), NoTask)
        BY <2>1, <2>3 DEF FindNextTask, LastOfIdleList
    <2> HIDE DEF f
    <2>6. left = RemoveSched(r, InitTask)
        BY <2>5
    <2> HIDE DEF left
    <2>7. /\ Sound(left, Task) /\ Queued(left) = Queued(r) \ {InitTask}
          /\ left.sched[IdleList] = Without(r.sched[IdleList], InitTask)
          /\ \A i \in Lists : InitTask \notin Range(r.sched[i]) =>
                    left.sched[i] = r.sched[i]
          /\ Once(rq) => Once(left)
        BY <2>3, <2>4, <2>6, RemoveSchedRemoves, RemoveSchedOnce, ListsApart
    <2>8. \A i \in Level : left.sched[i] = r.sched[i]
        <3> SUFFICES ASSUME NEW i \in Level
                     PROVE  InitTask \notin Range(r.sched[i])
            BY <2>7, ListsApart
        <3> QED
            BY <2>2, <2>3, QueuedOnLevel
    <2>9. InUse(left) = InUse(r) /\ InUse(left) \subseteq Level
        BY <2>8 DEF InUse
    <2>10. Head(left.sched[IdleList]) = IdleTask /\ Head(r.sched[IdleList]) = IdleTask
        <3>1. Inv' /\ rq' = left /\ wait' = <<InitTask>>
            <4>1. Append(<<>>, InitTask) = <<InitTask>>
                OBVIOUS
            <4> QED
                BY <4>1, <1>0, <1>2, <2>1, WaitSleepsKeepsInv
        <3>2. rq'.sched[IdleList] = <<IdleTask>>
            BY <3>1 DEF Inv, IdleInv
        <3> QED
            BY <3>1, <3>2, <2>1, <2>3
    <2>11. FindInProMap(left, InUse(left), NoTask) = FindInProMap(r, InUse(left), NoTask)
        BY <2>8, <2>9, <2>10, SameFound
    <2>12. ProMap(r) = InUse(r) /\ ProMap(left) = InUse(left)
        BY <2>3, <2>7, ProMapIsInUse
    <2>13. f.next = FindInProMap(left, InUse(left), NoTask)
        BY <2>5, <2>9, <2>11, <2>12
    <2>14. f.next \in {IdleTask} \cup Queued(rq)
        BY <1>2, <2>3, <2>5, <2>9, <2>10, <2>12, FoundIsQueued
    <2>15. state \in [Task -> Int]
        BY DEF Inv, TypeOK
    <2>16. /\ wait' = <<InitTask>>
           /\ \A t \in Task : state'[t] = IF t = InitTask THEN -shell.pid ELSE state[t]
        <3>1. Append(<<>>, InitTask) = <<InitTask>>
            OBVIOUS
        <3>2. state' = [state EXCEPT ![InitTask] = -shell.pid] /\ wait' = Append(wait, InitTask)
            BY <1>0, <1>2
        <3> QED
            BY <3>1, <3>2, <2>1, <2>2, <2>15
    <2>17. Queued(left) = Queued(rq)
        BY <2>2, <2>3, <2>7
    <2>18. /\ rq' = left /\ pro_map' = InUse(rq')
           /\ current_task' = FindInProMap(rq', InUse(rq'), NoTask)
           /\ current_task' \in {IdleTask} \cup Queued(rq)
        BY <1>0, <1>2, <2>12, <2>13, <2>14
    <2>19. shell' = [shell EXCEPT !.at = "asleep"]
        BY <1>0, <1>2
    <2>20. UNCHANGED <<pid_map, next_pid, pid, ppid, tasks, terminal, halted>>
        BY <1>0, <1>2
    <2> QED
        BY <1>0, <2>1, <2>7, <2>16, <2>17, <2>18, <2>19, <2>20 DEF Slept
<1> QED
    BY <1>1, <1>2

---------------------------------------------------------------------------
(* TasksInv: the steps of a command.                                       *)

\* A step that changes no list, no state and not the running task.
LEMMA ListsUnchanged ==
    ASSUME TasksInv, rq'.sched = rq.sched, shell.at # "queue", shell'.at # "queue",
           UNCHANGED <<state, tasks, wait, terminal, current_task>>
    PROVE  ListsInv' /\ StateInv'
<1>1. Queued(rq') = Queued(rq) /\ (Once(rq') <=> Once(rq))
    BY SameListsOnce DEF Queued
<1>2. ListsInv'
    BY <1>1 DEF TasksInv, ListsInv
<1>3. StateInv'
    BY DEF TasksInv, StateInv
<1> QED
    BY <1>2, <1>3

LEMMA CreateStartKeepsTasks ==
    ASSUME Inv, TasksInv, NEW prio \in Level, NEW waits \in BOOLEAN,
           CreateStart(prio, waits), Inv'
    PROVE  TasksInv'
<1>1. /\ shell \in Shell /\ shell.at = "shell" /\ current_task = InitTask
      /\ rq' = rq /\ UNCHANGED <<state, tasks, wait, terminal, current_task>>
      /\ shell' = [shell EXCEPT !.at = "pid", !.pid = NextFit, !.prio = prio,
                                !.waits = waits, !.hit = "no",
                                !.byte = pid_map \cap PidByte(NextFit)]
    BY DEF CreateStart, Command, Inv, TypeOK, schedVars
<1>2. shell'.at = "pid"
    BY <1>1 DEF Shell
<1>3. shell'.pid \notin {IDLE_PID, INIT_PID}
    BY <1>2 DEF Inv, CreateInv
<1>4. ListsInv' /\ StateInv'
    BY <1>1, <1>2, ListsUnchanged
<1>5. wait' = <<>>
    BY <1>1 DEF Inv, IdleInv
<1>6. CommandInv'
    BY <1>1, <1>2, <1>3, <1>5 DEF CommandInv
<1> QED
    BY <1>4, <1>6 DEF TasksInv

LEMMA CreateStepsKeepTasks ==
    ASSUME Inv, TasksInv,
           CreateClaimsPid \/ CreateFails \/ CreateLoadsBit \/ CreateStoresBit
    PROVE  TasksInv'
<1>1. /\ shell \in Shell /\ current_task = InitTask /\ rq' = rq
      /\ UNCHANGED <<state, tasks, wait, terminal, current_task>>
    BY DEF Inv, TypeOK, CreateClaimsPid, CreateFails, CreateLoadsBit,
           CreateStoresBit, Command, schedVars, idVars
<1>2. /\ shell'.task = shell.task /\ shell'.pid = shell.pid
      /\ \/ shell.at = "pid" /\ shell'.at = "alloc"
         \/ shell.at = "alloc" /\ shell'.at = "shell"
         \/ shell.at = "load" /\ shell'.at = "store"
         \/ shell.at = "store" /\ shell'.at = "ready"
    BY <1>1 DEF CreateClaimsPid, CreateFails, CreateLoadsBit, CreateStoresBit,
                Command, Shell
<1>3. ListsInv' /\ StateInv'
    BY <1>1, <1>2, ListsUnchanged
<1>4. CommandInv'
    BY <1>1, <1>2 DEF TasksInv, CommandInv, CommandPoints, CreatePoints
<1> QED
    BY <1>3, <1>4 DEF TasksInv

LEMMA WaitStepsKeepTasks ==
    ASSUME Inv, TasksInv, WaitCheck \/ WaitReturns
    PROVE  TasksInv'
<1>1. /\ shell \in Shell /\ current_task = InitTask /\ rq' = rq
      /\ UNCHANGED <<state, tasks, wait, terminal, current_task>>
    BY DEF Inv, TypeOK, WaitCheck, WaitReturns, Command, schedVars
<1>2. /\ shell'.pid = shell.pid
      /\ \/ shell.at = "check" /\ shell'.at \in {"window", "shell"}
         \/ shell.at = "asleep" /\ shell'.at = "shell"
    BY <1>1 DEF WaitCheck, WaitReturns, Command, Shell
<1>3. ListsInv' /\ StateInv'
    BY <1>1, <1>2, ListsUnchanged
<1>4. CommandInv'
    BY <1>1, <1>2 DEF TasksInv, CommandInv, CommandPoints, CreatePoints
<1> QED
    BY <1>3, <1>4 DEF TasksInv

\* task_create fills in a task_struct that is on no list.
LEMMA CreateFillsInKeepsTasks ==
    ASSUME Inv, TasksInv, NEW t \in Task, CreateFillsIn(t)
    PROVE  TasksInv'
<1>1. /\ shell \in Shell /\ current_task = InitTask /\ shell.at = "alloc"
      /\ state \in [Task -> Int] /\ rq \in RunQueue(Task)
      /\ t \notin Linked
      /\ state' = [state EXCEPT ![t] = TASK_UNINIT]
      /\ shell' = [shell EXCEPT !.at = "link", !.task = t]
      /\ UNCHANGED <<tasks, wait, terminal, current_task>>
    BY DEF CreateFillsIn, Command, Inv, TypeOK
<1>2. shell'.at = "link" /\ shell'.task = t /\ shell'.pid = shell.pid
    BY <1>1 DEF Shell
<1>3. rq'.sched = rq.sched
    BY <1>1 DEF CreateFillsIn, RunQueue
<1>4. Queued(rq') = Queued(rq) /\ (Once(rq') <=> Once(rq))
    BY <1>3, SameListsOnce DEF Queued
<1>5. t \notin Range(tasks)
    BY <1>1 DEF Linked
<1>6. /\ state'[t] = TASK_UNINIT
      /\ \A u \in Task : u # t => state'[u] = state[u]
    BY <1>1
<1>7. ListsInv'
    BY <1>1, <1>2, <1>4 DEF TasksInv, ListsInv
<1>8. InitTask \in Task /\ InitTask # t /\ Range(tasks) \subseteq Task
    BY <1>5, TaskAssumption, RangeOfQueue DEF TasksInv, ListsInv, Special, Inv, TypeOK
<1>9. StateInv'
    BY <1>1, <1>5, <1>6, <1>8 DEF TasksInv, StateInv, TASK_UNINIT, TASK_RUNNING
<1>10. CommandInv'
    BY <1>1, <1>2, <1>5, <1>6 DEF TasksInv, CommandInv, CommandPoints, CreatePoints
<1> QED
    BY <1>7, <1>9, <1>10 DEF TasksInv

\* add_tasks.
LEMMA CreateLinksKeepsTasks ==
    ASSUME Inv, TasksInv, CreateLinks
    PROVE  TasksInv'
<1> DEFINE t == shell.task
<1>1. /\ shell \in Shell /\ current_task = InitTask /\ shell.at = "link"
      /\ tasks \in Seq(Task) /\ tasks' = Append(tasks, t)
      /\ shell' = [shell EXCEPT !.at = "queue"]
      /\ UNCHANGED <<rq, state, wait, terminal, current_task>>
    BY DEF CreateLinks, Command, Inv, TypeOK, schedVars
<1>2. /\ t \in Task \ (Special \cup Queued(rq) \cup Range(terminal))
      /\ t \notin Range(tasks) /\ state[t] = TASK_UNINIT
    BY <1>1 DEF Inv, CreateInv, TasksInv, CommandInv
<1>3. shell'.at = "queue" /\ shell'.task = t /\ shell'.pid = shell.pid
      /\ shell'.hit = shell.hit
    BY <1>1 DEF Shell
<1> HIDE DEF t
<1>4. Range(tasks') = Range(tasks) \cup {t} /\ IsInjective(tasks')
    BY <1>1, <1>2, AppendQueue, AppendOnce DEF TasksInv, ListsInv
<1>5. Queued(rq') = Queued(rq) /\ (Once(rq') <=> Once(rq))
    BY <1>1
<1>6. ListsInv'
    BY <1>1, <1>3, <1>4, <1>5 DEF TasksInv, ListsInv
<1>7. wait = <<>> /\ Range(wait) = {}
    BY <1>1 DEF Inv, IdleInv, Range
<1>8. StateInv'
    BY <1>1, <1>2, <1>4, <1>7
       DEF TasksInv, StateInv, TASK_UNINIT, TASK_TERMINAL
<1>9. CommandInv'
    BY <1>1, <1>2, <1>3, <1>7 DEF TasksInv, CommandInv, CommandPoints, CreatePoints
<1> QED
    BY <1>6, <1>8, <1>9 DEF TasksInv

\* add_sched.
LEMMA CreateQueuesKeepsTasks ==
    ASSUME Inv, TasksInv, CreateQueues
    PROVE  TasksInv'
<1> DEFINE t == shell.task
<1>1. /\ shell \in Shell /\ current_task = InitTask /\ shell.at = "queue"
      /\ rq' = AddSched(rq, t)
      /\ shell' = [shell EXCEPT !.at = "load"]
      /\ UNCHANGED <<state, tasks, wait, terminal, current_task>>
    BY DEF CreateQueues, Command, Inv, TypeOK
<1>2. /\ t \in Task \ (Special \cup Queued(rq) \cup Range(terminal))
      /\ rq.dyn[t] \in Level
    BY <1>1 DEF Inv, CreateInv
<1>3. shell'.at = "load" /\ shell'.task = t /\ shell'.pid = shell.pid
    BY <1>1 DEF Shell
<1> HIDE DEF t
<1>4. /\ Sound(rq, Task) /\ rq.dyn[t] # -1
      /\ Range(rq.sched[IdleList]) \subseteq Special
    BY <1>2, InvRunQueue, ListsApart DEF Level
<1>5. Queued(rq') = Queued(rq) \cup {t}
    BY <1>1, <1>2, <1>4, AddSchedAdds
<1>6. \A i \in Lists : t \notin Range(rq.sched[i])
    <2>1. \A i \in Level : t \notin Range(rq.sched[i])
        BY <1>2, <1>4, QueuedOnLevel
    <2> QED
        BY <2>1, <1>2, <1>4, ListsApart
<1>7. Once(rq')
    BY <1>1, <1>2, <1>4, <1>6, AddSchedOnce DEF TasksInv, ListsInv
<1>8. ListsInv'
    BY <1>1, <1>3, <1>5, <1>7 DEF TasksInv, ListsInv, t
<1>9. StateInv'
    BY <1>1 DEF TasksInv, StateInv
<1>10. CommandInv'
    BY <1>1, <1>2, <1>3 DEF TasksInv, CommandInv, CommandPoints, CreatePoints
<1> QED
    BY <1>8, <1>9, <1>10 DEF TasksInv

\* The new task becomes ready, unless it has run, ended and been unlinked.
LEMMA CreateReadiesKeepsTasks ==
    ASSUME Inv, TasksInv, CreateReadies
    PROVE  TasksInv'
<1> DEFINE t == shell.task
<1>1. /\ shell \in Shell /\ current_task = InitTask /\ shell.at = "ready"
      /\ state \in [Task -> Int]
      /\ state' = [state EXCEPT ![t] = TASK_READY]
      /\ UNCHANGED <<rq, tasks, wait, terminal, current_task>>
    BY DEF CreateReadies, Command, Inv, TypeOK, schedVars
<1>2. /\ t \in Task \ Special /\ t \notin Range(terminal)
      /\ IdleTask # InitTask /\ InitTask \in Task
    BY <1>1, TaskAssumption DEF Inv, CreateInv, TasksInv, CommandInv
<1>3. shell'.at \in {"check", "shell"} /\ shell'.pid = shell.pid
    BY <1>1 DEF CreateReadies, Shell
<1> HIDE DEF t
<1>4. /\ state'[t] = TASK_READY /\ t # InitTask
      /\ \A u \in Task : u # t => state'[u] = state[u]
    BY <1>1, <1>2 DEF Special
<1>5. ListsInv'
    BY <1>1, <1>3 DEF TasksInv, ListsInv
<1>6. wait = <<>> /\ Range(wait) = {} /\ Range(tasks) \subseteq Task
    <2>1. Range(tasks) \subseteq Task
        BY RangeOfQueue DEF Inv, TypeOK
    <2>2. wait = <<>> /\ Range(wait) = {}
        BY <1>1 DEF Inv, IdleInv, Range
    <2> QED
        BY <2>1, <2>2
<1>7. StateInv'
    BY <1>1, <1>2, <1>4, <1>6
       DEF TasksInv, StateInv, TASK_READY, TASK_TERMINAL, TASK_RUNNING
<1>8. CommandInv'
    BY <1>1, <1>3, <1>6 DEF TasksInv, CommandInv, CommandPoints, CreatePoints
<1> QED
    BY <1>5, <1>7, <1>8 DEF TasksInv

---------------------------------------------------------------------------
(* TasksInv: ticks, task_exit, pc_kill and the sleep in wait_pid.          *)

LEMMA TypesOfLists ==
    ASSUME Inv
    PROVE  /\ Range(tasks) \subseteq Task
           /\ IdleTask \in Task /\ InitTask \in Task /\ IdleTask # InitTask
           /\ \/ wait = <<>> /\ Range(wait) = {}
              \/ /\ wait = <<InitTask>> /\ Range(wait) = {InitTask}
                 /\ current_task # InitTask
           /\ Queued(rq) \subseteq Range(tasks) \ Range(terminal)
           /\ Queued(rq) \subseteq Task \ Special
           /\ current_task \in Special \cup Queued(rq)
           /\ shell \in Shell
<1>1. tasks \in Seq(Task) /\ shell \in Shell
    BY DEF Inv, TypeOK
<1>2. Range(<<>>) = {} /\ Range(<<InitTask>>) = {InitTask}
    BY DEF Range
<1>3. \/ wait = <<>>
      \/ wait = <<InitTask>> /\ current_task # InitTask
    BY DEF Inv, IdleInv
<1> QED
    BY <1>1, <1>2, <1>3, RangeOfQueue, InvRunQueue DEF Inv, QueueInv, CurrentInv

LEMMA ChargedKeepsTasks ==
    ASSUME Inv, TasksInv, Charged
    PROVE  TasksInv'
<1>1. Queued(rq') = Queued(rq) /\ (Once(rq') <=> Once(rq))
    BY SameListsOnce DEF Charged, Queued
<1>2. ListsInv'
    BY <1>1 DEF TasksInv, ListsInv, Charged
<1>3. StateInv' /\ CommandInv'
    BY DEF TasksInv, StateInv, CommandInv, Charged
<1> QED
    BY <1>2, <1>3 DEF TasksInv

\* What MarkHit leaves alone.
LEMMA TickedShell ==
    ASSUME Inv, Ticked
    PROVE  /\ shell'.at = shell.at /\ shell'.task = shell.task
           /\ shell'.pid = shell.pid /\ shell'.prio = shell.prio
           /\ shell'.byte = shell.byte
           /\ current_task = InitTask /\ shell.at \in CommandPoints =>
                shell.at \in Preemptible /\ shell.hit = "no" /\ shell'.hit = shell.at
           /\ ~(current_task = InitTask /\ shell.at \in CommandPoints) =>
                shell'.hit = shell.hit
BY DEF Inv, TypeOK, Ticked, Shell

LEMMA SwitchedKeepsTasks ==
    ASSUME Inv, TasksInv, Switched
    PROVE  TasksInv'
<1> DEFINE cur == current_task
           next == current_task'
<1>1. /\ Range(tasks) \subseteq Task
      /\ IdleTask \in Task /\ InitTask \in Task /\ IdleTask # InitTask
      /\ \/ wait = <<>> /\ Range(wait) = {}
         \/ /\ wait = <<InitTask>> /\ Range(wait) = {InitTask}
            /\ cur # InitTask
      /\ Queued(rq) \subseteq Range(tasks) \ Range(terminal)
      /\ Queued(rq) \subseteq Task \ Special
      /\ cur \in Special \cup Queued(rq)
    BY TypesOfLists
<1>2. /\ next \in Special \cup Queued(rq) /\ next # cur
      /\ next = InitTask => wait = <<>>
      /\ Range(tasks') = Range(tasks) \ Range(terminal)
      /\ IsInjective(tasks') /\ terminal' = <<>> /\ Range(terminal') = {}
      /\ Queued(rq') = Queued(rq) /\ (Once(rq) => Once(rq'))
      /\ wait' = wait
      /\ \A t \in Task : state'[t] = IF t = next THEN TASK_RUNNING
                                     ELSE IF t = cur THEN TASK_READY
                                     ELSE state[t]
    BY DEF Switched
<1>3. /\ shell'.at = shell.at /\ shell'.task = shell.task /\ shell'.pid = shell.pid
      /\ cur = InitTask /\ shell.at \in CommandPoints =>
            shell.at \in Preemptible /\ shell'.hit = shell.at
      /\ ~(cur = InitTask /\ shell.at \in CommandPoints) =>
            shell'.hit = shell.hit
    BY TickedShell DEF Switched
<1> HIDE DEF cur
<1>4. cur \in Task /\ next \in Task
    BY <1>1, <1>2 DEF Special
<1>5. ListsInv'
    <2>1. shell.at = "queue" => shell.task \notin Range(terminal)
        BY DEF Inv, CreateInv
    <2>2. Range(tasks') = Special \cup Queued(rq')
                            \cup IF shell'.at = "queue" THEN {shell'.task} ELSE {}
        BY <1>1, <1>2, <1>3, <2>1 DEF TasksInv, ListsInv
    <2>3. IsInjective(terminal')
        BY <1>2 DEF IsInjective
    <2> QED
        BY <1>2, <2>2, <2>3 DEF TasksInv, ListsInv
<1>6. StateInv'
    <2>1. \A t \in Range(tasks') : /\ state'[t] # TASK_TERMINAL
                                   /\ t \in Range(wait) <=> state'[t] < 0
        <3> SUFFICES ASSUME NEW t \in Range(tasks) \ Range(terminal)
                     PROVE  /\ state'[t] # TASK_TERMINAL
                            /\ t \in Range(wait) <=> state'[t] < 0
            BY <1>2
        <3>1. CASE t = next
            BY <3>1, <1>1, <1>2 DEF Special, TASK_RUNNING, TASK_TERMINAL
        <3>2. CASE t # next /\ t = cur
            BY <3>2, <1>1, <1>2 DEF Special, TASK_READY, TASK_TERMINAL
        <3>3. CASE t # next /\ t # cur
            BY <3>3, <1>1, <1>2 DEF TasksInv, StateInv
        <3> QED
            BY <3>1, <3>2, <3>3
    <2>2. state'[InitTask] # -INIT_PID
        BY <1>1, <1>2 DEF TasksInv, StateInv, TASK_RUNNING, TASK_READY, INIT_PID
    <2>3. \A t \in Task : state'[t] = TASK_RUNNING => t = next
        BY <1>2 DEF TasksInv, StateInv, TASK_RUNNING, TASK_READY, cur
    <2>4. next = InitTask => state'[InitTask] = TASK_RUNNING
        BY <1>1, <1>2
    <2> QED
        BY <1>2, <2>1, <2>2, <2>3, <2>4 DEF StateInv
<1>7. CommandInv'
    <2>1. shell.at \in {"link", "queue"} => state'[shell.task] = TASK_UNINIT
        <3> SUFFICES ASSUME shell.at \in {"link", "queue"}
                     PROVE  state'[shell.task] = TASK_UNINIT
            OBVIOUS
        <3>1. shell.task \in Task \ (Special \cup Queued(rq))
            BY DEF Inv, CreateInv
        <3>2. shell.task # cur /\ shell.task # next
            BY <3>1, <1>1, <1>2
        <3> QED
            BY <3>1, <3>2, <1>2 DEF TasksInv, CommandInv
    <2>2. shell.at \in CommandPoints =>
            /\ wait = <<>>
            /\ next # InitTask => shell.at \in Preemptible /\ shell'.hit = shell.at
        BY <1>3 DEF TasksInv, CommandInv, cur
    <2>3. /\ shell.at # "shell" => shell.pid \notin {IDLE_PID, INIT_PID}
          /\ shell.at = "link" => shell.task \notin Range(tasks)
          /\ shell.at \in {"load", "store", "ready"} => shell.task \notin Special
        BY DEF TasksInv, CommandInv
    <2> QED
        BY <1>2, <1>3, <2>1, <2>2, <2>3 DEF CommandInv
<1> QED
    BY <1>5, <1>6, <1>7 DEF TasksInv

LEMMA ExitedKeepsTasks ==
    ASSUME Inv, TasksInv, Exited
    PROVE  TasksInv'
<1> DEFINE cur == current_task
<1>1. /\ Range(tasks) \subseteq Task
      /\ IdleTask \in Task /\ InitTask \in Task /\ IdleTask # InitTask
      /\ \/ wait = <<>> /\ Range(wait) = {}
         \/ wait = <<InitTask>> /\ Range(wait) = {InitTask}
      /\ Queued(rq) \subseteq Range(tasks) \ Range(terminal)
      /\ Queued(rq) \subseteq Task \ Special
    BY TypesOfLists
<1>2. /\ cur \in Queued(rq) /\ current_task' = IdleTask
      /\ Queued(rq') = Queued(rq) \ {cur} /\ (Once(rq) => Once(rq'))
      /\ Range(terminal') = Range(terminal) \cup {cur}
      /\ IsInjective(terminal) /\ cur \notin Range(terminal) => IsInjective(terminal')
      /\ UNCHANGED <<tasks, shell>>
    BY DEF Exited
<1>3. \/ /\ wait' = wait
         /\ \A t \in Task : state'[t] = IF t = cur THEN TASK_TERMINAL ELSE state[t]
      \/ /\ wait = <<InitTask>> /\ wait' = <<>>
         /\ \A t \in Task : state'[t] = IF t = cur THEN TASK_TERMINAL
                                        ELSE IF t = InitTask THEN TASK_READY
                                        ELSE state[t]
    BY DEF Exited
<1>4. cur \in Range(tasks) \ (Range(terminal) \cup Special) /\ cur # InitTask
    BY <1>1, <1>2 DEF Special
<1> HIDE DEF cur
<1>5. ListsInv'
    BY <1>1, <1>2, <1>4 DEF TasksInv, ListsInv
<1>6. Range(<<>>) = {}
    BY DEF Range
<1>7. StateInv'
    <2>1. ASSUME NEW t \in Range(tasks)
          PROVE  /\ t \in Range(terminal') <=> state'[t] = TASK_TERMINAL
                 /\ t \in Range(wait') <=> state'[t] < 0
        <3>1. CASE t = cur
            BY <3>1, <1>1, <1>2, <1>3, <1>4, <1>6 DEF TASK_TERMINAL
        <3>2. CASE t # cur /\ t # InitTask
            BY <3>2, <1>1, <1>2, <1>3, <1>6 DEF TasksInv, StateInv
        <3>3. CASE t = InitTask
            <4>1. t \notin Range(terminal')
                BY <3>3, <1>2, <1>4 DEF TasksInv, ListsInv, Special
            <4>2. /\ t \notin Range(terminal) /\ t # cur
                  /\ t \in Range(terminal) <=> state[t] = TASK_TERMINAL
                  /\ t \in Range(wait) <=> state[t] < 0
                BY <3>3, <1>1, <1>4 DEF TasksInv, ListsInv, StateInv, Special
            <4>3. CASE wait' = wait /\ state'[t] = state[t]
                BY <4>1, <4>2, <4>3
            <4>4. CASE wait' = <<>> /\ state'[t] = TASK_READY
                BY <4>1, <4>4, <1>6 DEF TASK_READY, TASK_TERMINAL
            <4> QED
                BY <3>3, <4>2, <4>3, <4>4, <1>1, <1>3
        <3> QED
            BY <3>1, <3>2, <3>3
    <2>2. state'[InitTask] # -INIT_PID
        BY <1>1, <1>3, <1>4 DEF TasksInv, StateInv, TASK_READY, INIT_PID
    <2>3. \A t \in Task : state'[t] # TASK_RUNNING
        BY <1>3 DEF TasksInv, StateInv, TASK_RUNNING, TASK_READY, TASK_TERMINAL, cur
    <2> QED
        BY <1>1, <1>2, <2>1, <2>2, <2>3 DEF StateInv
<1>8. CommandInv'
    <2>1. shell.at \in {"link", "queue"} => state'[shell.task] = TASK_UNINIT
        <3> SUFFICES ASSUME shell.at \in {"link", "queue"}
                     PROVE  state'[shell.task] = TASK_UNINIT
            OBVIOUS
        <3>1. shell.task \in Task \ (Special \cup Queued(rq))
            BY DEF Inv, CreateInv
        <3>2. shell.task # cur /\ shell.task # InitTask
            BY <3>1, <1>2 DEF Special
        <3> QED
            BY <3>1, <3>2, <1>3 DEF TasksInv, CommandInv
    <2>2. shell.at \in CommandPoints =>
            /\ wait' = <<>>
            /\ shell.at \in Preemptible /\ shell.hit = shell.at
        BY <1>1, <1>3, <1>4 DEF TasksInv, CommandInv, cur
    <2> QED
        BY <1>2, <2>1, <2>2 DEF TasksInv, CommandInv
<1> QED
    BY <1>5, <1>7, <1>8 DEF TasksInv

LEMMA KilledKeepsTasks ==
    ASSUME Inv, TasksInv, NEW t \in Task, NEW p, Killed(t, p)
    PROVE  TasksInv'
<1>1. /\ Range(tasks) \subseteq Task /\ InitTask \in Task
      /\ t # InitTask /\ t \in Range(tasks) \ Special
    BY TypesOfLists DEF Killed, Special
<1>2. Range(<<>>) = {}
    BY DEF Range
<1>3. ListsInv'
    BY <1>1 DEF TasksInv, ListsInv, Killed
<1>4. StateInv'
    BY <1>1, <1>2 DEF TasksInv, StateInv, Killed, TASK_TERMINAL, TASK_RUNNING
<1>5. CommandInv'
    BY DEF CommandInv, Killed, CommandPoints, CreatePoints
<1> QED
    BY <1>3, <1>4, <1>5 DEF TasksInv

LEMMA SleptKeepsTasks ==
    ASSUME Inv, TasksInv, Slept
    PROVE  TasksInv'
<1>1. /\ Range(tasks) \subseteq Task /\ InitTask \in Task
      /\ IdleTask # InitTask /\ shell \in Shell
      /\ Queued(rq) \subseteq Task \ Special
    BY TypesOfLists
<1>2. Range(<<InitTask>>) = {InitTask} /\ Range(<<>>) = {}
    BY DEF Range
<1>3. shell'.at = "asleep" /\ shell'.pid = shell.pid /\ shell.at = "window"
    BY <1>1 DEF Slept, Shell
<1>4. /\ shell.pid \in Nat /\ shell.pid > 1
      /\ -shell.pid < 0 /\ -shell.pid # -INIT_PID
    <2>1. shell.pid \in Pids /\ shell.pid \notin {IDLE_PID, INIT_PID}
        BY <1>1, <1>3 DEF TasksInv, CommandInv, Shell
    <2> QED
        BY <2>1, PidNumAssumption DEF Pids, IDLE_PID, INIT_PID
<1>5. ListsInv'
    BY <1>3 DEF TasksInv, ListsInv, Slept
<1>6. current_task' # InitTask
    BY <1>1 DEF Slept, Special
<1>7. InitTask \notin Range(terminal)
    BY DEF TasksInv, ListsInv, Special
<1>8. StateInv'
    BY <1>1, <1>2, <1>4, <1>6, <1>7
       DEF TasksInv, StateInv, Slept, TASK_TERMINAL, TASK_RUNNING
<1>9. CommandInv'
    BY <1>3 DEF TasksInv, CommandInv, CommandPoints, CreatePoints
<1> QED
    BY <1>5, <1>8, <1>9 DEF TasksInv

LEMMA StoppedKeepsTasks ==
    ASSUME TasksInv, Stopped
    PROVE  TasksInv'
BY DEF TasksInv, ListsInv, StateInv, CommandInv, Stopped

LEMMA InitTasks ==
    ASSUME Init
    PROVE  TasksInv
<1>1. Inv
    BY InitInv
<1>2. /\ tasks = <<IdleTask, InitTask>> /\ wait = <<>> /\ terminal = <<>>
      /\ current_task = IdleTask /\ shell.at = "shell"
      /\ \A t \in Task : state[t] = IF t \in {IdleTask, InitTask} THEN TASK_READY
                                    ELSE TASK_UNINIT
      /\ IdleTask \in Task /\ InitTask \in Task /\ IdleTask # InitTask
    BY TaskAssumption DEF Init
<1>3. /\ \A i \in Lists : rq.sched[i] = IF i = IdleList
                                        THEN <<IdleTask, InitTask>> ELSE <<>>
    BY DEF Init
<1>4. /\ Range(tasks) = Special /\ IsInjective(tasks)
      /\ Range(wait) = {} /\ Range(terminal) = {} /\ IsInjective(terminal)
    <2>1. /\ Range(<<>>) = {} /\ IsInjective(<<>>)
          /\ Range(<<IdleTask, InitTask>>) = {IdleTask, InitTask}
          /\ IsInjective(<<IdleTask, InitTask>>)
        BY <1>2 DEF Range, IsInjective
    <2> QED
        BY <1>2, <2>1 DEF Special
<1>5. Queued(rq) = {}
    <2>1. \A i \in Level : rq.sched[i] = <<>>
        BY <1>3, ListsApart
    <2>2. Range(<<>>) = {}
        BY DEF Range
    <2> QED
        BY <2>1, <2>2 DEF Queued
<1>6. Once(rq)
    <2>1. IsInjective(<<>>) /\ IsInjective(<<IdleTask, InitTask>>)
        BY <1>2 DEF IsInjective
    <2> QED
        BY <1>3, <2>1 DEF Once
<1>7. ListsInv
    BY <1>2, <1>4, <1>5, <1>6 DEF ListsInv
<1>8. StateInv
    BY <1>2, <1>4
       DEF StateInv, Special, TASK_READY, TASK_UNINIT, TASK_TERMINAL,
           TASK_RUNNING, INIT_PID
<1>9. CommandInv
    BY <1>2 DEF CommandInv, CommandPoints, CreatePoints
<1> QED
    BY <1>7, <1>8, <1>9 DEF TasksInv

LEMMA NextKeepsTasks ==
    ASSUME Inv, TasksInv, [Next]_vars, Inv'
    PROVE  TasksInv'
<1>1. CASE UNCHANGED vars
    BY <1>1 DEF TasksInv, ListsInv, StateInv, CommandInv, vars
<1>2. CASE Tick
    BY <1>2, TickEffect, ChargedKeepsTasks, SwitchedKeepsTasks,
       StoppedKeepsTasks
<1>3. CASE TaskExit
    BY <1>3, ExitEffect, ExitedKeepsTasks
<1>4. ASSUME NEW p \in Pids, PcKill(p)
      PROVE  TasksInv'
    BY <1>4, KillEffect, KilledKeepsTasks
<1>5. ASSUME NEW prio \in Level, NEW waits \in BOOLEAN,
             CreateStart(prio, waits)
      PROVE  TasksInv'
    BY <1>5, CreateStartKeepsTasks
<1>6. CASE CommandStep
    <2>1. ASSUME NEW t \in Task, CreateFillsIn(t)
          PROVE  TasksInv'
        BY <2>1, CreateFillsInKeepsTasks
    <2>2. CASE CreateClaimsPid \/ CreateFails \/ CreateLoadsBit \/ CreateStoresBit
        BY <2>2, CreateStepsKeepTasks
    <2>3. CASE CreateLinks \/ CreateQueues \/ CreateReadies
        BY <2>3, CreateLinksKeepsTasks, CreateQueuesKeepsTasks,
           CreateReadiesKeepsTasks
    <2>4. CASE WaitCheck \/ WaitReturns
        BY <2>4, WaitStepsKeepTasks
    <2>5. CASE WaitSleeps
        BY <2>5, SleepEffect, SleptKeepsTasks
    <2> QED
        BY <1>6, <2>1, <2>2, <2>3, <2>4, <2>5 DEF CommandStep
<1> QED
    BY <1>1, <1>2, <1>3, <1>4, <1>5, <1>6 DEF Next

\* The lists, the states and the progress of a command fit together in every
\* state, wherever the timer hits and whomever the shell kills.
THEOREM TasksInvariant == Spec => [](Inv /\ TasksInv)
<1>1. Init => Inv /\ TasksInv
    BY InitInv, InitTasks
<1>2. Inv /\ TasksInv /\ [Next]_vars => (Inv /\ TasksInv)'
    BY NextKeepsInv, NextKeepsTasks
<1> QED
    BY <1>1, <1>2, PTL DEF Spec

LEMMA ListsOnce ==
    ASSUME Inv, TasksInv
    PROVE  ListedOnce
<1> DEFINE D == 0..PRORITY_NUM+2
<1>1. /\ PRORITY_NUM \in Nat /\ PRORITY_NUM > 0
      /\ Level = 0..PRORITY_NUM-1 /\ Lists = 0..PRORITY_NUM
      /\ IdleList = PRORITY_NUM
    BY SchedAssumption DEF Level, Lists, IdleList
<1>2. DOMAIN NodeLists = D
    BY DEF NodeLists
<1>3. /\ \A i \in Lists : NodeLists[i] = rq.sched[i]
      /\ NodeLists[PRORITY_NUM + 1] = wait
      /\ NodeLists[PRORITY_NUM + 2] = terminal
      /\ \A i \in D : i \in Lists \/ i = PRORITY_NUM + 1 \/ i = PRORITY_NUM + 2
      /\ Lists \subseteq D /\ PRORITY_NUM + 1 \in D /\ PRORITY_NUM + 2 \in D
    BY <1>1 DEF NodeLists
<1> HIDE DEF D
<1>4. /\ Once(rq) /\ IsInjective(tasks) /\ IsInjective(terminal)
      /\ Special \cap Range(terminal) = {}
      /\ Queued(rq) \cap (Special \cup Range(terminal)) = {}
      /\ Range(wait) \subseteq Special /\ IsInjective(wait)
      /\ Range(rq.sched[IdleList]) \subseteq Special
      /\ Range(rq.sched[IdleList]) \cap Range(wait) = {}
      /\ Range(rq.sched[IdleList]) \cup Range(wait) = Special
    <2>1. /\ Range(<<>>) = {} /\ Range(<<InitTask>>) = {InitTask}
          /\ Range(<<IdleTask>>) = {IdleTask}
          /\ Range(<<IdleTask, InitTask>>) = {IdleTask, InitTask}
          /\ IsInjective(<<>>) /\ IsInjective(<<InitTask>>)
        BY DEF Range, IsInjective
    <2>2. IdleTask # InitTask
        BY TaskAssumption
    <2> QED
        BY <2>1, <2>2, TypesOfLists DEF Inv, IdleInv, TasksInv, ListsInv, Special
<1>5. /\ \A i \in Lists : i # IdleList => Range(rq.sched[i]) \subseteq Queued(rq)
      /\ \A i, j \in Lists : i # j => Range(rq.sched[i]) \cap Range(rq.sched[j]) = {}
      /\ \A i \in Lists : IsInjective(rq.sched[i])
    <2>1. \A i \in Lists : i # IdleList => Range(rq.sched[i]) \subseteq Queued(rq)
        BY ListsApart DEF Queued
    <2>2. \A i, j \in Lists : i # j =>
                Range(rq.sched[i]) \cap Range(rq.sched[j]) = {}
        <3> SUFFICES ASSUME NEW i \in Lists, NEW j \in Lists, i # j,
                            NEW t \in Range(rq.sched[i]), t \in Range(rq.sched[j])
                     PROVE  FALSE
            OBVIOUS
        <3>1. /\ rq.dyn[t] = IF i = IdleList THEN -1 ELSE i
              /\ rq.dyn[t] = IF j = IdleList THEN -1 ELSE j
            BY DEF Inv, OnOwnLevel
        <3> QED
            BY <3>1, <1>1
    <2> QED
        BY <1>4, <2>1, <2>2 DEF Once
<1>6. \A i \in D : IsInjective(NodeLists[i])
    BY <1>3, <1>4, <1>5
<1>7. \A i, j \in D : i # j => Range(NodeLists[i]) \cap Range(NodeLists[j]) = {}
    <2> SUFFICES ASSUME NEW i \in D, NEW j \in D, i # j
                 PROVE  Range(NodeLists[i]) \cap Range(NodeLists[j]) = {}
        OBVIOUS
    <2>1. \A k \in Lists : /\ Range(rq.sched[k]) \cap Range(wait) = {}
                           /\ Range(rq.sched[k]) \cap Range(terminal) = {}
        BY <1>4, <1>5
    <2>2. Range(wait) \cap Range(terminal) = {}
        BY <1>4
    <2> QED
        BY <2>1, <2>2, <1>3, <1>5
<1>8. UNION {Range(NodeLists[i]) : i \in D} = Special \cup Queued(rq) \cup Range(terminal)
    <2>1. UNION {Range(NodeLists[i]) : i \in D} \subseteq
            Special \cup Queued(rq) \cup Range(terminal)
        BY <1>3, <1>4, <1>5
    <2>2. Queued(rq) \subseteq UNION {Range(NodeLists[i]) : i \in D}
        BY <1>3, ListsApart DEF Queued
    <2>3. Range(terminal) \subseteq UNION {Range(NodeLists[i]) : i \in D}
        BY <1>3
    <2>4. Special \subseteq UNION {Range(NodeLists[i]) : i \in D}
        BY <1>3, <1>4, ListsApart
    <2> QED
        BY <2>1, <2>2, <2>3, <2>4
<1>9. \A t \in Range(tasks) : /\ t \in Range(terminal) <=> state[t] = TASK_TERMINAL
                              /\ t \in Range(wait) <=> state[t] < 0
    BY DEF TasksInv, StateInv
<1>10. Range(tasks) = (UNION {Range(NodeLists[i]) : i \in D})
                        \cup IF shell.at = "queue" THEN {shell.task} ELSE {}
    BY <1>8 DEF TasksInv, ListsInv
<1>11. /\ \A i \in DOMAIN NodeLists : IsInjective(NodeLists[i])
       /\ \A i, j \in DOMAIN NodeLists :
            i # j => Range(NodeLists[i]) \cap Range(NodeLists[j]) = {}
    BY <1>2, <1>6, <1>7
<1>12. Range(tasks) = (UNION {Range(NodeLists[i]) : i \in DOMAIN NodeLists})
                        \cup IF shell.at = "queue" THEN {shell.task} ELSE {}
    BY <1>2, <1>10
<1> QED
    BY <1>4, <1>9, <1>11, <1>12 DEF ListedOnce

\* The one node `sched' of a task_struct is never on two lists, nor twice on
\* one, and the list it is on is the one its state tells: list_del in
\* remove_sched, clear_terminal and wakeup_parent always takes the task off
\* the list the caller means.
THEOREM TasksListedOnce == Spec => []ListedOnce
<1>1. Inv /\ TasksInv => ListedOnce
    BY ListsOnce
<1> QED
    BY <1>1, TasksInvariant, PTL

\* While init runs the shell, its state and no other is TASK_RUNNING: what
\* ps prints is right, whichever handler switched to init.
THEOREM OnlyShellShownRunning == Spec => []ShellShownRunning
<1>1. Inv /\ TasksInv => ShellShownRunning
    <2> SUFFICES ASSUME Inv, TasksInv, current_task = InitTask,
                        NEW t \in Range(tasks)
                 PROVE  state[t] = TASK_RUNNING <=> t = InitTask
        BY DEF ShellShownRunning
    <2>1. t \in Task
        BY TypesOfLists
    <2> QED
        BY <2>1 DEF TasksInv, StateInv
<1> QED
    BY <1>1, TasksInvariant, PTL

---------------------------------------------------------------------------
(* PidsInv.                                                                *)

\* The tasks that are not dead are those no tick has to unlink.
LEMMA LiveTasks ==
    ASSUME Inv, TasksInv
    PROVE  /\ Live = Range(tasks) \ Range(terminal)
           /\ Queued(rq) \subseteq Live /\ Special \subseteq Live
           /\ Live \subseteq Task
BY TypesOfLists DEF Live, TasksInv, ListsInv, StateInv

\* The same tasks are alive under the same pids, and none is about to appear.
LEMMA SameLive ==
    ASSUME PidsInv, Live' = Live, \A t \in Live : pid'[t] = pid[t],
           pid_map' = pid_map, shell.at \notin {"alloc", "link"},
           shell'.at \notin {"pid", "alloc", "link"}
    PROVE  PidsInv'
<1>1. {pid'[t] : t \in Live'} = {pid[t] : t \in Live}
    OBVIOUS
<1>2. PidsOwned'
    BY <1>1 DEF PidsInv, PidsOwned
<1> QED
    BY <1>2 DEF PidsInv

\* A tick or nothing happens to the command that allocates a pid.
LEMMA SamePids ==
    ASSUME PidsInv, Live' = Live, UNCHANGED <<pid, pid_map>>,
           shell'.at = shell.at, shell'.task = shell.task,
           shell'.pid = shell.pid, shell'.byte = shell.byte
    PROVE  PidsInv'
<1>1. PidsOwned'
    BY DEF PidsInv, PidsOwned
<1> QED
    BY <1>1 DEF PidsInv

\* One task that is not dead dies and gives its pid back.
LEMMA OneDies ==
    ASSUME PidsInv, NEW t \in Live, Live' = Live \ {t},
           pid_map' = pid_map \ {pid[t]}, UNCHANGED <<pid, shell>>,
           shell.at # "pid"
    PROVE  PidsInv'
<1>1. {pid[u] : u \in Live \ {t}} = {pid[u] : u \in Live} \ {pid[t]}
    BY DEF PidsInv, PidsOwned
<1>2. shell.at \in {"alloc", "link"} => shell.pid # pid[t]
    BY DEF PidsInv
<1>3. PidsOwned'
    BY <1>1, <1>2 DEF PidsInv, PidsOwned
<1> QED
    BY <1>3 DEF PidsInv

LEMMA SwitchedKeepsPids ==
    ASSUME Inv, TasksInv, PidsInv, Switched
    PROVE  PidsInv'
<1>1. /\ Live = Range(tasks) \ Range(terminal) /\ Live \subseteq Task
      /\ Range(tasks) \subseteq Task
    BY LiveTasks, TypesOfLists
<1>2. \A t \in Live : state[t] # TASK_TERMINAL
    BY DEF Live
<1>3. \A t \in Live : state'[t] # TASK_TERMINAL
    BY <1>1, <1>2 DEF Switched, TASK_RUNNING, TASK_READY, TASK_TERMINAL
<1>4. Live' = Live
    BY <1>1, <1>3 DEF Switched, Live
<1> QED
    BY <1>4, TickedShell, SamePids DEF Switched

LEMMA ExitedKeepsPids ==
    ASSUME "pid" \notin Preemptible, Inv, TasksInv, PidsInv, Exited
    PROVE  PidsInv'
<1>1. /\ current_task \in Live /\ Live \subseteq Task /\ InitTask \in Live
      /\ current_task # InitTask
    BY LiveTasks, TypesOfLists DEF Exited, Special
<1>2. Range(tasks) \subseteq Task
    BY TypesOfLists
<1>3. Live' = Live \ {current_task}
    BY <1>1, <1>2 DEF Exited, Live, TASK_READY, TASK_TERMINAL
<1>4. shell.at # "pid"
    BY <1>1 DEF TasksInv, CommandInv, CommandPoints, CreatePoints
<1> QED
    BY <1>1, <1>3, <1>4, OneDies DEF Exited

LEMMA KilledKeepsPids ==
    ASSUME ~KillStale, Inv, TasksInv, PidsInv, NEW t \in Task, NEW p,
           Killed(t, p)
    PROVE  PidsInv'
<1>1. t \in Live /\ Live' = Live \ {t}
    BY TypesOfLists DEF Killed, Live
<1> QED
    BY <1>1, OneDies DEF Killed

LEMMA SleptKeepsPids ==
    ASSUME Inv, TasksInv, PidsInv, Slept
    PROVE  PidsInv'
<1>1. /\ Live \subseteq Task /\ InitTask \in Live /\ shell \in Shell
      /\ Range(tasks) \subseteq Task
    BY LiveTasks, TypesOfLists DEF Special
<1>2. shell.pid \in Nat /\ -shell.pid # TASK_TERMINAL
    <2>1. shell.pid \in Pids
        BY <1>1 DEF Shell
    <2> QED
        BY <2>1, PidNumAssumption DEF Pids, TASK_TERMINAL
<1>3. Live' = Live
    BY <1>1, <1>2 DEF Slept, Live
<1>4. shell'.at = "asleep" /\ shell.at = "window" /\ shell'.hit = shell.hit
    BY <1>1 DEF Slept, Shell
<1> QED
    BY <1>3, <1>4, SameLive DEF Slept

LEMMA AllocationKeepsPids ==
    ASSUME Inv, PidsInv,
           \/ \E prio \in Level, waits \in BOOLEAN : CreateStart(prio, waits)
           \/ CreateClaimsPid \/ CreateFails
    PROVE  PidsInv'
<1>1. /\ shell \in Shell /\ pid_map \subseteq Pids
      /\ Live' = Live /\ UNCHANGED pid
    BY DEF Inv, TypeOK, CreateStart, CreateClaimsPid, CreateFails, Live, idVars
<1>2. {pid'[t] : t \in Live'} = {pid[t] : t \in Live}
    BY <1>1
<1>3. ASSUME NEW prio \in Level, NEW waits \in BOOLEAN,
             CreateStart(prio, waits)
      PROVE  PidsInv'
    <2>1. /\ shell'.at = "pid" /\ shell'.pid = NextFit /\ shell.at = "shell"
          /\ shell'.byte = pid_map \cap PidByte(NextFit)
          /\ pid_map' = pid_map
        BY <1>1, <1>3 DEF CreateStart, Command, Shell, pidVars
    <2>2. NextFit \notin pid_map
        BY <1>1, <1>3, NextFitIsFree DEF CreateStart, Inv, TypeOK
    <2>3. PidsOwned'
        BY <1>1, <1>2, <2>1 DEF PidsInv, PidsOwned
    <2> QED
        BY <2>1, <2>2, <2>3 DEF PidsInv
<1>4. CASE CreateClaimsPid
    <2>1. /\ shell.at = "pid" /\ shell'.at = "alloc" /\ shell'.pid = shell.pid
          /\ pid_map' = (pid_map \ PidByte(shell.pid)) \cup shell.byte
                            \cup {shell.pid}
        BY <1>1, <1>4 DEF CreateClaimsPid, Command, Shell, PidStore
    <2>2. pid_map' = pid_map \cup {shell.pid} /\ shell.pid \notin pid_map
        BY <2>1 DEF PidsInv
    <2>3. pid_map = {pid[t] : t \in Live}
        BY <2>1 DEF PidsInv, PidsOwned
    <2>4. PidsOwned'
        BY <1>1, <1>2, <2>1, <2>2, <2>3 DEF PidsInv, PidsOwned
    <2> QED
        BY <1>1, <2>1, <2>2, <2>3, <2>4 DEF PidsInv
<1>5. CASE CreateFails
    <2>1. /\ shell.at = "alloc" /\ shell'.at = "shell"
          /\ pid_map' = pid_map \ {shell.pid}
        BY <1>1, <1>5 DEF CreateFails, Command, Shell, PidFree
    <2>2. pid_map = {pid[t] : t \in Live} \cup {shell.pid}
        BY <2>1 DEF PidsInv, PidsOwned
    <2>3. shell.pid \notin {pid[t] : t \in Live}
        BY <2>1 DEF PidsInv
    <2>4. PidsOwned'
        BY <1>1, <1>2, <2>1, <2>2, <2>3 DEF PidsInv, PidsOwned
    <2> QED
        BY <2>1, <2>4 DEF PidsInv
<1> QED
    BY <1>3, <1>4, <1>5

LEMMA CreateFillsInKeepsPids ==
    ASSUME Inv, TasksInv, PidsInv, NEW t \in Task, CreateFillsIn(t)
    PROVE  PidsInv'
<1>1. /\ shell \in Shell /\ t \notin Range(tasks) /\ shell.at = "alloc"
      /\ pid \in [Task -> Pids] /\ state \in [Task -> Int]
      /\ pid' = [pid EXCEPT ![t] = shell.pid]
      /\ state' = [state EXCEPT ![t] = TASK_UNINIT]
      /\ shell' = [shell EXCEPT !.at = "link", !.task = t]
      /\ UNCHANGED <<tasks, pid_map>>
    BY DEF CreateFillsIn, Command, Linked, Inv, TypeOK, pidVars
<1>2. /\ shell'.at = "link" /\ shell'.task = t /\ shell'.pid = shell.pid
      /\ pid'[t] = shell.pid
    BY <1>1 DEF Shell
<1>3. Range(tasks) \subseteq Task /\ Live \subseteq Range(tasks)
    BY TypesOfLists DEF Live
<1>4. /\ \A u \in Range(tasks) : state'[u] = state[u] /\ pid'[u] = pid[u]
    BY <1>1, <1>3
<1>5. Live' = Live
    BY <1>1, <1>4 DEF Live
<1>6. {pid'[u] : u \in Live'} = {pid[u] : u \in Live}
    BY <1>3, <1>4, <1>5
<1>7. PidsOwned'
    BY <1>1, <1>2, <1>3, <1>4, <1>5, <1>6 DEF PidsInv, PidsOwned
<1>8. \A u \in Live' : pid'[u] # shell'.pid
    BY <1>1, <1>2, <1>3, <1>4, <1>5 DEF PidsInv
<1> QED
    BY <1>2, <1>7, <1>8 DEF PidsInv

LEMMA CreateLinksKeepsPids ==
    ASSUME Inv, TasksInv, PidsInv, CreateLinks
    PROVE  PidsInv'
<1> DEFINE t == shell.task
<1>1. /\ shell \in Shell /\ shell.at = "link" /\ shell'.at = "queue"
      /\ tasks \in Seq(Task) /\ tasks' = Append(tasks, t)
      /\ UNCHANGED <<pid, pid_map, state>>
    BY DEF CreateLinks, Command, Inv, TypeOK, pidVars, idVars, Shell
<1>2. t \in Task /\ state[t] = TASK_UNINIT /\ pid[t] = shell.pid
    BY <1>1 DEF Inv, CreateInv, TasksInv, CommandInv, PidsInv
<1> HIDE DEF t
<1>3. Range(tasks') = Range(tasks) \cup {t}
    BY <1>1, <1>2, AppendQueue
<1>4. Live' = Live \cup {t}
    BY <1>1, <1>2, <1>3 DEF Live, TASK_UNINIT, TASK_TERMINAL
<1>5. {pid[u] : u \in Live \cup {t}} = {pid[u] : u \in Live} \cup {shell.pid}
    BY <1>2
<1>6. PidsOwned'
    BY <1>1, <1>2, <1>4, <1>5 DEF PidsInv, PidsOwned
<1> QED
    BY <1>1, <1>6 DEF PidsInv

LEMMA OtherStepsKeepPids ==
    ASSUME Inv, TasksInv, PidsInv,
           \/ CreateQueues \/ CreateLoadsBit \/ CreateStoresBit
           \/ CreateReadies \/ WaitCheck \/ WaitReturns
    PROVE  PidsInv'
<1>1. /\ shell \in Shell /\ state \in [Task -> Int]
      /\ Range(tasks) \subseteq Task
    BY TypesOfLists DEF Inv, TypeOK
<1>2. UNCHANGED <<pid, pid_map, tasks>>
    BY DEF CreateQueues, CreateLoadsBit, CreateStoresBit, CreateReadies,
           WaitCheck, WaitReturns, pidVars, idVars
<1>3. /\ shell.at \notin {"alloc", "link"}
      /\ shell'.at \notin {"pid", "alloc", "link"}
    BY <1>1 DEF CreateQueues, CreateLoadsBit, CreateStoresBit, CreateReadies,
                WaitCheck, WaitReturns, Command, Shell
<1>4. Live' = Live
    <2>1. CASE state' = state
        BY <1>2, <2>1 DEF Live
    <2>2. CASE CreateReadies
        <3>1. /\ current_task = InitTask /\ shell.at = "ready"
              /\ state' = [state EXCEPT ![shell.task] = TASK_READY]
            BY <2>2 DEF CreateReadies, Command
        <3>2. IdleTask # InitTask
            BY TaskAssumption
        <3>3. shell.task \notin Range(terminal)
            BY <3>1, <3>2 DEF TasksInv, CommandInv
        <3>4. \A u \in Range(tasks) :
                 state'[u] = TASK_TERMINAL <=> state[u] = TASK_TERMINAL
            BY <1>1, <3>1, <3>3
               DEF TasksInv, StateInv, TASK_READY, TASK_TERMINAL
        <3> QED
            BY <1>2, <3>4 DEF Live
    <2> QED
        BY <2>1, <2>2 DEF CreateQueues, CreateLoadsBit, CreateStoresBit,
                          WaitCheck, WaitReturns
<1> QED
    BY <1>2, <1>3, <1>4, SameLive

LEMMA InitPids ==
    ASSUME Init
    PROVE  PidsInv
<1>1. Inv /\ TasksInv
    BY InitInv, InitTasks
<1>2. Live = Special
    BY <1>1, LiveTasks DEF Live, Init, Special, Range
<1> QED
    BY <1>2, TaskAssumption
       DEF Init, PidBooted, PidsInv, PidsOwned, Special, IDLE_PID, INIT_PID

LEMMA NextKeepsPids ==
    ASSUME "pid" \notin Preemptible, ~KillStale,
           Inv, TasksInv, PidsInv, [Next]_vars
    PROVE  PidsInv'
<1>1. CASE UNCHANGED vars \/ Charged \/ Stopped
    BY <1>1, SamePids DEF Charged, Stopped, vars, Live
<1>2. CASE Tick
    BY <1>1, <1>2, TickEffect, SwitchedKeepsPids
<1>3. CASE TaskExit
    BY <1>3, ExitEffect, ExitedKeepsPids
<1>4. ASSUME NEW p \in Pids, PcKill(p)
      PROVE  PidsInv'
    BY <1>4, KillEffect, KilledKeepsPids
<1>5. CASE \E prio \in Level, waits \in BOOLEAN : CreateStart(prio, waits)
    BY <1>5, AllocationKeepsPids
<1>6. CASE CommandStep
    <2>1. ASSUME NEW t \in Task, CreateFillsIn(t)
          PROVE  PidsInv'
        BY <2>1, CreateFillsInKeepsPids
    <2>2. CASE CreateClaimsPid \/ CreateFails
        BY <2>2, AllocationKeepsPids
    <2>3. CASE CreateLinks
        BY <2>3, CreateLinksKeepsPids
    <2>4. CASE \/ CreateQueues \/ CreateLoadsBit \/ CreateStoresBit
               \/ CreateReadies \/ WaitCheck \/ WaitReturns
        BY <2>4, OtherStepsKeepPids
    <2>5. CASE WaitSleeps
        BY <2>5, SleepEffect, SleptKeepsPids
    <2> QED
        BY <1>6, <2>1, <2>2, <2>3, <2>4, <2>5 DEF CommandStep
<1> QED
    BY <1>1, <1>2, <1>3, <1>4, <1>5, <1>6 DEF Next

\* No pid is lost and none is shared, unless a tick falls between pid_alloc's
\* read of a byte of pid_map and its write, or the shell kills the pid of a
\* task that is dead: whichever task ends while task_create allocates, the
\* bits are those of the tasks that are not dead.
THEOREM PidsLosslessUnshared ==
    ASSUME "pid" \notin Preemptible, ~KillStale
    PROVE  Spec => []PidsOwned
<1>1. Init => Inv /\ TasksInv /\ PidsInv
    BY InitInv, InitTasks, InitPids
<1>2. Inv /\ TasksInv /\ PidsInv /\ [Next]_vars =>
        (Inv /\ TasksInv /\ PidsInv)'
    BY NextKeepsInv, NextKeepsTasks, NextKeepsPids
<1>3. PidsInv => PidsOwned
    BY DEF PidsInv
<1> QED
    BY <1>1, <1>2, <1>3, PTL DEF Spec

---------------------------------------------------------------------------
(* MapInv.                                                                 *)

\* The task that task_create builds is none of the special ones, and it is
\* queued or not as far as task_create has come.
LEMMA TaskOfCommand ==
    ASSUME Inv, TasksInv, StillQueued
    PROVE  /\ shell.at \in {"link", "queue", "load", "store"} =>
                shell.task \in Task \ Special
           /\ shell.at \in {"link", "queue"} => shell.task \notin Queued(rq)
           /\ shell.at \in {"load", "store"} =>
                /\ shell.task \in Queued(rq)
                /\ rq.dyn[shell.task] \in Level
                /\ shell.task \in Range(rq.sched[rq.dyn[shell.task]])
<1>1. CASE shell.at \in {"link", "queue"}
    BY <1>1 DEF Inv, CreateInv
<1>2. CASE shell.at \in {"load", "store"}
    BY <1>2, InvRunQueue, QueuedOnLevel
       DEF StillQueued, TasksInv, CommandInv, Inv, CreateInv
<1> QED
    BY <1>1, <1>2

\* The invariant after a step, in the terms of Sched.tla.
LEMMA RunQueueAfter ==
    ASSUME Inv'
    PROVE  /\ Sound(rq', Task)
           /\ Queued(rq') \subseteq Task \ Special
           /\ Head(rq'.sched[IdleList]) = IdleTask
<1>1. Sound(rq', Task)
    BY DEF Inv, TypeOK, OnOwnLevel, Sound, OnLevels
<1>2. rq'.dyn[IdleTask] = -1 /\ rq'.dyn[InitTask] = -1
    BY DEF Inv, IdleInv
<1>3. Queued(rq') \subseteq Task \ Special
    BY <1>1, <1>2, QueuedOnLevel, ListsApart DEF Special, Level
<1>4. \/ rq'.sched[IdleList] = <<IdleTask, InitTask>>
      \/ rq'.sched[IdleList] = <<IdleTask>>
    BY DEF Inv, IdleInv
<1>5. Head(rq'.sched[IdleList]) = IdleTask
    BY <1>4
<1> QED
    BY <1>1, <1>3, <1>5

LEMMA ExactAfterwards ==
    ASSUME Inv', StillQueued', pro_map' = InUse(rq')
    PROVE  ProMapExact'
<1>1. shell'.at \in {"load", "store"} => rq'.dyn[shell'.task] \in InUse(rq')
    BY RunQueueAfter, LevelInUse DEF StillQueued
<1> QED
    BY <1>1 DEF ProMapExact, InUse

LEMMA NotRunAfterwards ==
    ASSUME Inv', StillQueued',
           shell'.at \in {"link", "queue", "load", "store"} =>
                /\ shell'.task # current_task'
                /\ state'[shell'.task] = TASK_UNINIT
    PROVE  UnannouncedNotRun'
<1>1. shell'.at \in {"load", "store"} =>
            shell'.task \in Range(rq'.sched[rq'.dyn[shell'.task]])
    BY RunQueueAfter, QueuedOnLevel DEF StillQueued
<1> QED
    BY <1>1 DEF UnannouncedNotRun

LEMMA ChargedKeepsMap ==
    ASSUME Inv, MapInv, Charged
    PROVE  MapInv'
<1>1. /\ rq'.sched = rq.sched /\ rq'.dyn = rq.dyn
      /\ Queued(rq') = Queued(rq)
      /\ UNCHANGED <<state, pro_map, current_task, shell>>
    BY DEF Charged, Queued
<1>2. ProMapExact' /\ HighestRuns' /\ UnannouncedNotRun'
    BY <1>1 DEF MapInv, ProMapExact, HighestRuns, UnannouncedNotRun
<1>3. ByteLoaded' /\ BehindOthers' /\ StillQueued'
    BY <1>1 DEF MapInv, ByteLoaded, BehindOthers, StillQueued
<1> QED
    BY <1>2, <1>3 DEF MapInv

LEMMA SwitchedKeepsMap ==
    ASSUME "store" \notin Preemptible, Inv, TasksInv, MapInv, Switched, Inv'
    PROVE  MapInv'
<1> DEFINE t == shell.task
           next == current_task'
<1>1. /\ shell'.at = shell.at /\ shell'.task = t
      /\ current_task = InitTask /\ shell.at \in CommandPoints =>
           shell.at \in Preemptible /\ shell.hit = "no" /\ shell'.hit = shell.at
      /\ ~(current_task = InitTask /\ shell.at \in CommandPoints) =>
           shell'.hit = shell.hit
    BY TickedShell DEF Switched
<1>2. shell.at \in CommandPoints =>
        /\ wait = <<>>
        /\ current_task # InitTask => shell.at \in Preemptible /\ shell.hit = shell.at
    BY DEF TasksInv, CommandInv
<1>3. shell.at \in {"load", "store"} =>
            shell.at = "load" /\ shell'.hit # "no"
    BY <1>1, <1>2 DEF CommandPoints, CreatePoints
<1>4. Queued(rq') = Queued(rq)
    BY DEF Switched
<1>5. StillQueued'
    BY <1>1, <1>4 DEF MapInv, StillQueued
<1>6. /\ shell.at \in {"link", "queue", "load", "store"} =>
            t \in Task \ Special /\ t # current_task /\ state[t] = TASK_UNINIT
      /\ shell.at \in {"link", "queue"} => t \notin Queued(rq)
    BY TaskOfCommand DEF MapInv, UnannouncedNotRun
<1>7. /\ Sound(rq, Task) /\ pro_map \subseteq InUse(rq)
      /\ Head(rq.sched[IdleList]) = IdleTask
    BY InvRunQueue DEF MapInv, ProMapExact, InUse, Inv, IdleInv
<1>8. ASSUME FromSpecial, next \notin Special
      PROVE  /\ next \in Queued(rq) /\ rq.dyn[next] \in pro_map
             /\ next = Head(rq.sched[rq.dyn[next]])
             /\ \A j \in pro_map : j <= rq.dyn[next]
             /\ shell.at \in {"load", "store"} => shell.hit = "no"
    <2>1. /\ next = FindInProMap(rq, pro_map, NoTask)
          /\ current_task = InitTask \/ wait = <<InitTask>>
        BY <1>8 DEF FromSpecial, Special
    <2>2. pro_map # {}
        BY <1>7, <1>8, <2>1 DEF FindInProMap, Special
    <2>3. shell.at \in {"load", "store"} => shell.hit = "no"
        <3>1. <<InitTask>> # <<>>
            OBVIOUS
        <3>2. shell.at \in {"load", "store"} =>
                shell.at \in CommandPoints /\ current_task = InitTask
            BY <1>2, <2>1, <3>1 DEF CommandPoints, CreatePoints
        <3> QED
            BY <1>1, <3>2
    <2> HIDE DEF next
    <2> QED
        BY <1>7, <2>1, <2>2, <2>3, FoundIsFirst
<1>9. shell.at \in {"link", "queue", "load", "store"} => t # next
    <2>1. CASE next \in Special
        BY <2>1, <1>6
    <2>2. CASE next \notin Special
        <3>1. FromSpecial
            BY <2>2 DEF Switched, FromPriority, Special
        <3>2. shell.at \in {"load", "store"} =>
                \A i \in pro_map : Head(rq.sched[i]) # t
            BY <1>8, <2>2, <3>1 DEF MapInv, BehindOthers
        <3> HIDE DEF next, t
        <3> QED
            BY <1>6, <1>8, <2>2, <3>1, <3>2
    <2> QED
        BY <2>1, <2>2
<1>10. UnannouncedNotRun'
    <2>1. shell.at \in {"link", "queue", "load", "store"} =>
            state'[t] = TASK_UNINIT
        BY <1>6, <1>9 DEF Switched
    <2> QED
        BY <1>1, <1>5, <1>9, <2>1, NotRunAfterwards
<1>11. ProMapExact'
    <2>1. CASE FromPriority
        BY <2>1, <1>5, ExactAfterwards DEF FromPriority
    <2>2. CASE FromSpecial
        BY <2>2, <1>1 DEF FromSpecial, MapInv, ProMapExact
    <2> QED
        BY <2>1, <2>2 DEF Switched
<1>12. HighestRuns'
    <2> SUFFICES ASSUME next \in Queued(rq')
                 PROVE  /\ Head(rq'.sched[rq'.dyn[next]]) = next
                        /\ \A i \in Level : i > rq'.dyn[next] =>
                                Range(rq'.sched[i]) \subseteq {t}
        BY <1>1 DEF HighestRuns
    <2>1. next \notin Special
        BY RunQueueAfter
    <2>2. FromSpecial /\ rq' = rq
        BY <2>1 DEF Switched, FromPriority, FromSpecial, Special
    <2>3. /\ next = Head(rq.sched[rq.dyn[next]])
          /\ rq.dyn[next] \in pro_map
          /\ \A j \in pro_map : j <= rq.dyn[next]
          /\ shell.at \in {"load", "store"} => shell.hit = "no"
        BY <1>8, <2>1, <2>2
    <2> HIDE DEF next
    <2>4. ASSUME NEW i \in Level, i > rq.dyn[next]
          PROVE  Range(rq.sched[i]) \subseteq {t}
        <3>1. i \notin pro_map
            <4>1. rq.dyn[next] \in Level
                BY <1>7, <2>3 DEF InUse
            <4>2. ~(i <= rq.dyn[next])
                BY <2>4, <4>1, SchedAssumption DEF Level
            <4> QED
                BY <2>3, <4>2
        <3>2. CASE shell.at \in {"load", "store"}
            BY <2>3, <3>1, <3>2 DEF MapInv, BehindOthers
        <3>3. CASE shell.at \notin {"load", "store"}
            <4>1. rq.sched[i] = <<>>
                BY <3>1, <3>3 DEF MapInv, ProMapExact
            <4>2. Range(<<>>) = {}
                BY DEF Range
            <4> QED
                BY <4>1, <4>2
        <3> QED
            BY <3>2, <3>3
    <2> QED
        BY <2>2, <2>3, <2>4
<1>13. ByteLoaded' /\ BehindOthers'
    BY <1>1, <1>3 DEF ByteLoaded, BehindOthers
<1> QED
    BY <1>5, <1>10, <1>11, <1>12, <1>13 DEF MapInv

LEMMA ExitedKeepsMap ==
    ASSUME "store" \notin Preemptible, Inv, TasksInv, MapInv, Exited, Inv'
    PROVE  MapInv'
<1> DEFINE t == shell.task
<1>1. /\ current_task # InitTask /\ IdleTask \notin Queued(rq')
      /\ current_task' = IdleTask /\ shell' = shell
      /\ Queued(rq') = Queued(rq) \ {current_task}
      /\ pro_map' = InUse(rq')
    BY TypesOfLists, RunQueueAfter DEF Exited, Special
<1>2. shell.at \in {"load", "store"} => shell.at = "load" /\ shell.hit # "no"
    BY <1>1 DEF TasksInv, CommandInv, CommandPoints, CreatePoints
<1>3. shell.at \in {"link", "queue", "load", "store"} =>
        t \in Task \ Special /\ t # current_task /\ state[t] = TASK_UNINIT
    BY TaskOfCommand DEF MapInv, UnannouncedNotRun
<1>4. StillQueued'
    BY <1>1, <1>3 DEF MapInv, StillQueued
<1>5. ProMapExact'
    BY <1>1, <1>4, ExactAfterwards
<1>6. UnannouncedNotRun'
    <2>1. shell.at \in {"link", "queue", "load", "store"} =>
            state'[t] = TASK_UNINIT /\ t # IdleTask
        BY <1>3 DEF Exited, Special
    <2> QED
        BY <1>1, <1>4, <2>1, NotRunAfterwards
<1>7. HighestRuns'
    BY <1>1 DEF HighestRuns
<1>8. ByteLoaded' /\ BehindOthers'
    BY <1>1, <1>2 DEF ByteLoaded, BehindOthers
<1> QED
    BY <1>4, <1>5, <1>6, <1>7, <1>8 DEF MapInv

\* Steps at whose ends no task waits to be announced, and after which the
\* bitmap is exact.
LEMMA NobodyUnannounced ==
    ASSUME Inv', pro_map' = InUse(rq'), HighestRuns',
           shell'.at \notin {"link", "queue", "load", "store"}
    PROVE  MapInv'
<1>1. StillQueued' /\ ByteLoaded' /\ BehindOthers' /\ UnannouncedNotRun'
    BY DEF StillQueued, ByteLoaded, BehindOthers, UnannouncedNotRun
<1> QED
    BY <1>1, ExactAfterwards DEF MapInv

LEMMA InitRuns ==
    ASSUME Inv', current_task' = InitTask
    PROVE  HighestRuns'
BY RunQueueAfter DEF HighestRuns, Special

LEMMA KilledKeepsMap ==
    ASSUME NEW t \in Task, NEW p, Killed(t, p), Inv'
    PROVE  MapInv'
<1>1. /\ pro_map' = InUse(rq') /\ current_task' = InitTask
      /\ shell'.at = "shell"
    BY DEF Killed
<1> QED
    BY <1>1, InitRuns, NobodyUnannounced

LEMMA SleptKeepsMap ==
    ASSUME Inv, Slept, Inv'
    PROVE  MapInv'
<1> DEFINE next == current_task'
<1>1. /\ pro_map' = InUse(rq')
      /\ next = FindInProMap(rq', InUse(rq'), NoTask)
      /\ shell'.at = "asleep"
    BY DEF Slept, Inv, TypeOK, Shell
<1>2. HighestRuns'
    <2> SUFFICES ASSUME next \in Queued(rq')
                 PROVE  /\ Head(rq'.sched[rq'.dyn[next]]) = next
                        /\ \A i \in Level : i > rq'.dyn[next] =>
                                Range(rq'.sched[i]) \subseteq {shell'.task}
        BY DEF HighestRuns
    <2>1. InUse(rq') # {}
        BY <1>1, RunQueueAfter DEF FindInProMap, Special
    <2>2. /\ rq'.dyn[next] \in InUse(rq')
          /\ next = Head(rq'.sched[rq'.dyn[next]])
          /\ \A j \in InUse(rq') : j <= rq'.dyn[next]
        BY <1>1, <2>1, RunQueueAfter, FoundIsFirst
    <2> HIDE DEF next
    <2>3. ASSUME NEW i \in Level, i > rq'.dyn[next]
          PROVE  Range(rq'.sched[i]) \subseteq {shell'.task}
        <3>1. i \notin InUse(rq')
            BY <2>2, <2>3, SchedAssumption DEF Level, InUse
        <3>2. rq'.sched[i] = <<>>
            BY <3>1 DEF InUse
        <3>3. Range(<<>>) = {}
            BY DEF Range
        <3> QED
            BY <3>2, <3>3
    <2> QED
        BY <2>2, <2>3
<1> QED
    BY <1>1, <1>2, NobodyUnannounced

\* The steps of a command that neither queue nor announce a task.
LEMMA SameQueuesKeepMap ==
    ASSUME MapInv, Inv', TasksInv', rq'.sched = rq.sched, pro_map' = pro_map,
           current_task' = InitTask, shell.at \notin {"load", "store"},
           shell'.at \notin {"load", "store"}
    PROVE  MapInv'
<1>1. ProMapExact'
    BY DEF MapInv, ProMapExact
<1>2. StillQueued' /\ ByteLoaded' /\ BehindOthers'
    BY DEF StillQueued, ByteLoaded, BehindOthers
<1>3. shell'.at \in {"link", "queue"} =>
        /\ shell'.task # InitTask
        /\ state'[shell'.task] = TASK_UNINIT
    BY DEF Inv, CreateInv, Special, TasksInv, CommandInv
<1>4. UnannouncedNotRun'
    BY <1>2, <1>3, NotRunAfterwards
<1> QED
    BY <1>1, <1>2, <1>4, InitRuns DEF MapInv

LEMMA CreateQueuesKeepsMap ==
    ASSUME Inv, TasksInv, MapInv, CreateQueues, Inv'
    PROVE  MapInv'
<1> DEFINE t == shell.task
           l == rq.dyn[t]
<1>1. /\ shell \in Shell /\ current_task = InitTask /\ shell.at = "queue"
      /\ rq' = AddSched(rq, t) /\ shell' = [shell EXCEPT !.at = "load"]
      /\ UNCHANGED <<state, pro_map, current_task>>
    BY DEF CreateQueues, Command, Inv, TypeOK
<1>2. shell'.at = "load" /\ shell'.task = t
    BY <1>1 DEF Shell
<1>3. /\ t \in Task \ Special /\ t \notin Queued(rq) /\ l \in Level /\ l # -1
      /\ state[t] = TASK_UNINIT
    BY <1>1, ListsApart DEF Inv, CreateInv, Level, MapInv, UnannouncedNotRun
<1> HIDE DEF t
<1>4. Sound(rq, Task)
    BY InvRunQueue
<1>5. /\ rq'.dyn = rq.dyn
      /\ \A j \in Lists : j # l => rq'.sched[j] = rq.sched[j]
      /\ rq'.sched[l] = Append(rq.sched[l], t)
      /\ Queued(rq') = Queued(rq) \cup {t}
    BY <1>1, <1>3, <1>4, AddSchedAdds, SMTT(40) DEF SameFields
<1>6. /\ rq.sched[l] \in Seq(Task) /\ t \notin Range(rq.sched[l])
      /\ pro_map = InUse(rq)
    BY <1>1, <1>3, <1>4, QueuedOnLevel, ListsApart DEF MapInv, ProMapExact, InUse
<1> HIDE DEF l
<1>7. Append(rq.sched[l], t) # <<>>
    BY <1>3, <1>6
<1>8. ProMapExact'
    <2>1. \A j \in Level : rq'.sched[j] # <<>> <=> rq.sched[j] # <<>> \/ j = l
        BY <1>5, <1>7, ListsApart
    <2>2. rq'.dyn[shell'.task] = l
        BY <1>2, <1>5 DEF l
    <2> QED
        BY <1>1, <1>2, <1>3, <1>6, <2>1, <2>2 DEF ProMapExact, InUse
<1>9. StillQueued' /\ ByteLoaded'
    BY <1>2, <1>5 DEF StillQueued, ByteLoaded
<1>10. UnannouncedNotRun'
    BY <1>1, <1>2, <1>3, <1>9, NotRunAfterwards DEF Special
<1>11. ASSUME NEW i \in pro_map
       PROVE  Head(rq'.sched[i]) # t
    <2>1. i \in Level /\ rq.sched[i] # <<>>
        BY <1>6 DEF InUse
    <2>2. rq.sched[i] \in Seq(Task) /\ Range(rq.sched[i]) \subseteq Queued(rq)
        BY <1>4, <2>1, QueuedOnLevel, ListsApart
    <2>3. Head(rq.sched[i]) # t
        BY <1>3, <2>1, <2>2, HeadOfQueue
    <2>4. rq'.sched[i] = rq.sched[i] \/ rq'.sched[i] = Append(rq.sched[i], t)
        BY <1>5, <2>1, ListsApart
    <2>5. Head(Append(rq.sched[i], t)) = Head(rq.sched[i])
        BY <1>3, <2>1, <2>2
    <2> QED
        BY <2>3, <2>4, <2>5
<1>12. ASSUME NEW i \in Level \ pro_map
       PROVE  Range(rq'.sched[i]) \subseteq {t}
    <2>1. rq.sched[i] = <<>>
        BY <1>6 DEF InUse
    <2>2. Range(<<>>) = {} /\ Range(<<t>>) = {t} /\ Append(<<>>, t) = <<t>>
        BY DEF Range
    <2>3. rq'.sched[i] = rq.sched[i] \/ rq'.sched[i] = Append(rq.sched[i], t)
        BY <1>5, ListsApart
    <2> QED
        BY <2>1, <2>2, <2>3
<1>13. BehindOthers'
    BY <1>1, <1>2, <1>11, <1>12 DEF BehindOthers
<1> QED
    BY <1>1, <1>8, <1>9, <1>10, <1>13, InitRuns DEF MapInv

LEMMA CreateLoadsBitKeepsMap ==
    ASSUME Inv, TasksInv, MapInv, CreateLoadsBit, Inv'
    PROVE  MapInv'
<1> DEFINE l == rq.dyn[shell.task]
<1>1. /\ shell \in Shell /\ current_task = InitTask /\ shell.at = "load"
      /\ shell' = [shell EXCEPT !.at = "store", !.prio = l,
                        !.byte = IF l = -1 THEN {} ELSE pro_map \cap ProByte(l)]
      /\ UNCHANGED <<rq, state, pro_map, current_task>>
    BY DEF CreateLoadsBit, Command, Inv, TypeOK, schedVars
<1>2. l \in Level /\ l # -1
    BY <1>1, TaskOfCommand, ListsApart DEF MapInv, Level
<1> HIDE DEF l
<1>3. /\ shell'.at = "store" /\ shell'.task = shell.task
      /\ shell'.prio = l /\ shell'.byte = pro_map \cap ProByte(l)
      /\ shell'.hit = shell.hit
    BY <1>1, <1>2 DEF Shell
<1>4. ProMapExact' /\ UnannouncedNotRun' /\ StillQueued'
    BY <1>1, <1>3 DEF MapInv, ProMapExact, UnannouncedNotRun, StillQueued
<1>5. ByteLoaded'
    BY <1>1, <1>3 DEF ByteLoaded, l
<1>6. BehindOthers'
    BY <1>1, <1>3 DEF MapInv, BehindOthers
<1> QED
    BY <1>1, <1>4, <1>5, <1>6, InitRuns DEF MapInv

LEMMA CreateStoresBitKeepsMap ==
    ASSUME Inv, TasksInv, MapInv, CreateStoresBit, Inv'
    PROVE  MapInv'
<1> DEFINE l == rq.dyn[shell.task]
<1>1. /\ shell \in Shell /\ current_task = InitTask /\ shell.at = "store"
      /\ pro_map' = IF shell.prio = -1 THEN pro_map
                    ELSE (pro_map \ ProByte(shell.prio))
                         \cup shell.byte \cup {shell.prio}
      /\ shell' = [shell EXCEPT !.at = "ready", !.byte = {}]
      /\ UNCHANGED <<rq, state, current_task>>
    BY DEF CreateStoresBit, Command, Inv, TypeOK
<1>2. l \in Level /\ l # -1
    BY <1>1, TaskOfCommand, ListsApart DEF MapInv, Level
<1>3. shell.prio = l /\ shell.byte = pro_map \cap ProByte(l)
    BY <1>1 DEF MapInv, ByteLoaded
<1>4. pro_map \cup {l} = InUse(rq)
    BY <1>1 DEF MapInv, ProMapExact, InUse
<1> HIDE DEF l
<1>5. pro_map' = InUse(rq')
    BY <1>1, <1>2, <1>3, <1>4
<1>6. shell'.at = "ready"
    BY <1>1 DEF Shell
<1> QED
    BY <1>1, <1>5, <1>6, InitRuns, NobodyUnannounced

LEMMA InitMap ==
    ASSUME Init
    PROVE  MapInv
<1>1. Inv
    BY InitInv
<1>2. \A i \in Level : rq.sched[i] = <<>>
    BY ListsApart DEF Init
<1>3. pro_map = {} /\ current_task = IdleTask /\ shell.at = "shell"
    BY DEF Init
<1>4. IdleTask \notin Queued(rq)
    BY <1>1, InvRunQueue DEF Special
<1> QED
    BY <1>2, <1>3, <1>4
       DEF MapInv, ProMapExact, HighestRuns, UnannouncedNotRun, ByteLoaded,
           BehindOthers, StillQueued

LEMMA NextKeepsMap ==
    ASSUME "store" \notin Preemptible,
           Inv, TasksInv, MapInv, [Next]_vars, Inv', TasksInv'
    PROVE  MapInv'
<1>1. CASE UNCHANGED vars \/ Stopped
    <2>1. UNCHANGED <<rq, pro_map, current_task, state, shell>>
        BY <1>1 DEF Stopped, vars
    <2>2. Queued(rq') = Queued(rq)
        BY <2>1
    <2>3. ProMapExact' /\ HighestRuns' /\ UnannouncedNotRun'
        BY <2>1, <2>2 DEF MapInv, ProMapExact, HighestRuns, UnannouncedNotRun
    <2>4. ByteLoaded' /\ BehindOthers' /\ StillQueued'
        BY <2>1, <2>2 DEF MapInv, ByteLoaded, BehindOthers, StillQueued
    <2> QED
        BY <2>3, <2>4 DEF MapInv
<1>2. CASE Tick
    BY <1>1, <1>2, TickEffect, ChargedKeepsMap, SwitchedKeepsMap
<1>3. CASE TaskExit
    BY <1>3, ExitEffect, ExitedKeepsMap
<1>4. ASSUME NEW p \in Pids, PcKill(p)
      PROVE  MapInv'
    BY <1>4, KillEffect, KilledKeepsMap
<1>5. ASSUME \/ \E prio \in Level, waits \in BOOLEAN : CreateStart(prio, waits)
             \/ CreateClaimsPid \/ CreateFails \/ CreateReadies \/ CreateLinks
             \/ \E t \in Task : CreateFillsIn(t)
             \/ WaitCheck \/ WaitReturns
      PROVE  MapInv'
    <2>1. /\ shell \in Shell /\ current_task = InitTask
          /\ UNCHANGED <<pro_map, current_task>>
          /\ rq'.sched = rq.sched
        BY <1>5, ZenonT(60) DEF Inv, TypeOK, RunQueue, CreateStart, CreateClaimsPid,
                    CreateFails, CreateReadies, CreateLinks, CreateFillsIn,
                    WaitCheck, WaitReturns, Command, schedVars
    <2>2. /\ shell.at \notin {"load", "store"}
          /\ shell'.at \notin {"load", "store"}
        BY <1>5, <2>1, ZenonT(60) DEF CreateStart, CreateClaimsPid, CreateFails,
                    CreateReadies, CreateLinks, CreateFillsIn, WaitCheck,
                    WaitReturns, Command, Shell
    <2> QED
        BY <2>1, <2>2, SameQueuesKeepMap
<1>6. CASE CreateQueues \/ CreateLoadsBit \/ CreateStoresBit
    BY <1>6, CreateQueuesKeepsMap, CreateLoadsBitKeepsMap,
       CreateStoresBitKeepsMap
<1>7. CASE WaitSleeps
    BY <1>7, SleepEffect, SleptKeepsMap
<1> QED
    BY <1>1, <1>2, <1>3, <1>4, <1>5, <1>6, <1>7 DEF Next, CommandStep

\* The inductive invariant of the bitmap and the running task, unless a tick
\* falls between add_pro_map's read of a byte of pro_map and its write.
THEOREM MapInvariant ==
    ASSUME "store" \notin Preemptible
    PROVE  Spec => [](Inv /\ TasksInv /\ MapInv)
<1>1. Init => Inv /\ TasksInv /\ MapInv
    BY InitInv, InitTasks, InitMap
<1>2. Inv /\ TasksInv /\ MapInv /\ [Next]_vars =>
        (Inv /\ TasksInv /\ MapInv)'
    BY NextKeepsInv, NextKeepsTasks, NextKeepsMap
<1> QED
    BY <1>1, <1>2, PTL DEF Spec

\* The bitmap has exactly the bits of the levels that have a task, but for
\* the one that task_create is about to set: a tick in the middle of
\* task_create, an exit or a kill in between loses no bit and leaves none set,
\* under the condition of MapInvariant.
THEOREM BitmapExact ==
    ASSUME "store" \notin Preemptible
    PROVE  Spec => []ProMapExact
<1>1. MapInv => ProMapExact
    BY DEF MapInv
<1> QED
    BY <1>1, MapInvariant, PTL

\* The first task of the highest level runs whenever a priority task does,
\* with the exception of the one that task_create has not announced yet: the
\* claim at pc.c:438, under the condition of MapInvariant.
THEOREM HighestPriorityRuns ==
    ASSUME "store" \notin Preemptible
    PROVE  Spec => []HighestRuns
<1>1. MapInv => HighestRuns
    BY DEF MapInv
<1> QED
    BY <1>1, MapInvariant, PTL

\* A half-created task is never run, even when a tick takes the processor
\* from task_create and other tasks run and end before it goes on, under the
\* condition of MapInvariant.
THEOREM HalfCreatedNeverRuns ==
    ASSUME "store" \notin Preemptible
    PROVE  Spec => []UnannouncedNotRun
<1>1. MapInv => UnannouncedNotRun
    BY DEF MapInv
<1> QED
    BY <1>1, MapInvariant, PTL

---------------------------------------------------------------------------
(* WaitInv, and the kernel never halts.                                    *)

\* Init, who is the only one to wait, does not.
LEMMA NobodyWaiting ==
    ASSUME Inv', current_task' = InitTask, shell'.at # "window"
    PROVE  WaitInv'
<1>1. wait' = <<>>
    BY DEF Inv, IdleInv
<1>2. Range(wait') = {}
    BY <1>1 DEF Range
<1> QED
    BY <1>2 DEF WaitInv, WaitsForTheLiving, WakeupsPend

\* A step that keeps the tasks that are not dead, their pids and parents, and
\* the state of a waiting task.
LEMMA SameWaiting ==
    ASSUME WaitInv, Live' = Live, wait' = wait, UNCHANGED <<pid, ppid>>,
           \A t \in Range(wait) : state'[t] = state[t],
           shell'.at = shell.at, shell'.pid = shell.pid,
           shell.at \in {"window", "asleep"} => shell'.hit \in {shell.hit, shell.at},
           shell.at = "asleep" => shell'.hit = shell.hit
    PROVE  WaitInv'
<1>1. WaitsForTheLiving'
    <2>1. WakeupsPend => WakeupsPend'
        BY DEF WakeupsPend
    <2> QED
        BY <2>1 DEF WaitInv, WaitsForTheLiving, Overtaken
<1> QED
    BY <1>1 DEF WaitInv

LEMMA SwitchedKeepsWait ==
    ASSUME Inv, TasksInv, WaitInv, Switched
    PROVE  WaitInv'
<1>1. /\ Live = Range(tasks) \ Range(terminal) /\ Live \subseteq Task
      /\ Range(tasks) \subseteq Task /\ InitTask \in Task
      /\ \/ wait = <<>> /\ Range(wait) = {}
         \/ /\ wait = <<InitTask>> /\ Range(wait) = {InitTask}
            /\ current_task # InitTask
    BY LiveTasks, TypesOfLists
<1>2. \A t \in Live : state[t] # TASK_TERMINAL
    BY DEF Live
<1>3. \A t \in Live : state'[t] # TASK_TERMINAL
    BY <1>1, <1>2 DEF Switched, TASK_RUNNING, TASK_READY, TASK_TERMINAL
<1>4. Live' = Live
    BY <1>1, <1>3 DEF Switched, Live
<1>5. <<InitTask>> # <<>>
    OBVIOUS
<1>6. \A t \in Range(wait) : state'[t] = state[t]
    BY <1>1, <1>5 DEF Switched
<1>7. /\ shell'.at = shell.at /\ shell'.pid = shell.pid
      /\ shell.at \in {"window", "asleep"} => shell'.hit \in {shell.hit, shell.at}
      /\ shell.at = "asleep" => shell'.hit = shell.hit
    BY TickedShell DEF Switched, CommandPoints, CreatePoints
<1>8. wait' = wait /\ UNCHANGED <<pid, ppid>>
    BY DEF Switched
<1> QED
    BY <1>4, <1>6, <1>7, <1>8, SameWaiting

LEMMA ExitedKeepsWait ==
    ASSUME Inv, TasksInv, WaitInv, Exited
    PROVE  WaitInv'
<1>1. /\ current_task \in Live /\ Live \subseteq Task /\ InitTask \in Live
      /\ current_task # InitTask /\ Range(tasks) \subseteq Task
      /\ \/ wait = <<>> /\ Range(wait) = {}
         \/ wait = <<InitTask>> /\ Range(wait) = {InitTask}
    BY LiveTasks, TypesOfLists DEF Exited, Special
<1>2. Live' = Live \ {current_task}
    BY <1>1 DEF Exited, Live, TASK_READY, TASK_TERMINAL
<1>3. shell' = shell /\ (shell.at = "window" => shell.hit = "window")
    BY <1>1 DEF Exited, TasksInv, CommandInv, CommandPoints
<1>4. WaitsForTheLiving'
    <2> SUFFICES ASSUME ~Overtaken PROVE WakeupsPend'
        BY <1>3 DEF WaitsForTheLiving, Overtaken
    <2>1. CASE wait' = <<>>
        <3>1. Range(wait') = {}
            BY <2>1 DEF Range
        <3> QED
            BY <3>1 DEF WakeupsPend
    <2>2. CASE wait' # <<>>
        <3>1. wait' = wait /\ Range(wait) = {InitTask}
            BY <2>2, <1>1 DEF Exited
        <3>2. ppid[current_task] # pid[InitTask] /\ state'[InitTask] = state[InitTask]
            BY <2>2, <1>1 DEF Exited
        <3>3. PICK c \in Live : /\ pid[c] = -state[InitTask]
                                /\ ppid[c] = pid[InitTask]
            BY <3>1 DEF WaitInv, WaitsForTheLiving, WakeupsPend
        <3>4. c \in Live'
            BY <1>2, <3>2, <3>3
        <3> QED
            BY <3>1, <3>2, <3>3, <3>4 DEF WakeupsPend, Exited
    <2> QED
        BY <2>1, <2>2
<1> QED
    BY <1>3, <1>4 DEF WaitInv

LEMMA SleptKeepsWait ==
    ASSUME Inv, TasksInv, WaitInv, Slept
    PROVE  WaitInv'
<1>1. /\ Live \subseteq Task /\ InitTask \in Live /\ shell \in Shell
      /\ Range(tasks) \subseteq Task
    BY LiveTasks, TypesOfLists DEF Special
<1>2. shell.pid \in Nat /\ -shell.pid # TASK_TERMINAL /\ -(-shell.pid) = shell.pid
    <2>1. shell.pid \in Pids
        BY <1>1 DEF Shell
    <2> QED
        BY <2>1, PidNumAssumption DEF Pids, TASK_TERMINAL
<1>3. Live' = Live
    BY <1>1, <1>2 DEF Slept, Live
<1>4. shell'.at = "asleep" /\ shell.at = "window" /\ shell'.hit = shell.hit
    BY <1>1 DEF Slept, Shell
<1>5. Range(wait') = {InitTask}
    BY DEF Slept, Range
<1>6. state'[InitTask] = -shell.pid
    BY <1>1 DEF Slept
<1>7. WaitsForTheLiving'
    <2> SUFFICES ASSUME shell.hit # "window" PROVE WakeupsPend'
        BY <1>4 DEF WaitsForTheLiving, Overtaken
    <2>1. PICK c \in Live : pid[c] = shell.pid /\ ppid[c] = pid[InitTask]
        BY <1>4 DEF WaitInv
    <2> QED
        BY <1>2, <1>3, <1>5, <1>6, <2>1 DEF WakeupsPend, Slept
<1> QED
    BY <1>4, <1>7 DEF WaitInv

\* wait_check has found the child.
LEMMA WaitCheckKeepsWait ==
    ASSUME Inv, WaitInv, WaitCheck, Inv'
    PROVE  WaitInv'
<1> DEFINE S == {u \in Task : pid[u] = shell.pid /\ state[u] # TASK_TERMINAL}
           c == FirstIn(tasks, S, NoTask)
<1>1. /\ shell \in Shell /\ current_task = InitTask
      /\ UNCHANGED <<pid, ppid, state, tasks, wait, current_task>>
    BY DEF WaitCheck, Command, Inv, TypeOK, schedVars, idVars
<1>2. /\ shell'.at = IF c # NoTask /\ ppid[c] = pid[InitTask]
                     THEN "window" ELSE "shell"
      /\ shell'.pid = shell.pid
    BY <1>1 DEF WaitCheck, WaitedFor, Shell
<1>3. CASE shell'.at # "window"
    BY <1>1, <1>3, NobodyWaiting
<1>4. CASE shell'.at = "window"
    <2>1. tasks \in Seq(Task)
        BY DEF Inv, TypeOK
    <2>2. c # NoTask => c \in Range(tasks) \cap S
        BY <2>1, FirstInQueue
    <2> HIDE DEF c
    <2>3. c \in Live /\ pid[c] = shell.pid /\ ppid[c] = pid[InitTask]
        BY <1>2, <1>4, <2>2 DEF Live
    <2>4. Live' = Live
        BY <1>1 DEF Live
    <2>5. wait' = <<>>
        BY <1>1 DEF Inv, IdleInv
    <2>6. Range(wait') = {}
        BY <2>5 DEF Range
    <2> QED
        BY <1>1, <1>2, <2>3, <2>4, <2>6 DEF WaitInv, WaitsForTheLiving, WakeupsPend
<1> QED
    BY <1>3, <1>4

LEMMA NextKeepsWait ==
    ASSUME Inv, TasksInv, WaitInv, [Next]_vars, Inv'
    PROVE  WaitInv'
<1>1. CASE UNCHANGED vars \/ Charged \/ Stopped
    <2>1. UNCHANGED <<pid, ppid, state, tasks, wait, terminal, shell>>
        BY <1>1 DEF vars, Charged, Stopped
    <2>2. Live' = Live
        BY <2>1 DEF Live
    <2> QED
        BY <2>1, <2>2, SameWaiting
<1>2. CASE Tick
    BY <1>1, <1>2, TickEffect, SwitchedKeepsWait
<1>3. CASE TaskExit
    BY <1>3, ExitEffect, ExitedKeepsWait
<1>4. ASSUME NEW p \in Pids, PcKill(p)
      PROVE  WaitInv'
    <2>1. current_task' = InitTask /\ shell'.at # "window"
        BY <1>4, KillEffect DEF Killed
    <2> QED
        BY <2>1, NobodyWaiting
<1>5. ASSUME \/ \E prio \in Level, waits \in BOOLEAN : CreateStart(prio, waits)
             \/ CreateClaimsPid \/ CreateFails \/ CreateReadies \/ CreateLinks
             \/ \E t \in Task : CreateFillsIn(t)
             \/ CreateQueues \/ CreateLoadsBit \/ CreateStoresBit
             \/ WaitReturns
      PROVE  WaitInv'
    <2>1. /\ shell \in Shell /\ current_task = InitTask
          /\ UNCHANGED current_task
        BY <1>5, ZenonT(60) DEF Inv, TypeOK, CreateStart, CreateClaimsPid, CreateFails,
                    CreateReadies, CreateLinks, CreateFillsIn, CreateQueues,
                    CreateLoadsBit, CreateStoresBit, WaitReturns, Command,
                    schedVars
    <2>2. shell'.at # "window"
        BY <1>5, <2>1, ZenonT(60) DEF CreateStart, CreateClaimsPid, CreateFails,
                    CreateReadies, CreateLinks, CreateFillsIn, CreateQueues,
                    CreateLoadsBit, CreateStoresBit, WaitReturns, Shell
    <2> QED
        BY <2>1, <2>2, NobodyWaiting
<1>6. CASE WaitCheck
    BY <1>6, WaitCheckKeepsWait
<1>7. CASE WaitSleeps
    BY <1>7, SleepEffect, SleptKeepsWait
<1> QED
    BY <1>1, <1>2, <1>3, <1>4, <1>5, <1>6, <1>7 DEF Next, CommandStep

LEMMA InitWait ==
    ASSUME Init
    PROVE  WaitInv
<1>1. Range(wait) = {} /\ shell.at = "shell"
    BY DEF Init, Range
<1> QED
    BY <1>1 DEF WaitInv, WaitsForTheLiving, WakeupsPend

\* Whatever points of a command the ticks hit: the wakeup of the shell is not
\* lost in a wait_pid that no tick has overtaken between its search for the
\* child and its sleep.  The child it waits for is alive as long as it waits,
\* and will find it as its parent when it ends.
THEOREM ShellWaitsForTheLiving == Spec => []WaitsForTheLiving
<1>1. Init => Inv /\ TasksInv /\ WaitInv
    BY InitInv, InitTasks, InitWait
<1>2. Inv /\ TasksInv /\ WaitInv /\ [Next]_vars =>
        (Inv /\ TasksInv /\ WaitInv)'
    BY NextKeepsInv, NextKeepsTasks, NextKeepsWait
<1>3. WaitInv => WaitsForTheLiving
    BY DEF WaitInv
<1> QED
    BY <1>1, <1>2, <1>3, PTL DEF Spec

\* The next task of a tick is a task other than the running one.
LEMMA NextIsAnother ==
    ASSUME Inv, TasksInv, MapInv, WaitInv, ~Overtaken, NEW next, NextIs(next)
    PROVE  next # NoTask /\ next # current_task
<1>1. /\ IdleTask \in Task /\ InitTask \in Task /\ IdleTask # InitTask
      /\ NoTask \notin Task
      /\ Queued(rq) \subseteq Task \ Special
      /\ Sound(rq, Task) /\ pro_map \subseteq InUse(rq)
      /\ Head(rq.sched[IdleList]) = IdleTask
    BY TaskAssumption, InvRunQueue
       DEF MapInv, ProMapExact, InUse, Inv, IdleInv
<1>2. CASE current_task \in Queued(rq) /\ next = IdleTask
    BY <1>1, <1>2 DEF Special
<1>3. CASE current_task = IdleTask /\ next = InitTask
    BY <1>1, <1>3
<1>4. CASE /\ current_task \in Special
           /\ current_task = InitTask \/ wait = <<InitTask>>
           /\ next = FindInProMap(rq, pro_map, NoTask)
    <2>1. CASE pro_map # {}
        <3>1. next \in Queued(rq)
            BY <1>1, <1>4, <2>1, FoundIsFirst
        <3> QED
            BY <1>1, <1>4, <3>1
    <2>2. CASE pro_map = {} /\ current_task = InitTask
        <3>1. next = IdleTask
            BY <1>1, <1>4, <2>2 DEF FindInProMap
        <3> QED
            BY <1>1, <2>2, <3>1
    <2>3. CASE pro_map = {} /\ current_task # InitTask
        <3>1. wait = <<InitTask>> /\ InitTask \in Range(wait) /\ wait # <<>>
            <4>1. <<InitTask>> # <<>> /\ Range(<<InitTask>>) = {InitTask}
                BY DEF Range
            <4> QED
                BY <1>4, <2>3, <4>1
        <3>2. shell.at \notin CommandPoints
            BY <3>1 DEF TasksInv, CommandInv
        <3>3. PICK c \in Live : pid[c] = -state[InitTask]
            BY <3>1 DEF WaitInv, WaitsForTheLiving, WakeupsPend
        <3>4. InitTask \in Range(tasks) /\ state[InitTask] \in Int
            BY <1>1 DEF TasksInv, ListsInv, Special, Inv, TypeOK
        <3>5. state[InitTask] < 0 /\ state[InitTask] # -INIT_PID
            BY <3>1, <3>4 DEF TasksInv, StateInv
        <3>6. c \notin Special
            <4>1. pid[IdleTask] = 0 /\ pid[InitTask] = 1
                BY DEF Inv, PidInv, IDLE_PID, INIT_PID
            <4> QED
                BY <3>3, <3>4, <3>5, <4>1 DEF Special, INIT_PID
        <3>7. c \in Queued(rq)
            BY <3>2, <3>6, LiveTasks
               DEF TasksInv, ListsInv, CommandPoints, CreatePoints
        <3>8. rq.dyn[c] \in InUse(rq)
            BY <1>1, <3>7, LevelInUse
        <3>9. pro_map = InUse(rq)
            BY <3>2 DEF MapInv, ProMapExact, InUse, CommandPoints, CreatePoints
        <3> QED
            BY <2>3, <3>8, <3>9
    <2> QED
        BY <2>1, <2>2, <2>3
<1> QED
    BY <1>2, <1>3, <1>4 DEF NextIs

LEMMA NextKeepsRunning ==
    ASSUME Inv, TasksInv, MapInv, WaitInv, NeverHalts, [Next]_vars
    PROVE  NeverHalts'
<1>1. CASE Tick
    <2>1. CASE Overtaken /\ halted' # "no"
        <3>1. Stopped \/ Charged \/ Switched
            BY <1>1, TickEffect
        <3>2. shell.at = "asleep" /\ shell.hit = "window"
            BY <2>1 DEF Overtaken
        <3>3. shell'.at = "asleep" /\ shell'.hit = "window"
            BY <3>1, <3>2, TickedShell
               DEF Stopped, Charged, Switched, CommandPoints, CreatePoints
        <3> QED
            BY <3>3 DEF NeverHalts, Overtaken
    <2>2. CASE ~Overtaken
        <3>1. ~TerminalCorrupt
            BY DEF TerminalCorrupt, TasksInv, ListsInv, StateInv
        <3>2. ~Stopped
            BY <2>2, <3>1, NextIsAnother DEF Stopped
        <3>3. Charged \/ Switched
            BY <1>1, <3>2, TickEffect
        <3> QED
            BY <2>2, <3>3 DEF Charged, Switched, NeverHalts
    <2>3. CASE halted' = "no"
        BY <2>3 DEF NeverHalts
    <2> QED
        BY <2>1, <2>2, <2>3
<1>2. CASE TaskExit
    BY <1>2 DEF TaskExit, NeverHalts
<1>3. CASE WaitSleeps
    <2>1. halted = "no"
        BY <1>3 DEF WaitSleeps, Command
    <2> QED
        BY <1>3, <2>1, SleepEffect DEF Slept, NeverHalts
<1>4. CASE UNCHANGED vars
    BY <1>4 DEF vars, NeverHalts, Overtaken
<1> QED
    BY <1>1, <1>2, <1>3, <1>4, ZenonT(60)
       DEF Next, CommandStep, NeverHalts, PcKill, CreateStart, CreateClaimsPid,
           CreateFails, CreateFillsIn, CreateLinks, CreateQueues,
           CreateLoadsBit, CreateStoresBit, CreateReadies, WaitCheck,
           WaitReturns, Command

\* The kernel never stops in one of pc_schedule's while(1) loops and never
\* runs the task_struct of an empty list, unless a tick falls into
\* add_pro_map's update of the bitmap, and but for a shell that a tick has
\* overtaken in wait_pid.  Without a child that is alive, idle would be alone
\* and be its own successor.
THEOREM KernelNeverHalts ==
    ASSUME "store" \notin Preemptible
    PROVE  Spec => []NeverHalts
<1> DEFINE All == Inv /\ TasksInv /\ MapInv /\ WaitInv /\ NeverHalts
<1>1. Init => All
    BY InitInv, InitTasks, InitMap, InitWait DEF NeverHalts, Init
<1>2. All /\ [Next]_vars => All'
    BY NextKeepsInv, NextKeepsTasks, NextKeepsMap, NextKeepsWait,
       NextKeepsRunning
<1>3. All => NeverHalts
    OBVIOUS
<1> QED
    BY <1>1, <1>2, <1>3, PTL DEF Spec
=============================================================================
